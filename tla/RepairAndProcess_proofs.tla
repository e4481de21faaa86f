----------------------- MODULE RepairAndProcess_proofs -----------------------
(***************************************************************************)
(* The commands, for every file delivered at any moment, every outcome of  *)
(* the repair, of the store and of the cloud.  A new delivery is no step   *)
(* of the graph, so that the theorems about the graph and its record do    *)
(* not carry over as they stand: their invariants are shown to survive it. *)
(***************************************************************************)
EXTENDS RepairAndProcess, AuditedCsvRepair_proofs

\* What is known of the graph and of its record inside a command.
GraphFacts == TypeOK /\ Flow /\ StateTells /\ ApprovalInv /\ RecordInv

\* The types of the command's variables.
CliTyped ==
  /\ cli \in {"detecting", "building", "agent", "configuring", "uploading",
              "triggering", "exited"}
  /\ command \in Commands
  /\ error \in {"csv", "schema", None}
  /\ result \in CliResults \cup {None}
  /\ cloud \in Configurations \cup {None}
  /\ blob \in Blobs \cup {None}
  /\ job \in BOOLEAN
  /\ exit_code \in {0, 1, 2, None}
  /\ exit_code = None <=> cli # "exited"

\* The places of the command before and after the repair.
BeforeResult == {"detecting", "building", "agent"}
CloudSteps == {"configuring", "uploading", "triggering"}

\* What is decided, done and not yet done where the command stands.
CliFlow ==
  /\ cli \in {"detecting", "building"} \/ error # "csv" => human_approved = "unset"
  /\ cli \in {"building", "agent"} => error \in {"csv", "schema"}
  /\ cli \in BeforeResult => result = None
  /\ cli \in BeforeResult \cup {"configuring"} => cloud = None
  /\ cli \in BeforeResult \cup {"configuring", "uploading"} => blob = None
  /\ cli # "exited" => ~job
  /\ cli \in CloudSteps => /\ result # None => result.success
                           /\ error # None => result # None
  /\ cli \in {"uploading", "triggering"} => cloud \in Configurations /\ cloud.uploader
  /\ cli = "triggering" => cloud.trigger /\ blob # None

\* What an agent's result says of the run it comes from.
ResultTells ==
  result # None =>
    /\ result.output = RepairedPath =>
         /\ phase = "returned"
         /\ repair_result # None /\ repair_result.success
    /\ error = "csv" =>
         /\ result.success /\ result.output = None =>
              phase = "returned" /\ failure_class = None
         /\ result.output # SchemaOutput
-----------------------------------------------------------------------------
\* What a state of the graph tells is about the run, not about the file that
\* lies there now: a new delivery leaves it true.
LEMMA RedeliverKeeps ==
  ASSUME GraphFacts, Redeliver
  PROVE  GraphFacts'
<1>1. /\ source' \in Sources
      /\ UNCHANGED <<node, steps, wiring, failure_class, failure_classes,
                     proposed_params, validated_params, human_approved,
                     repair_result, output_path, disk, executors, verification_result,
                     retry_count, status, approvals, stamp>>
      /\ UNCHANGED <<phase, span, mlflow_run, tracking_error, episode, events>>
  BY DEF Redeliver, graphVars, repairVars, auditVars, trackingVars, storeVars
<1>2. (TypeOK /\ Flow)'
  BY <1>1 DEF GraphFacts, TypeOK, Flow
<1>3. StateTells'
  BY <1>1 DEF GraphFacts, StateTells
<1>4. ApprovalInv'
  BY <1>1
    DEF GraphFacts, ApprovalInv, WritesApproved, SuccessIsVerified, Progress, 
     RanInThisAttempt, ThisAttempt, Applied
<1>5. Honest' = Honest /\ AuditTrail' = AuditTrail /\ Closed' = Closed
  BY <1>1
    DEF Honest, AuditTrail, ProposeEvent, ValidateEvent, HumanApprovalEvent, 
     ApplyEvent, ReverifyEvent, Event, Closed
<1>6. RecordInv'
  BY <1>1, <1>5 DEF GraphFacts, RecordInv, RecordTyped, RecordFits
<1>7. QED
  BY <1>2, <1>3, <1>4, <1>6 DEF GraphFacts

\* A step of a command is one of the audited repair, or leaves it alone, or is
\* a new delivery.
LEMMA CommandSteps ==
  ASSUME [ProcessNext]_processVars
  PROVE  [AuditNext]_auditedVars \/ Redeliver
<1>1. CASE CliStep
  BY <1>1 DEF CliStep, Detect, Build, AgentReturns, AgentRaises, SchemaAgent,
     Configure, Upload, Trigger
<1>2. CASE AgentRuns
  BY <1>2 DEF AgentRuns
<1>3. CASE UNCHANGED processVars
  BY <1>3 DEF processVars
<1>4. QED
  BY <1>1, <1>2, <1>3 DEF ProcessNext

\* What is known of the graph and of its record stays known.
LEMMA GraphFactsStep ==
  ASSUME GraphFacts, [ProcessNext]_processVars
  PROVE  GraphFacts'
<1>1. CASE [AuditNext]_auditedVars
  BY <1>1, WrapperReads, TypeStep, StateTellsStep, ApprovalStep, RecordStep
     DEF GraphFacts
<1>2. CASE Redeliver
  BY <1>2, RedeliverKeeps
<1>3. QED
  BY <1>1, <1>2, CommandSteps

\* ... and includes all that the theorems about the record rest on.
LEMMA GraphFactsSuffice == GraphFacts => AuditFacts
BY DEF GraphFacts, ApprovalInv, AuditFacts
-----------------------------------------------------------------------------
\* A failure of parsing is handled by Tier 1's agent, through its base class;
\* a drifted schema by Tier 2's, although Tier 1's handler is registered too.
LEMMA RouterResolves ==
  Resolve("csv") = "csv_agent" /\ Resolve("schema") = "schema_agent"
<1>1. Resolve("csv") = "csv_agent"
  <2> DEFINE registered == {i \in DOMAIN Mro("csv") :
                              Mro("csv")[i] \in DOMAIN Handlers("csv")}
             closest == CHOOSE i \in registered : \A j \in registered : i <= j
  <2>1. registered = {2}
    BY DEF Mro, Handlers
  <2> HIDE DEF registered
  <2>2. closest = 2
    BY <2>1
  <2>3. Mro("csv")[2] = "CsvRepairError"
    BY DEF Mro
  <2>4. Handlers("csv")["CsvRepairError"] = "csv_agent"
    BY DEF Handlers
  <2>5. Resolve("csv") = Handlers("csv")[Mro("csv")[closest]]
    BY <2>1 DEF Resolve, registered
  <2>6. QED
    BY <2>2, <2>3, <2>4, <2>5
<1>2. Resolve("schema") = "schema_agent"
  <2> DEFINE registered == {i \in DOMAIN Mro("schema") :
                              Mro("schema")[i] \in DOMAIN Handlers("schema")}
             closest == CHOOSE i \in registered : \A j \in registered : i <= j
  <2>1. registered = {1}
    BY DEF Mro, Handlers
  <2> HIDE DEF registered
  <2>2. closest = 1
    BY <2>1
  <2>3. Mro("schema")[1] = "SchemaDriftError"
    BY DEF Mro
  <2>4. Handlers("schema")["SchemaDriftError"] = "schema_agent"
    BY DEF Handlers
  <2>5. Resolve("schema") = Handlers("schema")[Mro("schema")[closest]]
    BY <2>1 DEF Resolve, registered
  <2>6. QED
    BY <2>2, <2>3, <2>4, <2>5
<1>3. QED
  BY <1>1, <1>2

\* So each agent sees the errors of its own tier.
LEMMA RoutedRight ==
  ASSUME CliFlow
  PROVE  /\ RoutedTo("csv_agent") => cli = "agent" /\ error = "csv"
         /\ RoutedTo("schema_agent") => cli = "agent" /\ error = "schema"
<1>1. "csv_agent" # "schema_agent"
  OBVIOUS
<1>2. cli = "agent" => error \in {"csv", "schema"}
  BY DEF CliFlow
<1>3. QED
  BY <1>1, <1>2, RouterResolves DEF RoutedTo
\* What the command makes of a result: only a success goes on, and only if
\* there is a cloud step to go on to.
LEMMA ResultTaken ==
  ASSUME NEW r \in CliResults, TakeResult(r)
  PROVE  /\ result' = r
         /\ \/ ~r.success /\ Exit(1)
            \/ r.success /\ command = "repair" /\ Exit(0)
            \/ r.success /\ command # "repair" /\ Continue("configuring")
<1>1. r.success \in BOOLEAN
  BY DEF CliResults
<1>2. QED
  BY <1>1 DEF TakeResult

\* The agent's result is a success with an output, a failure, or - where the
\* graph found nothing - a success without one.
LEMMA HandleTells ==
  ASSUME TypeOK, StateTells
  PROVE  /\ Handle \in CliResults
         /\ Handle.output = RepairedPath =>
              repair_result # None /\ repair_result.success
         /\ Handle.success /\ Handle.output = None => failure_class = None
         /\ Handle.output # SchemaOutput
<1> USE DEF RepairedPath, SchemaOutput
<1>1. CASE repair_result # None
  <2>1. repair_result.success \in BOOLEAN
    BY <1>1 DEF TypeOK, Results
  <2>2. QED
    BY <1>1, <2>1, CommandAssumption DEF Handle, CliResults
<1>2. CASE repair_result = None
  BY <1>2, CommandAssumption DEF Handle, CliResults
<1>3. QED
  BY <1>1, <1>2

\* Tier 2's agent either returns a result or raises.
LEMMA SchemaResults ==
  ASSUME SchemaAgent
  PROVE  \/ \E r \in CliResults : TakeResult(r) /\ r.output # RepairedPath
         \/ Exit(1) /\ UNCHANGED result
<1>1. ASSUME NEW success \in BOOLEAN, NEW output \in {SchemaOutput, None},
             TakeResult([success |-> success, output |-> output])
      PROVE  \E r \in CliResults : TakeResult(r) /\ r.output # RepairedPath
  <2>1. [success |-> success, output |-> output] \in CliResults
    BY DEF CliResults
  <2>2. output # RepairedPath
    BY CommandAssumption DEF SchemaOutput, RepairedPath
  <2>3. QED
    BY <1>1, <2>1, <2>2
<1>2. QED
  BY <1>1 DEF SchemaAgent

\* What is put into the container is a file of this command.
LEMMA BlobTyped ==
  ASSUME TypeOK, CliTyped, PutBlob
  PROVE  blob' \in Blobs
<1>1. LocalFile \in {RepairedPath, SchemaOutput, "source"}
  BY DEF LocalFile, CliTyped, CliResults
<1>2. disk \in Writes \cup {None, Previous}
  BY DEF TypeOK
<1>3. QED
  BY <1>1, <1>2 DEF PutBlob, Blobs

\* Every step leaves the command's state well typed.
LEMMA CliTypedStep ==
  ASSUME GraphFacts, CliTyped, CliFlow, [ProcessNext]_processVars
  PROVE  CliTyped'
<1>0. None \notin {0, 1, 2}
  BY MarkerAssumption
<1> USE <1>0 DEF GraphFacts
<1>1. CASE Detect
  <2>1. error' \in {"csv", "schema", None}
    BY <1>1 DEF Detect
  <2>2. \/ Continue("building") \/ Exit(0) \/ Continue("configuring")
    BY <1>1 DEF Detect, CliTyped
  <2>3. QED
    BY <1>1, <2>1, <2>2 DEF Detect, CliTyped, Exit, Continue, cloudVars
<1>2. CASE Redeliver
  BY <1>2 DEF Redeliver, cliVars, CliTyped, Exit, Continue, cloudVars
<1>3. CASE Build
  BY <1>3 DEF Build, CliTyped, Exit, Continue, cloudVars
<1>4. CASE AgentRuns
  BY <1>4 DEF AgentRuns, cliVars, CliTyped, Exit, Continue, cloudVars
<1>5. CASE AgentReturns
  <2>1. Handle \in CliResults
    BY HandleTells DEF GraphFacts
  <2>2. TakeResult(Handle)
    BY <1>5 DEF AgentReturns
  <2>3. result' = Handle
        /\ (Exit(0) \/ Exit(1) \/ Continue("configuring"))
    BY <2>1, <2>2, ResultTaken
  <2>4. UNCHANGED <<command, error, cloud, blob, job>> /\ cli = "agent"
    BY <1>5 DEF AgentReturns, cloudVars, RoutedTo
  <2>5. QED
    BY <2>1, <2>3, <2>4 DEF CliTyped, Exit, Continue, cloudVars
<1>6. CASE AgentRaises
  BY <1>6 DEF AgentRaises, RoutedTo, CliTyped, Exit, Continue, cloudVars
<1>7. CASE SchemaAgent
  <2>1. UNCHANGED <<command, error, cloud, blob, job>> /\ cli = "agent"
    BY <1>7 DEF SchemaAgent, cloudVars, RoutedTo
  <2>2. CASE \E r \in CliResults : TakeResult(r)
    <3>1. PICK r \in CliResults : TakeResult(r)
      BY <2>2
    <3>2. result' = r /\ (Exit(0) \/ Exit(1) \/ Continue("configuring"))
      BY <3>1, ResultTaken
    <3>3. QED
      BY <2>1, <3>2 DEF CliTyped, Exit, Continue, cloudVars
  <2>3. CASE Exit(1) /\ UNCHANGED result
    BY <2>1, <2>3 DEF CliTyped, Exit, Continue, cloudVars
  <2>4. QED
    BY <1>7, <2>2, <2>3, SchemaResults
<1>8. CASE Configure
  BY <1>8 DEF Configure, CliTyped, Exit, Continue, cloudVars
<1>9. CASE Upload
  <2>1. blob' \in Blobs \cup {None}
    BY <1>9, BlobTyped DEF Upload, CliTyped
  <2>2. Exit(0) \/ Exit(1) \/ Exit(2) \/ Continue("triggering")
    BY <1>9 DEF Upload
  <2>3. QED
    BY <1>9, <2>1, <2>2 DEF Upload, CliTyped, Exit, Continue, cloudVars
<1>10. CASE Trigger
  BY <1>10 DEF Trigger, CliTyped, Exit, Continue, cloudVars
<1>11. CASE UNCHANGED processVars
  BY <1>11 DEF processVars, cliVars, CliTyped, Exit, Continue, cloudVars
<1>12. QED
  BY <1>1, <1>2, <1>3, <1>4, <1>5, <1>6, <1>7, <1>8, <1>9, <1>10, <1>11
     DEF ProcessNext, CliStep

\* Every step does what the command is up to, and nothing it is not.
LEMMA CliFlowStep ==
  ASSUME GraphFacts, CliTyped, CliFlow, [ProcessNext]_processVars
  PROVE  CliFlow'
<1> USE DEF GraphFacts
<1>1. CASE Detect
  <2>1. \/ error' \in {"csv", "schema"} /\ cli' = "building"
        \/ error' = None /\ cli' \in {"exited", "configuring"}
    BY <1>1, CommandAssumption DEF Detect, Exit, Continue, CliTyped
  <2>2. /\ cli = "detecting"
        /\ UNCHANGED <<result, cloud, blob, job, human_approved>>
    BY <1>1 DEF Detect, cloudVars, auditedVars, vars
  <2>3. QED
    BY <2>1, <2>2 DEF CliFlow, BeforeResult, CloudSteps
<1>2. CASE Redeliver
  BY <1>2
    DEF Redeliver, cliVars, CliFlow, BeforeResult, CloudSteps, Exit, Continue,
        cloudVars
<1>3. CASE Build
  BY <1>3
    DEF Build, auditedVars, vars, CliFlow, BeforeResult, CloudSteps, Exit,
        Continue, cloudVars
<1>4. CASE AgentRuns
  <2>1. cli = "agent" /\ error = "csv"
    BY <1>4, RoutedRight DEF AgentRuns
  <2>2. QED
    BY <1>4, <2>1
      DEF AgentRuns, cliVars, CliFlow, BeforeResult, CloudSteps, Exit, Continue,
          cloudVars
<1>5. CASE AgentReturns
  <2>1. cli = "agent" /\ error = "csv"
    BY <1>5, RoutedRight DEF AgentReturns
  <2>2. Handle \in CliResults /\ TakeResult(Handle)
    BY <1>5, HandleTells DEF AgentReturns
  <2>3. result' = Handle
        /\ \/ cli' = "exited"
           \/ cli' = "configuring" /\ result'.success
    BY <2>2, ResultTaken DEF Exit, Continue
  <2>4. UNCHANGED <<error, cloud, blob, job, human_approved>>
    BY <1>5 DEF AgentReturns, cloudVars, auditedVars, vars
  <2>5. result' # None
    BY <2>2, <2>3, CommandAssumption
  <2>6. QED
    BY <2>1, <2>3, <2>4, <2>5 DEF CliFlow, BeforeResult, CloudSteps
<1>6. CASE AgentRaises
  <2>1. cli = "agent" /\ error = "csv"
    BY <1>6, RoutedRight DEF AgentRaises
  <2>2. QED
    BY <1>6, <2>1
      DEF AgentRaises, CliFlow, BeforeResult, CloudSteps, Exit, Continue,
          cloudVars
<1>7. CASE SchemaAgent
  <2>1. cli = "agent" /\ error = "schema"
    BY <1>7, RoutedRight DEF SchemaAgent
  <2>2. UNCHANGED <<error, cloud, blob, job, human_approved>>
    BY <1>7 DEF SchemaAgent, cloudVars, auditedVars, vars
  <2>3. CASE \E r \in CliResults : TakeResult(r)
    <3>1. PICK r \in CliResults : TakeResult(r)
      BY <2>3
    <3>2. result' = r
          /\ \/ cli' = "exited"
             \/ cli' = "configuring" /\ result'.success
      BY <3>1, ResultTaken DEF Exit, Continue
    <3>3. result' # None
      BY <3>2, CommandAssumption
    <3>4. QED
      BY <2>1, <2>2, <3>2, <3>3 DEF CliFlow, BeforeResult, CloudSteps
  <2>4. CASE Exit(1)
    BY <2>1, <2>2, <2>4
      DEF CliFlow, BeforeResult, CloudSteps, Exit, Continue, cloudVars
  <2>5. QED
    BY <1>7, <2>3, <2>4, SchemaResults
<1>8. CASE Configure
  <2>1. /\ cli = "configuring" /\ cloud' \in Configurations
        /\ \/ cli' = "exited"
           \/ cli' = "uploading" /\ cloud'.uploader
        /\ UNCHANGED <<error, result, blob, job, human_approved>>
    BY <1>8 DEF Configure, Exit, Continue, auditedVars, vars
  <2>2. QED
    BY <2>1 DEF CliFlow, BeforeResult, CloudSteps
<1>9. CASE Upload
  <2>1. /\ cli = "uploading"
        /\ \/ cli' = "exited"
           \/ cli' = "triggering" /\ cloud.trigger /\ PutBlob
        /\ UNCHANGED <<error, result, cloud, job, human_approved>>
    BY <1>9 DEF Upload, Exit, Continue, auditedVars, vars
  <2>2. PutBlob => blob' # None
    BY BlobTyped, CommandAssumption
  <2>3. QED
    BY <2>1, <2>2 DEF CliFlow, BeforeResult, CloudSteps
<1>10. CASE Trigger
  <2>1. /\ cli = "triggering" /\ cli' = "exited"
        /\ UNCHANGED <<error, human_approved>>
    BY <1>10 DEF Trigger, Exit, auditedVars, vars
  <2>2. QED
    BY <2>1 DEF CliFlow, BeforeResult, CloudSteps
<1>11. CASE UNCHANGED processVars
  BY <1>11
    DEF processVars, cliVars, auditedVars, vars, CliFlow, BeforeResult,
        CloudSteps, Exit, Continue, cloudVars
<1>12. QED
  BY <1>1, <1>2, <1>3, <1>4, <1>5, <1>6, <1>7, <1>8, <1>9, <1>10, <1>11
     DEF ProcessNext, CliStep
-----------------------------------------------------------------------------
\* Only the agent's run touches the graph's state, and nothing at all happens
\* once the command has exited.
LEMMA RunIsFrozen ==
  ASSUME GraphFacts, CliTyped, CliFlow, [ProcessNext]_processVars,
         cli \notin BeforeResult
  PROVE  /\ UNCHANGED <<phase, repair_result, failure_class, human_approved,
                        approvals, disk, episode, events, error, result>>
         /\ cli' \notin BeforeResult
         /\ cli = "exited" => UNCHANGED <<cli, cloud, blob, job, exit_code>>
<1> USE RoutedRight DEF BeforeResult
<1>1. CASE Redeliver
  BY <1>1
    DEF Redeliver, graphVars, repairVars, auditVars, trackingVars, storeVars, 
     cliVars, cloudVars
<1>2. CASE Configure \/ Upload \/ Trigger
  BY <1>2 DEF Configure, Upload, Trigger, Exit, Continue, auditedVars, vars,
     repairVars, diagnosisVars, auditVars, storeVars
<1>3. CASE UNCHANGED processVars
  BY <1>3
    DEF processVars, auditedVars, vars, repairVars, diagnosisVars, auditVars, 
     storeVars, cliVars, cloudVars
<1>4. ~(AgentRuns \/ AgentReturns \/ AgentRaises \/ SchemaAgent \/ Detect \/ Build)
  BY DEF AgentRuns, AgentReturns, AgentRaises, SchemaAgent, Detect, Build
<1>5. QED
  BY <1>1, <1>2, <1>3, <1>4 DEF ProcessNext, CliStep

\* A result is true of its run when it is taken, and of the run as it is left.
LEMMA ResultTellsStep ==
  ASSUME GraphFacts, CliTyped, CliFlow, ResultTells, [ProcessNext]_processVars
  PROVE  ResultTells'
<1>1. CASE cli \notin BeforeResult
  BY <1>1, RunIsFrozen DEF ResultTells
<1>2. CASE AgentReturns
  <2>1. Handle \in CliResults /\ TakeResult(Handle) /\ phase = "returned"
    BY <1>2, HandleTells DEF AgentReturns, GraphFacts
  <2>2. result' = Handle
    BY <2>1, ResultTaken
  <2>3. UNCHANGED <<phase, repair_result, failure_class>>
    BY <1>2
      DEF AgentReturns, auditedVars, vars, repairVars, diagnosisVars, auditVars
  <2>4. QED
    BY <2>1, <2>2, <2>3, HandleTells DEF ResultTells, GraphFacts
<1>3. CASE SchemaAgent
  <2>1. error' = "schema" /\ cli = "agent"
    BY <1>3, RoutedRight DEF SchemaAgent
  <2>2. CASE \E r \in CliResults : TakeResult(r) /\ r.output # RepairedPath
    BY <2>1, <2>2, ResultTaken DEF ResultTells
  <2>3. CASE UNCHANGED result
    <3>1. result' = None
      BY <2>1, <2>3 DEF CliFlow, BeforeResult
    <3>2. QED
      BY <3>1 DEF ResultTells
  <2>4. QED
    BY <1>3, <2>2, <2>3, SchemaResults
<1>4. CASE cli \in BeforeResult /\ UNCHANGED result
  <2>1. result' = None
    BY <1>4 DEF CliFlow
  <2>2. QED
    BY <2>1 DEF ResultTells
<1>5. CASE cli \in BeforeResult /\ ~UNCHANGED result /\ ~AgentReturns /\ ~SchemaAgent
  BY <1>5
    DEF ProcessNext, CliStep, BeforeResult, Detect, Redeliver, Build, AgentRuns, 
     AgentRaises, Configure, Upload, Trigger, processVars, cliVars
<1>6. QED
  BY <1>1, <1>2, <1>3, <1>4, <1>5
-----------------------------------------------------------------------------
\* An element in the middle of a sequence is found after what precedes it.
LEMMA MiddleOfSequence ==
  \A S : \A p, r \in Seq(S), e \in S :
    \E i \in DOMAIN (p \o <<e>> \o r) : (p \o <<e>> \o r)[i] = e
<1> SUFFICES ASSUME NEW S, NEW p \in Seq(S), NEW r \in Seq(S), NEW e \in S
             PROVE  \E i \in DOMAIN (p \o <<e>> \o r) : (p \o <<e>> \o r)[i] = e
  OBVIOUS
<1> DEFINE q == p \o <<e>>
<1>1. <<e>> \in Seq(S) /\ Len(<<e>>) = 1 /\ <<e>>[1] = e
  OBVIOUS
<1>2. PICK k \in Nat : k = Len(p)
  BY LenProperties
<1>3. q \in Seq(S) /\ Len(q) = k + 1 /\ q[k + 1] = e
  BY <1>1, <1>2, ConcatProperties
<1> HIDE DEF q
<1>4. PICK l \in Nat : l = Len(r)
  BY LenProperties
<1>5. q \o r \in Seq(S) /\ Len(q \o r) = (k + 1) + l
  BY <1>3, <1>4, ConcatProperties
<1>6. (q \o r)[k + 1] = q[k + 1]
  BY <1>2, <1>3, <1>4, ConcatProperties
<1>7. k + 1 \in DOMAIN (q \o r)
  <2>1. k + 1 \in 1..((k + 1) + l)
    OBVIOUS
  <2>2. QED
    BY <1>5, <2>1, LenProperties
<1>8. QED
  BY <1>3, <1>6, <1>7 DEF q

\* When a repair's result comes back to the command, the store has its closed
\* episode, with an event that tells what was applied and in which attempt.
LEMMA RecordShows ==
  ASSUME GraphFacts, phase = "returned", repair_result # None, repair_result.success
  PROVE  /\ disk \in approvals
         /\ episode # None /\ ~episode.is_active
         /\ \E i \in DOMAIN events :
              /\ events[i].status = "applied"
              /\ events[i].prescription = disk.params
              /\ events[i].attempt = disk.attempt
<1>1. failure_class # None
  BY DEF GraphFacts, StateTells
<1>2. node = "END" /\ episode = Closed /\ Len(events) = Len(AuditTrail)
  BY <1>1 DEF GraphFacts, RecordInv, RecordFits
<1>3. events = AuditTrail
  BY <1>1, <1>2, GraphFactsSuffice, CompleteRecord
<1>4. disk \in approvals
  BY DEF GraphFacts, StateTells, ApprovalInv, WritesApproved
<1>5. episode # None /\ ~episode.is_active
  <2>1. Closed \in Episodes
    BY <1>2 DEF GraphFacts, TypeOK, StateTells, Closed, Episodes
  <2>2. QED
    BY <1>2, <2>1, CommandAssumption DEF Closed
<1> DEFINE S == {ProposeEvent, ValidateEvent, HumanApprovalEvent, ApplyEvent,
                 ReverifyEvent}
           before == EventIf(proposed_params # None, ProposeEvent)
                       \o <<ValidateEvent>>
                       \o EventIf(human_approved # "unset", HumanApprovalEvent)
           after == EventIf(verification_result # "unset", ReverifyEvent)
<1>6. before \in Seq(S) /\ after \in Seq(S)
  <2>1. /\ EventIf(proposed_params # None, ProposeEvent) \in Seq(S)
        /\ EventIf(human_approved # "unset", HumanApprovalEvent) \in Seq(S)
        /\ EventIf(verification_result # "unset", ReverifyEvent) \in Seq(S)
    BY EventIfTyped
  <2>2. <<ValidateEvent>> \in Seq(S)
    OBVIOUS
  <2> HIDE DEF S
  <2>3. QED
    BY <2>1, <2>2, ConcatProperties
<1>7. ApplyEvent \in S
  OBVIOUS
<1>8. AuditTrail = before \o <<ApplyEvent>> \o after
  BY DEF AuditTrail, EventIf
<1> HIDE DEF S, before, after
<1>9. \E i \in DOMAIN events : events[i] = ApplyEvent
  <2>1. \A e \in S : \E i \in DOMAIN (before \o <<e>> \o after) :
                       (before \o <<e>> \o after)[i] = e
    BY <1>6, MiddleOfSequence, SMT
  <2>2. events = before \o <<ApplyEvent>> \o after
    BY <1>3, <1>8
  <2>3. QED
    BY <1>7, <2>1, <2>2, Zenon
<1>10. /\ ApplyEvent.status = "applied"
       /\ ApplyEvent.prescription = disk.params
       /\ ApplyEvent.attempt = disk.attempt
  BY DEF ApplyEvent, Event, GraphFacts, StateTells
<1>11. QED
  BY <1>4, <1>5, <1>9, <1>10

\* The container changes only when the file is put there.
LEMMA BlobChanges ==
  ASSUME [ProcessNext]_processVars
  PROVE  (Upload /\ PutBlob) \/ UNCHANGED blob
<1>1. CASE Upload
  BY <1>1 DEF Upload
<1>2. CASE ~Upload
  BY <1>2
    DEF ProcessNext, CliStep, Detect, Redeliver, Build, AgentRuns, AgentReturns, 
     AgentRaises, SchemaAgent, Configure, Trigger, processVars, cliVars, cloudVars
<1>3. QED
  BY <1>1, <1>2

\* A repaired file goes up only with its record complete.
LEMMA UploadsStep ==
  ASSUME GraphFacts, CliTyped, CliFlow, ResultTells, UploadsAreApprovedAndRecorded,
         [ProcessNext]_processVars
  PROVE  UploadsAreApprovedAndRecorded'
<1>1. CASE Upload /\ PutBlob
  <2>1. /\ cli = "uploading"
        /\ blob'.file = LocalFile
        /\ LocalFile = RepairedPath => blob'.content = disk
    BY <1>1 DEF Upload, PutBlob
  <2>2. UNCHANGED <<phase, repair_result, approvals, disk, episode, events>>
    BY <2>1, RunIsFrozen DEF BeforeResult
  <2>3. CASE LocalFile = RepairedPath
    <3>1. result # None /\ result.output = RepairedPath
      BY <2>3 DEF LocalFile, RepairedPath
    <3>2. /\ phase = "returned"
          /\ repair_result # None /\ repair_result.success
      BY <3>1 DEF ResultTells
    <3>3. QED
      BY <2>1, <2>2, <2>3, <3>2, RecordShows DEF UploadsAreApprovedAndRecorded
  <2>4. CASE LocalFile # RepairedPath
    BY <2>1, <2>4 DEF UploadsAreApprovedAndRecorded
  <2>5. QED
    BY <2>3, <2>4
<1>2. CASE UNCHANGED blob
  <2>1. CASE blob = None
    BY <1>2, <2>1 DEF UploadsAreApprovedAndRecorded
  <2>2. CASE blob # None
    <3>1. cli \notin BeforeResult
      BY <2>2 DEF CliFlow
    <3>2. QED
      BY <1>2, <3>1, RunIsFrozen DEF UploadsAreApprovedAndRecorded
  <2>3. QED
    BY <2>1, <2>2
<1>3. QED
  BY <1>1, <1>2, BlobChanges

\* A source file goes up as it is only if nothing was found wrong with it.
LEMMA SourceStep ==
  ASSUME GraphFacts, CliTyped, CliFlow, ResultTells, DamagedSourceStaysHome,
         [ProcessNext]_processVars
  PROVE  DamagedSourceStaysHome'
<1>1. CASE Upload /\ PutBlob
  <2>1. cli = "uploading" /\ blob'.file = LocalFile
    BY <1>1 DEF Upload, PutBlob
  <2>2. UNCHANGED <<phase, failure_class, human_approved, episode, error>>
    BY <2>1, RunIsFrozen DEF BeforeResult
  <2>3. CASE LocalFile = "source"
    <3>1. error = "csv" => phase = "returned" /\ failure_class = None
      <4>1. SUFFICES ASSUME error = "csv"
                     PROVE  phase = "returned" /\ failure_class = None
        OBVIOUS
      <4>2. result # None /\ result.success
        BY <2>1, <4>1, CommandAssumption DEF CliFlow, CloudSteps
      <4>3. result.output = None
        BY <2>3, <4>2
          DEF LocalFile, CliTyped, CliResults, RepairedPath, SchemaOutput
      <4>4. QED
        BY <4>1, <4>2, <4>3 DEF ResultTells
    <3>2. failure_class = None => human_approved = "unset" /\ episode = None
      BY DEF GraphFacts, StateTells, RecordInv, RecordFits
    <3>3. error # "csv" => human_approved = "unset"
      BY DEF CliFlow
    <3>4. QED
      BY <2>2, <3>1, <3>2, <3>3 DEF DamagedSourceStaysHome
  <2>4. CASE LocalFile # "source"
    BY <2>1, <2>4 DEF DamagedSourceStaysHome
  <2>5. QED
    BY <2>3, <2>4
<1>2. CASE UNCHANGED blob
  <2>1. CASE blob = None
    BY <1>2, <2>1 DEF DamagedSourceStaysHome
  <2>2. CASE blob # None
    <3>1. cli \notin BeforeResult
      BY <2>2 DEF CliFlow
    <3>2. QED
      BY <1>2, <3>1, RunIsFrozen DEF DamagedSourceStaysHome
  <2>3. QED
    BY <2>1, <2>2
<1>3. QED
  BY <1>1, <1>2, BlobChanges

\* A job is started where its blob is, and nothing takes the blob away.
LEMMA JobStep ==
  ASSUME GraphFacts, CliTyped, CliFlow, JobHasItsBlob, [ProcessNext]_processVars
  PROVE  JobHasItsBlob'
<1>1. CASE Trigger
  BY <1>1 DEF Trigger, CliFlow, JobHasItsBlob
<1>2. CASE ~Trigger
  <2>1. job' = job
    BY <1>2 DEF ProcessNext, CliStep, Detect, Redeliver, Build, AgentRuns,
       AgentReturns, AgentRaises, SchemaAgent, Configure, Upload, processVars,
       cliVars, cloudVars
  <2>2. CASE job
    <3>1. cli = "exited"
      BY <2>2 DEF CliFlow
    <3>2. blob' = blob
      BY <3>1, RunIsFrozen DEF BeforeResult
    <3>3. QED
      BY <2>1, <2>2, <3>2 DEF JobHasItsBlob
  <2>3. QED
    BY <2>1, <2>2 DEF JobHasItsBlob
<1>3. QED
  BY <1>1, <1>2

(***************************************************************************)
(* Exit codes.  That the cloud step was done, and that a CSV repair stands *)
(* behind it, are kept by different steps; ExitCodeHasGrounds is both.     *)
(***************************************************************************)

\* The part of an exit code's promise that the cloud step keeps.
DoneAsConfigured ==
  /\ exit_code = 0 =>
       /\ result # None => result.success
       /\ cloud # None /\ cloud.uploader => blob # None
       /\ cloud # None /\ cloud.uploader /\ cloud.trigger => job
  /\ exit_code = 2 => cloud # None /\ cloud.uploader
                        /\ (result # None => result.success)

\* What stands behind a result of the CSV agent that is called a success.
Grounds ==
  /\ phase = "returned"
  /\ failure_class # None =>
       disk \in approvals /\ episode # None /\ ~episode.is_active

\* The part that the repair keeps.
Grounded == exit_code \in {0, 2} /\ error = "csv" => Grounds

\* The exit code is given once, by a step that knows what was done.
LEMMA DoneStep ==
  ASSUME GraphFacts, CliTyped, CliFlow, DoneAsConfigured, [ProcessNext]_processVars
  PROVE  DoneAsConfigured'
<1>0. None \notin {0, 1, 2}
  BY MarkerAssumption
<1> USE <1>0 DEF GraphFacts
<1> DEFINE done ==
      /\ exit_code' = 0 =>
           /\ result' # None => result'.success
           /\ cloud' # None /\ cloud'.uploader => blob' # None
           /\ cloud' # None /\ cloud'.uploader /\ cloud'.trigger => job'
      /\ exit_code' = 2 => cloud' # None /\ cloud'.uploader
                             /\ (result' # None => result'.success)
<1>a. ASSUME Continue(cli') PROVE exit_code' \notin {0, 1, 2} \/ cli = "exited"
  BY <1>a DEF Continue, CliTyped
<1>b. ASSUME NEW r \in CliResults, TakeResult(r), cloud' = cloud, cli = "agent"
      PROVE  done
  <2>1. cloud' = None /\ exit_code = None
    BY <1>b DEF CliFlow, BeforeResult, CliTyped
  <2>2. QED
    BY <1>b, <2>1, ResultTaken DEF Exit, Continue
<1>1. CASE Detect
  <2>1. result' = None /\ cloud' = None /\ exit_code = None
    BY <1>1 DEF Detect, CliFlow, BeforeResult, cloudVars, CliTyped
  <2>2. exit_code' \in {0, None}
    BY <1>1, <2>1 DEF Detect, Exit, Continue
  <2>3. QED
    BY <2>1, <2>2 DEF DoneAsConfigured
<1>2. CASE Redeliver \/ AgentRuns \/ UNCHANGED processVars
  BY <1>2
    DEF Redeliver, AgentRuns, processVars, cliVars, cloudVars, DoneAsConfigured
<1>3. CASE Build \/ AgentRaises
  <2>1. exit_code' \in {1, None}
    BY <1>3 DEF Build, AgentRaises, RoutedTo, Exit, Continue, CliTyped
  <2>2. QED
    BY <2>1 DEF DoneAsConfigured
<1>4. CASE AgentReturns
  <2>1. /\ Handle \in CliResults /\ TakeResult(Handle)
        /\ cloud' = cloud /\ cli = "agent"
    BY <1>4, HandleTells DEF AgentReturns, RoutedTo, cloudVars
  <2>2. QED
    BY <2>1, <1>b DEF DoneAsConfigured
<1>5. CASE SchemaAgent
  <2>1. cloud' = cloud /\ cli = "agent"
    BY <1>5 DEF SchemaAgent, RoutedTo, cloudVars
  <2>2. CASE \E r \in CliResults : TakeResult(r)
    BY <2>1, <2>2, <1>b DEF DoneAsConfigured
  <2>3. CASE Exit(1)
    BY <2>3 DEF Exit, DoneAsConfigured
  <2>4. QED
    BY <1>5, <2>2, <2>3, SchemaResults
<1>6. CASE Configure
  <2>1. /\ exit_code = None /\ (result # None => result.success)
        /\ result' = result
        /\ \/ exit_code' = None
           \/ exit_code' = 0 /\ ~cloud'.uploader
    BY <1>6 DEF Configure, Exit, Continue, CliTyped, CliFlow, CloudSteps
  <2>2. QED
    BY <2>1 DEF DoneAsConfigured
<1>7. CASE Upload \/ Trigger
  <2>1. /\ cloud # None /\ cloud.uploader
        /\ result # None => result.success
        /\ exit_code = None /\ UNCHANGED <<result, cloud>>
    BY <1>7, CommandAssumption
      DEF Upload, Trigger, CliFlow, CloudSteps, CliTyped
  <2>2. CASE Upload
    <3>1. PutBlob => blob' # None
      BY BlobTyped, CommandAssumption
    <3>2. exit_code' = 0 => PutBlob /\ ~cloud.trigger
      BY <2>1, <2>2 DEF Upload, Exit, Continue
    <3>3. QED
      BY <2>1, <3>1, <3>2 DEF DoneAsConfigured
  <2>3. CASE Trigger
    <3>1. blob' # None /\ (exit_code' = 0 => job')
      BY <2>3 DEF Trigger, Exit, CliFlow
    <3>2. QED
      BY <2>1, <3>1 DEF DoneAsConfigured
  <2>4. QED
    BY <1>7, <2>2, <2>3
<1>8. QED
  BY <1>1, <1>2, <1>3, <1>4, <1>5, <1>6, <1>7 DEF ProcessNext, CliStep

\* The agent reports a success over a healthy file, or over an applied, approved
\* and recorded one.
LEMMA HandleGrounds ==
  ASSUME GraphFacts, phase = "returned", Handle.success
  PROVE  Grounds
<1>1. CASE repair_result # None
  <2>1. repair_result.success
    BY <1>1 DEF Handle
  <2>2. QED
    BY <1>1, <2>1, RecordShows DEF Grounds
<1>2. CASE repair_result = None
  BY <1>2 DEF Handle, Grounds
<1>3. QED
  BY <1>1, <1>2

\* So does the result, for as long as the command keeps it.
LEMMA ResultGrounds ==
  ASSUME GraphFacts, CliTyped, ResultTells, error = "csv",
         result # None, result.success
  PROVE  Grounds
<1>1. result.output \in {RepairedPath, None}
  BY DEF CliTyped, CliResults, ResultTells
<1>2. CASE result.output = RepairedPath
  BY <1>2, RecordShows DEF ResultTells, Grounds
<1>3. CASE result.output = None
  BY <1>3 DEF ResultTells, Grounds
<1>4. QED
  BY <1>1, <1>2, <1>3

\* No step gives an exit code of 0 or 2 over a CSV repair that did not happen.
LEMMA GroundedStep ==
  ASSUME GraphFacts, CliTyped, CliFlow, ResultTells, Grounded,
         [ProcessNext]_processVars
  PROVE  Grounded'
<1>0. None \notin {0, 1, 2}
  BY MarkerAssumption
<1> USE <1>0
<1>1. CASE cli = "exited"
  <2>1. /\ UNCHANGED <<phase, failure_class, approvals, disk, episode, error>>
        /\ UNCHANGED exit_code
    BY <1>1, RunIsFrozen DEF BeforeResult
  <2>2. QED
    BY <2>1 DEF Grounded, Grounds
<1>2. CASE cli # "exited"
  <2>0. exit_code = None
    BY <1>2 DEF CliTyped
  <2>1. CASE Detect
    <3>1. exit_code' \in {0, None} /\ (exit_code' = 0 => error' = None)
      BY <2>0, <2>1 DEF Detect, Exit, Continue
    <3>2. QED
      BY <3>1, CommandAssumption DEF Grounded
  <2>2. CASE Redeliver \/ AgentRuns \/ UNCHANGED processVars
    <3>1. exit_code' = None
      BY <2>0, <2>2 DEF Redeliver, AgentRuns, processVars, cliVars
    <3>2. QED
      BY <3>1 DEF Grounded
  <2>3. CASE Build \/ AgentRaises
    <3>1. exit_code' \in {1, None}
      BY <2>0, <2>3 DEF Build, AgentRaises, Exit, Continue
    <3>2. QED
      BY <3>1 DEF Grounded
  <2>4. CASE AgentReturns
    <3>1. /\ Handle \in CliResults /\ TakeResult(Handle) /\ phase = "returned"
          /\ UNCHANGED <<phase, failure_class, approvals, disk, episode>>
      BY <2>4, HandleTells DEF AgentReturns, GraphFacts, auditedVars, vars,
         repairVars, diagnosisVars, auditVars, storeVars
    <3>2. exit_code' \in {0, 2} => Handle.success
      BY <2>0, <3>1, ResultTaken DEF Exit, Continue
    <3>3. QED
      BY <3>1, <3>2, HandleGrounds DEF Grounded, Grounds
  <2>5. CASE SchemaAgent
    <3>1. error' = "schema"
      BY <2>5, RoutedRight DEF SchemaAgent
    <3>2. QED
      BY <3>1 DEF Grounded
  <2>6. CASE Configure \/ Upload \/ Trigger
    <3>1. cli \in CloudSteps
      BY <2>6 DEF Configure, Upload, Trigger, CloudSteps
    <3>2. UNCHANGED <<phase, failure_class, approvals, disk, episode, error>>
      BY <3>1, RunIsFrozen DEF BeforeResult, CloudSteps
    <3>3. error = "csv" => result # None /\ result.success
      BY <3>1, CommandAssumption DEF CliFlow
    <3>4. QED
      BY <3>2, <3>3, ResultGrounds DEF Grounded, Grounds
  <2>7. QED
    BY <2>1, <2>2, <2>3, <2>4, <2>5, <2>6 DEF ProcessNext, CliStep
<1>3. QED
  BY <1>1, <1>2
-----------------------------------------------------------------------------
(***************************************************************************)
(* The inductive invariant of a command, and what follows from it.         *)
(***************************************************************************)
ProcessInv ==
  /\ GraphFacts /\ CliTyped /\ CliFlow /\ ResultTells
  /\ UploadsAreApprovedAndRecorded /\ DamagedSourceStaysHome
  /\ JobHasItsBlob /\ DoneAsConfigured /\ Grounded

\* A command starts with nothing repaired, uploaded or promised.
LEMMA InitProcess == ProcessInit => ProcessInv
<1> SUFFICES ASSUME ProcessInit PROVE ProcessInv
  OBVIOUS
<1>1. Init /\ AuditInit
  BY DEF ProcessInit, AuditInit
<1>2. GraphFacts
  BY <1>1, InitTyped, InitTells, InitApproved, InitRecord DEF GraphFacts
<1>3. CliTyped
  BY MarkerAssumption DEF ProcessInit, CliTyped
<1>4. CliFlow /\ ResultTells
  BY <1>1 DEF ProcessInit, Init, CliFlow, BeforeResult, CloudSteps, ResultTells
<1>5. /\ UploadsAreApprovedAndRecorded /\ DamagedSourceStaysHome
      /\ JobHasItsBlob /\ DoneAsConfigured /\ Grounded
  BY MarkerAssumption DEF ProcessInit, UploadsAreApprovedAndRecorded,
     DamagedSourceStaysHome, JobHasItsBlob, DoneAsConfigured, Grounded
<1>6. QED
  BY <1>2, <1>3, <1>4, <1>5 DEF ProcessInv

\* The invariant holds in every state of every command.
THEOREM ProcessInvariant == ProcessSpec => []ProcessInv
<1>1. ProcessInv /\ [ProcessNext]_processVars => ProcessInv'
  BY GraphFactsStep, CliTypedStep, CliFlowStep, ResultTellsStep, UploadsStep,
     SourceStep, JobStep, DoneStep, GroundedStep DEF ProcessInv
<1>2. QED
  BY <1>1, InitProcess, PTL DEF ProcessSpec

\* The whole state of a command, graph and record included, is well typed.
THEOREM ProcessTypeCorrect == ProcessSpec => []ProcessTypeOK
<1>1. ProcessInv => ProcessTypeOK
  BY GraphFactsSuffice, FactsTyped DEF ProcessInv, CliTyped, ProcessTypeOK
<1>2. QED
  BY <1>1, ProcessInvariant, PTL

\* A repaired file in the container is the approved one on disk, with the
\* closed episode and the event that tells of it committed before.
THEOREM UploadsHaveTheirRecord == ProcessSpec => []UploadsAreApprovedAndRecorded
<1>1. ProcessInv => UploadsAreApprovedAndRecorded
  BY DEF ProcessInv
<1>2. QED
  BY <1>1, ProcessInvariant, PTL

\* No failure, refusal or crash of a repair lets the damaged source through.
THEOREM DamagedNeverUploaded == ProcessSpec => []DamagedSourceStaysHome
<1>1. ProcessInv => DamagedSourceStaysHome
  BY DEF ProcessInv
<1>2. QED
  BY <1>1, ProcessInvariant, PTL

\* The job never runs on a blob that is not there.
THEOREM JobsHaveBlobs == ProcessSpec => []JobHasItsBlob
<1>1. ProcessInv => JobHasItsBlob
  BY DEF ProcessInv
<1>2. QED
  BY <1>1, ProcessInvariant, PTL

\* An exit code of 0 or 2 is never given unless the cloud step got as far as it
\* says and, after a CSV repair, the run came back with its episode closed and
\* an approved output on disk.
THEOREM ExitCodesGrounded == ProcessSpec => []ExitCodeHasGrounds
<1>1. ProcessInv => ExitCodeHasGrounds
  BY DEF ProcessInv, DoneAsConfigured, Grounded, Grounds, ExitCodeHasGrounds
<1>2. QED
  BY <1>1, ProcessInvariant, PTL

\* Inside a command, and in spite of deliveries no step of the audited repair
\* accounts for, the audit of record promises what it promises on its own.
THEOREM RecordInsideCommands ==
  ProcessSpec => [](/\ AnswerIsOnRecord /\ EventsHappened /\ OpenRunIsOnRecord
                    /\ HealthyLeavesNoTrace /\ RecordedSuccessIsReal)
<1>1. ProcessInv => /\ AnswerIsOnRecord /\ EventsHappened /\ OpenRunIsOnRecord
                    /\ HealthyLeavesNoTrace /\ RecordedSuccessIsReal
  BY GraphFactsSuffice, FactsAnswer, FactsHonest, FactsAdmit, FactsHealthy,
     FactsSuccess DEF ProcessInv
<1>2. QED
  BY <1>1, ProcessInvariant, PTL
=============================================================================
