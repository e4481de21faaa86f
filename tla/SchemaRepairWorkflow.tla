------------------------ MODULE SchemaRepairWorkflow ------------------------
(***************************************************************************)
(* Tier 2: the schema repair graph (schema_repair_workflow.py) inside      *)
(* run_audited_schema_repair, invoked again and again with one             *)
(* --episode-id.  Invocations of an episode share nothing but the          *)
(* migration history; the table's file may be delivered anew between them, *)
(* and while a human thinks.                                               *)
(***************************************************************************)
EXTENDS SchemaDiff

CONSTANTS
  Baselines,      \* what the baseline store may hold for the table
  Files,          \* what may be delivered as the table's file
  MaxInvocations  \* bound on the invocations of one episode

SourceFiles == [header : BOOLEAN, columns : Schemas]

\* looks_headerless: as many columns as the baseline, one of them not text, and
\* every value of the first row readable as its column's type.
LooksHeaderless(file, baseline) ==
  /\ ~file.header
  /\ DOMAIN file.columns = DOMAIN baseline
  /\ \E n \in DOMAIN baseline : baseline[n] # "string"
  /\ \A n \in DOMAIN baseline : baseline[n] # "string" => file.columns[n] = baseline[n]

ASSUME EpisodeAssumption ==
  /\ MaxInvocations \in Nat \ {0}
  /\ Baselines \subseteq Schemas \cup {None}
  /\ None \notin Schemas

\* A headerless file that is not recognised as such is inspected with its first
\* row for column names: it is one more file with a header.
ASSUME FileAssumption ==
  /\ Files \subseteq SourceFiles
  /\ \A f \in Files, b \in Baselines \ {None} : ~f.header => LooksHeaderless(f, b)
-----------------------------------------------------------------------------
VARIABLES
  node,
  invocation,       \* number of the current invocation
  baseline,         \* configs/schema_baselines/<table>.json
  source,           \* the file on disk
  current_schema,   \* the file as detect inspected it
  rejected_operation_keys, confirmed_renames,
  raw_operations,
  validated_operations, \* {} stands for None: an empty list is never valid
  human_approved,   \* "unset", "approved" or "rejected"
  wrote,            \* output_path is set: apply wrote a file
  verified,         \* verification_outcome.success
  status,
  output,           \* repaired/<name>, with the invocation that wrote it
  history,          \* the entries of configs/schema_migrations/<episode>
  unreadable,       \* one of its files was cut short
  mirror,           \* the rows of the Postgres mirror
  approvals         \* history variable: what the human said yes to, and when

inputVars == <<baseline, source>>
proposalVars == <<current_schema, rejected_operation_keys, confirmed_renames,
                  raw_operations, validated_operations>>
outcomeVars == <<wrote, verified, output>>
historyVars == <<history, unreadable, mirror>>
vars == <<node, invocation, inputVars, proposalVars, human_approved,
          outcomeVars, status, historyVars, approvals>>

Verdicts ==
  [no_baseline |-> "failed", healthy |-> "healthy", invalid |-> "invalid",
   rejected |-> "rejected", succeeded |-> "succeeded", failed |-> "failed"]
Done == {"returned", "raised"}
Nodes == {"detect", "propose_header_assignment", "diff", "resolve_renames",
          "propose", "validate", "confidence_gate", "human_approval", "apply",
          "verify", "record"} \cup DOMAIN Verdicts
Invocations == 1..MaxInvocations
Entries ==
  [invocation : Invocations, status : {"failed", "invalid", "rejected", "succeeded"},
   operations : SUBSET Operations, applied : BOOLEAN,
   human_approved : {"unset", "approved", "rejected"}]
Outputs == [invocation : Invocations, operations : SUBSET Operations, columns : Schemas]

TypeOK ==
  /\ node \in Nodes \cup Done
  /\ invocation \in Invocations
  /\ baseline \in Baselines
  /\ source \in Files
  /\ current_schema \in SourceFiles \cup {None}
  /\ rejected_operation_keys \in SUBSET Operations
  /\ confirmed_renames \in SUBSET (Names \X Names)
  /\ raw_operations \in SUBSET Operations
  /\ validated_operations \in SUBSET Operations
  /\ human_approved \in {"unset", "approved", "rejected"}
  /\ wrote \in BOOLEAN
  /\ verified \in BOOLEAN
  /\ status \in {"unset", "healthy", "failed", "invalid", "rejected", "succeeded"}
  /\ output \in Outputs \cup {None}
  /\ history \in SUBSET Entries
  /\ unreadable \in BOOLEAN
  /\ mirror \in SUBSET Entries
  /\ approvals \in SUBSET [invocation : Invocations, operations : SUBSET Operations]

Init ==
  /\ node = "detect"
  /\ invocation = 1
  /\ baseline \in Baselines
  /\ source \in Files
  /\ current_schema = None
  /\ rejected_operation_keys = {}
  /\ confirmed_renames = {}
  /\ raw_operations = {}
  /\ validated_operations = {}
  /\ human_approved = "unset"
  /\ wrote = FALSE
  /\ verified = FALSE
  /\ status = "unset"
  /\ output = None
  /\ history = {}
  /\ unreadable = FALSE
  /\ mirror = {}
  /\ approvals = {}

Run(from, to) == node = from /\ node' = to
-----------------------------------------------------------------------------
(***************************************************************************)
(* Finding out what to propose.                                            *)
(***************************************************************************)
DetectRoute ==
  IF baseline = None THEN "no_baseline"
  ELSE IF LooksHeaderless(source, baseline) THEN "propose_header_assignment"
  ELSE "diff"

\* Reads the baseline, the file, and what this episode's humans refused before.
Detect ==
  /\ ~unreadable
  /\ Run("detect", DetectRoute)
  /\ current_schema' = source
  /\ rejected_operation_keys' =
       UNION {h.operations : h \in {e \in history : e.status = "rejected"}}
  /\ UNCHANGED <<invocation, inputVars, confirmed_renames, raw_operations,
                 validated_operations, human_approved, outcomeVars, status,
                 historyVars, approvals>>

\* The file cannot be read, or an entry of the history cannot: nothing catches
\* that.
DetectRaises ==
  /\ Run("detect", "raised")
  /\ UNCHANGED <<invocation, inputVars, proposalVars, human_approved,
                 outcomeVars, status, historyVars, approvals>>

\* What was rejected before is not looked at here.
ProposeHeaderAssignment ==
  /\ Run("propose_header_assignment", "validate")
  /\ raw_operations' = {AssignHeader(n) : n \in DOMAIN baseline}
  /\ UNCHANGED <<invocation, inputVars, current_schema, rejected_operation_keys,
                 confirmed_renames, validated_operations, human_approved,
                 outcomeVars, status, historyVars, approvals>>

Diff ==
  /\ Run("diff", IF HasChanges(baseline, current_schema.columns)
                 THEN "resolve_renames" ELSE "healthy")
  /\ UNCHANGED <<invocation, inputVars, proposalVars, human_approved,
                 outcomeVars, status, historyVars, approvals>>

\* The subgraph: fuzzy_match, then llm_confirm keeps the hints the LLM confirms.
ResolveRenames ==
  /\ Run("resolve_renames", "propose")
  /\ \E hints \in RenameHints(baseline, current_schema.columns) :
       confirmed_renames' \in SUBSET hints
  /\ UNCHANGED <<invocation, inputVars, current_schema, rejected_operation_keys,
                 raw_operations, validated_operations, human_approved,
                 outcomeVars, status, historyVars, approvals>>

\* The LLM's answer about a hint was JSON, but no object or no number in it.
ResolveRenamesRaises ==
  /\ Run("resolve_renames", "raised")
  /\ Candidates(baseline, current_schema.columns) # {}
  /\ UNCHANGED <<invocation, inputVars, proposalVars, human_approved,
                 outcomeVars, status, historyVars, approvals>>

\* Mutant: continuity only looks at operations on columns, not at renames.
NotRejectedExceptRenames(operations) ==
  {o \in operations : o.op = "rename" \/ o \notin rejected_operation_keys}

\* Episode continuity.
NotRejected(operations) == operations \ rejected_operation_keys

Propose ==
  /\ Run("propose", "validate")
  /\ raw_operations' =
       NotRejected(OperationsFor(baseline, current_schema.columns, confirmed_renames))
  /\ UNCHANGED <<invocation, inputVars, current_schema, rejected_operation_keys,
                 confirmed_renames, validated_operations, human_approved,
                 outcomeVars, status, historyVars, approvals>>

\* Mutant: an invalid prescription is proposed again, with no end to it.
ValidateRetries ==
  /\ Run("validate", IF raw_operations = {} THEN "propose" ELSE "confidence_gate")
  /\ validated_operations' = raw_operations
  /\ UNCHANGED <<invocation, inputVars, current_schema, rejected_operation_keys,
                 confirmed_renames, raw_operations, human_approved, outcomeVars,
                 status, historyVars, approvals>>

\* Operations of one prescription touch different columns, so that the order
\* normalize_operation_order gives them is left out.
Validate ==
  /\ Run("validate", IF raw_operations = {} THEN "invalid" ELSE "confidence_gate")
  /\ validated_operations' = raw_operations
  /\ UNCHANGED <<invocation, inputVars, current_schema, rejected_operation_keys,
                 confirmed_renames, raw_operations, human_approved, outcomeVars,
                 status, historyVars, approvals>>

\* Mutant: a prescription that is certain enough needs no human.
ConfidenceGateAutoApplies ==
  /\ Run("confidence_gate", IF confirmed_renames = {} THEN "apply" ELSE "human_approval")
  /\ UNCHANGED <<invocation, inputVars, proposalVars, human_approved,
                 outcomeVars, status, historyVars, approvals>>

\* Confidence only decides how the prompt is worded.
ConfidenceGate ==
  /\ Run("confidence_gate", "human_approval")
  /\ UNCHANGED <<invocation, inputVars, proposalVars, human_approved,
                 outcomeVars, status, historyVars, approvals>>
-----------------------------------------------------------------------------
(***************************************************************************)
(* The human.                                                              *)
(***************************************************************************)
Approve ==
  /\ Run("human_approval", "apply")
  /\ human_approved' = "approved"
  /\ approvals' = approvals \cup
       {[invocation |-> invocation, operations |-> validated_operations]}
  /\ UNCHANGED <<invocation, inputVars, proposalVars, outcomeVars, status, historyVars>>

Reject ==
  /\ Run("human_approval", "rejected")
  /\ human_approved' = "rejected"
  /\ UNCHANGED <<invocation, inputVars, proposalVars, outcomeVars, status,
                 historyVars, approvals>>

AbortPrompt ==
  /\ Run("human_approval", "raised")
  /\ UNCHANGED <<invocation, inputVars, proposalVars, human_approved,
                 outcomeVars, status, historyVars, approvals>>
-----------------------------------------------------------------------------
(***************************************************************************)
(* Applying and verifying.                                                 *)
(***************************************************************************)
HeaderOperations(operations) == {o \in operations : o.op = "assign_header"}

\* execute() read the file as it is now, applied the operations and replaced
\* the output; a headerless file gets the names of the assigned header.
ApplySucceeds ==
  /\ Executable(source.columns, validated_operations)
  /\ output' = [invocation |-> invocation, operations |-> validated_operations,
                columns |-> Executed(source.columns, validated_operations)]
  /\ wrote' = TRUE

\* An operation that raises, or a write that fails.
ApplyFails == wrote' = FALSE /\ UNCHANGED output

Apply ==
  /\ Run("apply", "verify")
  /\ ApplySucceeds \/ ApplyFails
  /\ UNCHANGED <<invocation, inputVars, proposalVars, human_approved, verified,
                 status, historyVars, approvals>>

\* Mutant: the file that was written is not looked at again.
VerifiableUnread == wrote \/ EndStateHolds(source.columns, validated_operations)

\* verify looks at the output, or at the source if there is none; a headerless
\* source has none of the baseline's column names.
Verifiable ==
  IF wrote THEN EndStateHolds(output.columns, validated_operations)
  ELSE /\ HeaderOperations(validated_operations) = {}
       /\ EndStateHolds(source.columns, validated_operations)

Verify ==
  /\ \/ Run("verify", "succeeded") /\ Verifiable /\ verified' = TRUE
     \/ Run("verify", "failed") /\ verified' = FALSE
  /\ UNCHANGED <<invocation, inputVars, proposalVars, human_approved, wrote,
                 output, status, historyVars, approvals>>

\* Mutant: a healthy table is recorded like any other.
ConcludeRecordsHealthy ==
  /\ node \in DOMAIN Verdicts
  /\ status' = Verdicts[node]
  /\ node' = "record"
  /\ UNCHANGED <<invocation, inputVars, proposalVars, human_approved,
                 outcomeVars, historyVars, approvals>>

\* The terminal nodes; a healthy table is not recorded.
Conclude ==
  /\ node \in DOMAIN Verdicts
  /\ status' = Verdicts[node]
  /\ node' = IF node = "healthy" THEN "returned" ELSE "record"
  /\ UNCHANGED <<invocation, inputVars, proposalVars, human_approved,
                 outcomeVars, historyVars, approvals>>
-----------------------------------------------------------------------------
(***************************************************************************)
(* The migration history, and the next invocation.                         *)
(***************************************************************************)

\* Mutant: an entry counts as applied when its human said yes.
EntryAppliedByApproval ==
  [invocation |-> invocation, status |-> status, operations |-> validated_operations,
   applied |-> human_approved = "approved", human_approved |-> human_approved]

Entry ==
  [invocation |-> invocation, status |-> status, operations |-> validated_operations,
   applied |-> status = "succeeded", human_approved |-> human_approved]

\* The JSON file first, then the mirror if it is there and willing.
Record ==
  /\ Run("record", "returned")
  /\ history' = history \cup {Entry}
  /\ mirror' \in {mirror, mirror \cup {Entry}}
  /\ UNCHANGED <<invocation, inputVars, proposalVars, human_approved,
                 outcomeVars, status, unreadable, approvals>>

\* Mutant: the mirror is written first.
RecordRaisesAfterMirror ==
  /\ Run("record", "raised")
  /\ unreadable' \in {unreadable, TRUE}
  /\ mirror' = mirror \cup {Entry}
  /\ UNCHANGED <<invocation, inputVars, proposalVars, human_approved,
                 outcomeVars, status, history, approvals>>

\* The JSON file cannot be written, or the process dies while it is: what is
\* there of it then cannot be parsed.
RecordRaises ==
  /\ Run("record", "raised")
  /\ unreadable' \in {unreadable, TRUE}
  /\ UNCHANGED <<invocation, inputVars, proposalVars, human_approved,
                 outcomeVars, status, history, mirror, approvals>>

NextInvocation ==
  /\ node \in Done
  /\ invocation < MaxInvocations
  /\ invocation' = invocation + 1
  /\ node' = "detect"
  /\ current_schema' = None
  /\ rejected_operation_keys' = {}
  /\ confirmed_renames' = {}
  /\ raw_operations' = {}
  /\ validated_operations' = {}
  /\ human_approved' = "unset"
  /\ wrote' = FALSE
  /\ verified' = FALSE
  /\ status' = "unset"
  /\ UNCHANGED <<inputVars, output, historyVars, approvals>>

\* A new delivery, between invocations or while the human thinks; then it has a
\* header if the old one had.
Redeliver ==
  /\ node \in Done \cup {"human_approval"}
  /\ \E f \in Files :
       /\ node = "human_approval" => f.header = source.header
       /\ source' = f
  /\ UNCHANGED <<node, invocation, baseline, proposalVars, human_approved,
                 outcomeVars, status, historyVars, approvals>>
-----------------------------------------------------------------------------
GraphStep ==
  \/ Detect \/ DetectRaises \/ ProposeHeaderAssignment \/ Diff
  \/ ResolveRenames \/ ResolveRenamesRaises \/ Propose \/ Validate
  \/ ConfidenceGate \/ Apply \/ Verify \/ Conclude \/ Record \/ RecordRaises

HumanStep == Approve \/ Reject \/ AbortPrompt

Next == GraphStep \/ HumanStep \/ NextInvocation \/ Redeliver

\* An invocation only ever waits for the human, who answers; nobody has to
\* invoke it again or deliver anything.
Spec == Init /\ [][Next]_vars /\ WF_vars(GraphStep) /\ WF_vars(HumanStep)
-----------------------------------------------------------------------------
(***************************************************************************)
(* Properties.                                                             *)
(***************************************************************************)

\* The file under repaired/ is the work of the very operations a human said yes
\* to in the invocation that wrote it; confidence never takes the human's place.
WritesApproved ==
  output # None =>
    [invocation |-> output.invocation, operations |-> output.operations] \in approvals

\* No column is touched by two operations of a prescription: whatever the fuzzy
\* match and the LLM make of the renames, nothing is both renamed and dropped
\* or added, so that the execution order cannot change the result.
OperationsDisjoint ==
  \A o, p \in validated_operations :
    o # p => Touched(o) \cap Touched(p) = {}

\* A repair that concludes successfully and wrote its file gave it exactly the
\* baseline's columns, unless what apply read is not what detect inspected or a
\* human refused part of the repair earlier in the episode.  (The source is what
\* apply read until the invocation is over.)
SuccessRestoresColumns ==
  node = "record" /\ status = "succeeded" /\ wrote /\ source = current_schema
      /\ rejected_operation_keys = {} =>
    DOMAIN output.columns = DOMAIN baseline

\* What was written is looked at: a success whose file exists holds every end
\* state its operations promise, even if the file was delivered anew while the
\* human was thinking.
SuccessHoldsOnDisk ==
  status = "succeeded" /\ wrote =>
    /\ output.invocation = invocation
    /\ EndStateHolds(output.columns, validated_operations)

\* Operations the history records as refused are not put before the human
\* again, in whichever invocation and combined with whatever else - on the
\* path that goes through propose.
RefusedOnce ==
  HeaderOperations(validated_operations) = {} =>
    \A h \in history :
      h.invocation < invocation /\ h.status = "rejected"
        => h.operations \cap validated_operations = {}

\* The history claims a change of data only where a human agreed to it and a
\* verification passed; and what an invocation reports, it has recorded.
HistoryTellsTruth ==
  /\ \A h \in history :
       h.applied => /\ h.status = "succeeded"
                    /\ [invocation |-> h.invocation,
                        operations |-> h.operations] \in approvals
  /\ node = "returned" /\ status # "healthy" => Entry \in history

\* The mirror never knows of an entry the JSON history does not have.
MirrorFollows == mirror \subseteq history

\* Every invocation comes to an end.
InvocationsEnd == node = "detect" ~> node \in Done

\* The command's help: reusing an episode ID "skips re-proposing rejected
\* operations"; here for every path to the human.
NeverProposedAgain ==
  node = "human_approval" =>
    \A h \in history :
      h.status = "rejected" => h.operations \cap validated_operations = {}

\* The comment in verify: if apply wrote nothing, the source "certainly won't
\* hold the target end-state either".
SuccessMeansWritten == status = "succeeded" => wrote
=============================================================================
