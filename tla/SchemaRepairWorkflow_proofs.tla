--------------------- MODULE SchemaRepairWorkflow_proofs ---------------------
(***************************************************************************)
(* The safety of Tier 2 for every baseline, every sequence of deliveries,  *)
(* every similarity of names and every number of invocations.              *)
(***************************************************************************)
EXTENDS SchemaRepairWorkflow, SchemaDiff_proofs

\* The nodes before anything is validated, and those that have a prescription.
Proposing ==
  {"propose_header_assignment", "diff", "resolve_renames", "propose"}
Prescribing == {"confidence_gate", "human_approval", "apply", "verify"}

\* The nodes without a validated prescription, and those before apply wrote.
Unvalidated == Proposing \cup {"detect", "validate"}
Unwritten == Unvalidated \cup {"confidence_gate", "human_approval", "apply"}

\* propose_header_assignment's answer: the baseline's names, one per column.
HeaderAssignment == {AssignHeader(n) : n \in DOMAIN baseline}

\* The two ways to a prescription: a header for a file that lacks one, or what
\* is left of the operations derived from the diff.
Prescription(operations) ==
  \/ /\ LooksHeaderless(current_schema, baseline)
     /\ operations = HeaderAssignment
  \/ \E M \in Matchings(baseline, current_schema.columns) :
       operations = OperationsFor(baseline, current_schema.columns, M)
                      \ rejected_operation_keys

\* What the graph knows where it is.
Flow ==
  /\ node \in Proposing \/ raw_operations # {} =>
       baseline \in Schemas /\ current_schema \in SourceFiles
  /\ node = "propose_header_assignment" => LooksHeaderless(current_schema, baseline)
  /\ node = "propose" =>
       confirmed_renames \in Matchings(baseline, current_schema.columns)
  /\ node \in Proposing \cup {"detect"} => raw_operations = {}
  /\ node \in Unvalidated => validated_operations = {}
  /\ raw_operations # {} => Prescription(raw_operations)
  /\ validated_operations \in {{}, raw_operations}
  /\ node \in Prescribing => validated_operations # {}
  /\ node \in Unwritten => ~wrote
  /\ node \notin Done \cup {"record"} => status = "unset"
  /\ node = "record" => status \in {"failed", "invalid", "rejected", "succeeded"}

\* A human said yes to what is being applied, and to what wrote the output.
Approved ==
  /\ node \in {"apply", "verify", "succeeded"} \/ status = "succeeded" =>
       [invocation |-> invocation, operations |-> validated_operations] \in approvals
  /\ WritesApproved

\* What this invocation wrote is its prescription, executed on the source.
Written ==
  wrote =>
    /\ output.invocation = invocation
    /\ validated_operations # {}
    /\ node \notin Done =>
         output.columns = Executed(source.columns, validated_operations)
    /\ node = "succeeded" \/ status = "succeeded" =>
         EndStateHolds(output.columns, validated_operations)

\* Detect has read every refusal of the invocations before this one.
Remembered ==
  node \in Proposing \/ raw_operations # {} =>
    \A h \in history :
      h.invocation < invocation /\ h.status = "rejected"
        => h.operations \subseteq rejected_operation_keys

-----------------------------------------------------------------------------
\* A baseline that exists is a schema, and what is delivered is a source file.
LEMMA InputTyped ==
  ASSUME TypeOK
  PROVE  /\ baseline # None => baseline \in Schemas
         /\ source \in SourceFiles
         /\ source.columns \in Schemas
<1>1. source \in SourceFiles
  BY FileAssumption DEF TypeOK
<1>2. QED
  BY <1>1, EpisodeAssumption DEF TypeOK, SourceFiles

\* Every step from a well-typed state in which the graph knows where it is
\* leads to a well-typed state.
LEMMA TypeStep ==
  ASSUME TypeOK, Flow, [Next]_vars
  PROVE  TypeOK'
<1> USE DEF Run, Nodes, TypeOK, inputVars, proposalVars, outcomeVars,
            historyVars, Done
<1>1. CASE Detect
  <2>1. node' \in Nodes \cup Done
    BY <1>1 DEF Detect, DetectRoute, Verdicts
  <2>2. rejected_operation_keys' \in SUBSET Operations
    <3>1. \A h \in history : h.operations \subseteq Operations
      BY DEF Entries
    <3>2. QED
      BY <1>1, <3>1 DEF Detect
  <2>3. current_schema' \in SourceFiles
    BY <1>1, InputTyped DEF Detect
  <2>4. QED
    BY <1>1, <2>1, <2>2, <2>3 DEF Detect
<1>2. CASE DetectRaises
  BY <1>2 DEF DetectRaises
<1>3. CASE ProposeHeaderAssignment
  <2>1. DOMAIN baseline \subseteq Names
    BY <1>3, SchemaTyped DEF ProposeHeaderAssignment, Flow, Proposing
  <2>2. raw_operations' \in SUBSET Operations
    BY <1>3, <2>1 DEF ProposeHeaderAssignment, Operations
  <2>3. QED
    BY <1>3, <2>2 DEF ProposeHeaderAssignment
<1>4. CASE Diff
  <2>1. node' \in Nodes \cup Done
    BY <1>4 DEF Diff, Verdicts
  <2>2. QED
    BY <1>4, <2>1 DEF Diff
<1>5. CASE ResolveRenames
  <2>1. PICK hints \in RenameHints(baseline, current_schema.columns) :
          confirmed_renames' \in SUBSET hints
    BY <1>5 DEF ResolveRenames
  <2>2. confirmed_renames' \in Matchings(baseline, current_schema.columns)
    BY <2>1, HintsMatch
  <2>3. baseline \in Schemas /\ current_schema.columns \in Schemas
    BY <1>5 DEF ResolveRenames, Flow, Proposing, SourceFiles
  <2>4. confirmed_renames' \in SUBSET (Names \X Names)
    BY <2>2, <2>3, SchemaTyped DEF Matchings, Removed, Added
  <2>5. QED
    BY <1>5, <2>4 DEF ResolveRenames
<1>6. CASE ResolveRenamesRaises
  BY <1>6 DEF ResolveRenamesRaises
<1>7. CASE Propose
  <2>1. baseline \in Schemas /\ current_schema.columns \in Schemas
    BY <1>7 DEF Propose, Flow, Proposing, SourceFiles
  <2>2. confirmed_renames \in Matchings(baseline, current_schema.columns)
    BY <1>7 DEF Propose, Flow
  <2>3. OperationsFor(baseline, current_schema.columns, confirmed_renames)
          \subseteq Operations
    BY <2>1, <2>2, DerivedTyped
  <2>4. raw_operations' \in SUBSET Operations
    BY <1>7, <2>3 DEF Propose, NotRejected
  <2>5. QED
    BY <1>7, <2>4 DEF Propose
<1>8. CASE Validate
  <2>1. node' \in Nodes \cup Done
    BY <1>8 DEF Validate, Verdicts
  <2>2. QED
    BY <1>8, <2>1 DEF Validate
<1>9. CASE ConfidenceGate
  BY <1>9 DEF ConfidenceGate
<1>10. CASE Apply
  <2>1. Executed(source.columns, validated_operations) \in Schemas
    BY InputTyped, ExecutedTyped
  <2>2. output' \in Outputs \cup {None} /\ wrote' \in BOOLEAN
    <3>1. CASE ApplySucceeds
      BY <2>1, <3>1 DEF ApplySucceeds, Outputs
    <3>2. CASE ApplyFails
      BY <3>2 DEF ApplyFails
    <3>3. QED
      BY <1>10, <3>1, <3>2 DEF Apply
  <2>3. QED
    BY <1>10, <2>2 DEF Apply
<1>11. CASE Verify
  <2>1. node' \in Nodes \cup Done
    BY <1>11 DEF Verify, Verdicts
  <2>2. QED
    BY <1>11, <2>1 DEF Verify
<1>12. CASE Conclude
  <2>1. node' \in Nodes \cup Done
    BY <1>12 DEF Conclude
  <2>2. status' \in {"healthy", "failed", "invalid", "rejected", "succeeded"}
    BY <1>12 DEF Conclude, Verdicts
  <2>3. QED
    BY <1>12, <2>1, <2>2 DEF Conclude
<1>13. CASE Record
  <2>1. Entry \in Entries
    BY <1>13 DEF Record, Entry, Entries, Flow
  <2>2. history' \in SUBSET Entries /\ mirror' \in SUBSET Entries
    BY <1>13, <2>1 DEF Record
  <2>3. QED
    BY <1>13, <2>2 DEF Record
<1>14. CASE RecordRaises
  <2>1. node' \in Nodes \cup Done
    BY <1>14 DEF RecordRaises, Verdicts
  <2>2. QED
    BY <1>14, <2>1 DEF RecordRaises
<1>15. CASE Approve
  <2>1. approvals' \in SUBSET [invocation : Invocations, operations : SUBSET Operations]
    BY <1>15 DEF Approve
  <2>2. QED
    BY <1>15, <2>1 DEF Approve
<1>16. CASE Reject
  <2>1. node' \in Nodes \cup Done
    BY <1>16 DEF Reject, Verdicts
  <2>2. QED
    BY <1>16, <2>1 DEF Reject
<1>17. CASE AbortPrompt
  BY <1>17 DEF AbortPrompt
<1>18. CASE NextInvocation
  <2>1. invocation' \in Invocations
    BY <1>18, EpisodeAssumption DEF NextInvocation, Invocations
  <2>2. QED
    BY <1>18, <2>1 DEF NextInvocation
<1>19. CASE Redeliver
  BY <1>19 DEF Redeliver
<1>20. CASE UNCHANGED vars
  BY <1>20 DEF vars
<1>21. QED
  BY <1>1, <1>2, <1>3, <1>4, <1>5, <1>6, <1>7, <1>8, <1>9, <1>10,
     <1>11, <1>12, <1>13, <1>14, <1>15, <1>16, <1>17, <1>18, <1>19, <1>20
  DEF Next, GraphStep, HumanStep

\* ... and to one in which the graph knows where it is.
LEMMA FlowStep ==
  ASSUME TypeOK, Flow, [Next]_vars
  PROVE  Flow'
<1> USE DEF Run, Flow, Prescription, HeaderAssignment, Proposing, Prescribing,
            Unvalidated, Unwritten, Done, inputVars, proposalVars, outcomeVars,
            historyVars
<1>1. CASE Detect
  <2>1. node' \in {"no_baseline", "propose_header_assignment", "diff"}
    BY <1>1 DEF Detect, DetectRoute
  <2>2. node' \in Proposing => baseline \in Schemas
    BY <1>1, InputTyped DEF Detect, DetectRoute
  <2>3. node' = "propose_header_assignment" => LooksHeaderless(source, baseline)
    BY <1>1 DEF Detect, DetectRoute
  <2>4. source \in SourceFiles
    BY InputTyped
  <2>5. QED
    BY <1>1, <2>1, <2>2, <2>3, <2>4 DEF Detect
<1>2. CASE DetectRaises
  BY <1>2 DEF DetectRaises
<1>3. CASE ProposeHeaderAssignment
  BY <1>3 DEF ProposeHeaderAssignment
<1>4. CASE Diff
  BY <1>4 DEF Diff
<1>5. CASE ResolveRenames
  <2>1. PICK hints \in RenameHints(baseline, current_schema.columns) :
          confirmed_renames' \in SUBSET hints
    BY <1>5 DEF ResolveRenames
  <2>2. confirmed_renames' \in Matchings(baseline, current_schema.columns)
    BY <2>1, HintsMatch
  <2>3. QED
    BY <1>5, <2>2 DEF ResolveRenames
<1>6. CASE ResolveRenamesRaises
  BY <1>6 DEF ResolveRenamesRaises
<1>7. CASE Propose
  <2>1. /\ confirmed_renames \in Matchings(baseline, current_schema.columns)
        /\ baseline \in Schemas /\ current_schema \in SourceFiles
    BY <1>7 DEF Propose
  <2>2. UNCHANGED <<baseline, current_schema, rejected_operation_keys>>
    BY <1>7 DEF Propose
  <2>3. \E M \in Matchings(baseline', current_schema'.columns) :
          raw_operations' = OperationsFor(baseline', current_schema'.columns, M)
                              \ rejected_operation_keys'
    BY <1>7, <2>1, <2>2 DEF Propose, NotRejected
  <2>4. QED
    BY <1>7, <2>1, <2>2, <2>3 DEF Propose
<1>8. CASE Validate
  BY <1>8 DEF Validate
<1>9. CASE ConfidenceGate
  BY <1>9 DEF ConfidenceGate
<1>10. CASE Apply
  BY <1>10 DEF Apply
<1>11. CASE Verify
  BY <1>11 DEF Verify
<1>12. CASE Conclude
  <2>1. status' \in {"healthy", "failed", "invalid", "rejected", "succeeded"}
    BY <1>12 DEF Conclude, Verdicts
  <2>2. node' = "record" => status' # "healthy"
    BY <1>12 DEF Conclude, Verdicts
  <2>3. node' \in {"returned", "record"}
    BY <1>12 DEF Conclude
  <2>4. QED
    BY <1>12, <2>1, <2>2, <2>3 DEF Conclude
<1>13. CASE Record
  BY <1>13 DEF Record
<1>14. CASE RecordRaises
  BY <1>14 DEF RecordRaises
<1>15. CASE Approve
  BY <1>15 DEF Approve
<1>16. CASE Reject
  BY <1>16 DEF Reject
<1>17. CASE AbortPrompt
  BY <1>17 DEF AbortPrompt
<1>18. CASE NextInvocation
  BY <1>18 DEF NextInvocation
<1>19. CASE Redeliver
  BY <1>19 DEF Redeliver
<1>20. CASE UNCHANGED vars
  BY <1>20 DEF vars
<1>21. QED
  BY <1>1, <1>2, <1>3, <1>4, <1>5, <1>6, <1>7, <1>8, <1>9, <1>10,
     <1>11, <1>12, <1>13, <1>14, <1>15, <1>16, <1>17, <1>18, <1>19, <1>20
  DEF Next, GraphStep, HumanStep

\* An episode starts well typed, with nothing proposed.
LEMMA InitCorrect == Init => TypeOK /\ Flow
<1>1. Init => TypeOK
  <2>1. 1 \in Invocations
    BY EpisodeAssumption DEF Invocations
  <2>2. QED
    BY <2>1 DEF Init, TypeOK, Nodes
<1>2. Init => Flow
  BY DEF Init, Flow, Proposing, Prescribing, Unvalidated, Unwritten, Done
<1>3. QED
  BY <1>1, <1>2

\* Every reachable state of an episode is well typed, and every node of the
\* graph finds what the nodes before it must have left: a baseline, a
\* prescription that is a header or was derived from the diff, and no verdict
\* before the terminal nodes.
THEOREM TypeCorrect == Spec => [](TypeOK /\ Flow)
<1>1. TypeOK /\ Flow /\ [Next]_vars => (TypeOK /\ Flow)'
  BY TypeStep, FlowStep
<1>2. QED
  BY <1>1, InitCorrect, PTL DEF Spec
-----------------------------------------------------------------------------
\* Only one terminal node concludes a success.
LEMMA OneVerdictSucceeds ==
  \A n \in DOMAIN Verdicts : Verdicts[n] = "succeeded" => n = "succeeded"
<1>1. /\ Verdicts["no_baseline"] = "failed" /\ Verdicts["healthy"] = "healthy"
      /\ Verdicts["invalid"] = "invalid" /\ Verdicts["rejected"] = "rejected"
      /\ Verdicts["failed"] = "failed"
      /\ DOMAIN Verdicts = {"no_baseline", "healthy", "invalid", "rejected",
                            "succeeded", "failed"}
  BY DEF Verdicts
<1>2. QED
  BY <1>1

\* Approvals are given for what is applied next, and stay given.
LEMMA ApprovedStep ==
  ASSUME TypeOK, Flow, Approved, [Next]_vars
  PROVE  Approved'
<1> USE DEF Run, Approved, WritesApproved, inputVars, proposalVars,
            outcomeVars, historyVars
<1>1. CASE Detect
  <2>1. node' \in {"no_baseline", "propose_header_assignment", "diff"}
    BY <1>1 DEF Detect, DetectRoute
  <2>2. QED
    BY <1>1, <2>1 DEF Detect
<1>2. CASE DetectRaises
  BY <1>2 DEF DetectRaises
<1>3. CASE ProposeHeaderAssignment
  BY <1>3 DEF ProposeHeaderAssignment
<1>4. CASE Diff
  BY <1>4 DEF Diff
<1>5. CASE ResolveRenames
  BY <1>5 DEF ResolveRenames
<1>6. CASE ResolveRenamesRaises
  BY <1>6 DEF ResolveRenamesRaises
<1>7. CASE Propose
  BY <1>7 DEF Propose
<1>8. CASE Validate
  <2>1. node' \notin {"apply", "verify", "succeeded"} /\ status # "succeeded"
    BY <1>8 DEF Validate, Flow, Done
  <2>2. QED
    BY <1>8, <2>1 DEF Validate
<1>9. CASE ConfidenceGate
  BY <1>9 DEF ConfidenceGate
<1>10. CASE Apply
  <2>1. CASE ApplySucceeds
    BY <1>10, <2>1 DEF Apply, ApplySucceeds
  <2>2. CASE ApplyFails
    BY <1>10, <2>2 DEF Apply, ApplyFails
  <2>3. QED
    BY <1>10, <2>1, <2>2 DEF Apply
<1>11. CASE Verify
  BY <1>11 DEF Verify
<1>12. CASE Conclude
  <2>1. status' = "succeeded" => node = "succeeded"
    BY <1>12, OneVerdictSucceeds DEF Conclude
  <2>2. node' \in {"returned", "record"}
    BY <1>12 DEF Conclude
  <2>3. QED
    BY <1>12, <2>1, <2>2 DEF Conclude
<1>13. CASE Record
  BY <1>13 DEF Record
<1>14. CASE RecordRaises
  BY <1>14 DEF RecordRaises
<1>15. CASE Approve
  <2>1. [invocation |-> invocation, operations |-> validated_operations] \in approvals'
    BY <1>15 DEF Approve
  <2>2. approvals \subseteq approvals'
    BY <1>15 DEF Approve
  <2>3. QED
    BY <1>15, <2>1, <2>2 DEF Approve
<1>16. CASE Reject
  BY <1>16 DEF Reject
<1>17. CASE AbortPrompt
  BY <1>17 DEF AbortPrompt
<1>18. CASE NextInvocation
  BY <1>18 DEF NextInvocation
<1>19. CASE Redeliver
  BY <1>19 DEF Redeliver
<1>20. CASE UNCHANGED vars
  BY <1>20 DEF vars
<1>21. QED
  BY <1>1, <1>2, <1>3, <1>4, <1>5, <1>6, <1>7, <1>8, <1>9, <1>10,
     <1>11, <1>12, <1>13, <1>14, <1>15, <1>16, <1>17, <1>18, <1>19, <1>20
  DEF Next, GraphStep, HumanStep

\* What an invocation wrote stays its prescription's work until the next.
LEMMA WrittenStep ==
  ASSUME TypeOK, Flow, Written, [Next]_vars
  PROVE  Written'
<1> USE DEF Run, Written, Flow, Unwritten, Unvalidated, Proposing, Done,
            inputVars, proposalVars, outcomeVars, historyVars
<1>1. CASE Detect
  BY <1>1 DEF Detect
<1>2. CASE DetectRaises
  BY <1>2 DEF DetectRaises
<1>3. CASE ProposeHeaderAssignment
  BY <1>3 DEF ProposeHeaderAssignment
<1>4. CASE Diff
  BY <1>4 DEF Diff
<1>5. CASE ResolveRenames
  BY <1>5 DEF ResolveRenames
<1>6. CASE ResolveRenamesRaises
  BY <1>6 DEF ResolveRenamesRaises
<1>7. CASE Propose
  BY <1>7 DEF Propose
<1>8. CASE Validate
  BY <1>8 DEF Validate
<1>9. CASE ConfidenceGate
  BY <1>9 DEF ConfidenceGate
<1>10. CASE Apply
  <2>1. status = "unset" /\ validated_operations # {} /\ node' = "verify"
    BY <1>10 DEF Apply, Prescribing
  <2>2. UNCHANGED <<invocation, source, validated_operations, status>>
    BY <1>10 DEF Apply
  <2>3. CASE ApplySucceeds
    BY <2>1, <2>2, <2>3 DEF ApplySucceeds
  <2>4. CASE ApplyFails
    BY <2>4 DEF ApplyFails
  <2>5. QED
    BY <1>10, <2>3, <2>4 DEF Apply
<1>11. CASE Verify
  <2>1. UNCHANGED <<invocation, source, validated_operations, status, wrote, output>>
    BY <1>11 DEF Verify
  <2>2. node = "verify" /\ status = "unset"
    BY <1>11 DEF Verify
  <2>3. node' = "succeeded" /\ wrote
          => EndStateHolds(output.columns, validated_operations)
    BY <1>11 DEF Verify, Verifiable
  <2>4. QED
    BY <2>1, <2>2, <2>3
<1>12. CASE Conclude
  <2>1. status' = "succeeded" => node = "succeeded"
    BY <1>12, OneVerdictSucceeds DEF Conclude
  <2>2. node' # "succeeded" /\ node \notin Done
    BY <1>12 DEF Conclude, Verdicts
  <2>3. UNCHANGED <<invocation, source, validated_operations, wrote, output>>
    BY <1>12 DEF Conclude
  <2>4. QED
    BY <2>1, <2>2, <2>3
<1>13. CASE Record
  BY <1>13 DEF Record
<1>14. CASE RecordRaises
  BY <1>14 DEF RecordRaises
<1>15. CASE Approve
  BY <1>15 DEF Approve
<1>16. CASE Reject
  BY <1>16 DEF Reject
<1>17. CASE AbortPrompt
  BY <1>17 DEF AbortPrompt
<1>18. CASE NextInvocation
  BY <1>18 DEF NextInvocation
<1>19. CASE Redeliver
  BY <1>19 DEF Redeliver
<1>20. CASE UNCHANGED vars
  BY <1>20 DEF vars
<1>21. QED
  BY <1>1, <1>2, <1>3, <1>4, <1>5, <1>6, <1>7, <1>8, <1>9, <1>10,
     <1>11, <1>12, <1>13, <1>14, <1>15, <1>16, <1>17, <1>18, <1>19, <1>20
  DEF Next, GraphStep, HumanStep

\* No refusal slips in between detect and the end of the invocation.
LEMMA RememberedStep ==
  ASSUME TypeOK, Flow, Remembered, [Next]_vars
  PROVE  Remembered'
<1> USE DEF Run, Remembered, Proposing, Done, inputVars, proposalVars,
            outcomeVars, historyVars
<1>1. CASE Detect
  <2>1. \A h \in history :
          h.status = "rejected" => h.operations \subseteq rejected_operation_keys'
    BY <1>1 DEF Detect
  <2>2. history' = history
    BY <1>1 DEF Detect
  <2>3. QED
    BY <2>1, <2>2
<1>2. CASE DetectRaises
  BY <1>2 DEF DetectRaises
<1>3. CASE ProposeHeaderAssignment
  BY <1>3 DEF ProposeHeaderAssignment
<1>4. CASE Diff
  BY <1>4 DEF Diff
<1>5. CASE ResolveRenames
  BY <1>5 DEF ResolveRenames
<1>6. CASE ResolveRenamesRaises
  BY <1>6 DEF ResolveRenamesRaises
<1>7. CASE Propose
  BY <1>7 DEF Propose
<1>8. CASE Validate
  <2>1. node' \notin Proposing
    BY <1>8 DEF Validate
  <2>2. QED
    BY <1>8, <2>1 DEF Validate
<1>9. CASE ConfidenceGate
  BY <1>9 DEF ConfidenceGate
<1>10. CASE Apply
  BY <1>10 DEF Apply
<1>11. CASE Verify
  BY <1>11 DEF Verify
<1>12. CASE Conclude
  <2>1. node' \notin Proposing
    BY <1>12 DEF Conclude
  <2>2. QED
    BY <1>12, <2>1 DEF Conclude
<1>13. CASE Record
  <2>1. Entry.invocation = invocation
    BY DEF Entry
  <2>2. ~(Entry.invocation < invocation)
    BY <2>1 DEF TypeOK, Invocations
  <2>3. /\ node' \notin Proposing /\ history' = history \cup {Entry}
        /\ UNCHANGED <<invocation, raw_operations, rejected_operation_keys>>
    BY <1>13 DEF Record
  <2>4. QED
    BY <2>2, <2>3
<1>14. CASE RecordRaises
  BY <1>14 DEF RecordRaises
<1>15. CASE Approve
  BY <1>15 DEF Approve
<1>16. CASE Reject
  BY <1>16 DEF Reject
<1>17. CASE AbortPrompt
  BY <1>17 DEF AbortPrompt
<1>18. CASE NextInvocation
  BY <1>18 DEF NextInvocation
<1>19. CASE Redeliver
  BY <1>19 DEF Redeliver
<1>20. CASE UNCHANGED vars
  BY <1>20 DEF vars
<1>21. QED
  BY <1>1, <1>2, <1>3, <1>4, <1>5, <1>6, <1>7, <1>8, <1>9, <1>10,
     <1>11, <1>12, <1>13, <1>14, <1>15, <1>16, <1>17, <1>18, <1>19, <1>20
  DEF Next, GraphStep, HumanStep

\* An entry that claims a change of data has its approval when it is recorded.
LEMMA HistoryStep ==
  ASSUME TypeOK, Flow, Approved, HistoryTellsTruth, [Next]_vars
  PROVE  HistoryTellsTruth'
<1> USE DEF Run, HistoryTellsTruth, Entry, Done, inputVars, proposalVars,
            outcomeVars, historyVars
<1>1. CASE Detect
  <2>1. node' # "returned"
    BY <1>1 DEF Detect, DetectRoute
  <2>2. QED
    BY <1>1, <2>1 DEF Detect
<1>2. CASE DetectRaises
  BY <1>2 DEF DetectRaises
<1>3. CASE ProposeHeaderAssignment
  BY <1>3 DEF ProposeHeaderAssignment
<1>4. CASE Diff
  BY <1>4 DEF Diff
<1>5. CASE ResolveRenames
  BY <1>5 DEF ResolveRenames
<1>6. CASE ResolveRenamesRaises
  BY <1>6 DEF ResolveRenamesRaises
<1>7. CASE Propose
  BY <1>7 DEF Propose
<1>8. CASE Validate
  BY <1>8 DEF Validate
<1>9. CASE ConfidenceGate
  BY <1>9 DEF ConfidenceGate
<1>10. CASE Apply
  BY <1>10 DEF Apply
<1>11. CASE Verify
  BY <1>11 DEF Verify
<1>12. CASE Conclude
  <2>1. node' = "returned" => status' = "healthy"
    BY <1>12 DEF Conclude, Verdicts
  <2>2. QED
    BY <1>12, <2>1 DEF Conclude
<1>13. CASE Record
  <2>1. Entry' = Entry
    BY <1>13 DEF Record
  <2>2. Entry.applied => /\ Entry.status = "succeeded"
                         /\ [invocation |-> Entry.invocation,
                             operations |-> Entry.operations] \in approvals
    BY DEF Approved
  <2>3. history' = history \cup {Entry} /\ UNCHANGED approvals
    BY <1>13 DEF Record
  <2>4. QED
    BY <2>1, <2>2, <2>3
<1>14. CASE RecordRaises
  BY <1>14 DEF RecordRaises
<1>15. CASE Approve
  <2>1. approvals \subseteq approvals' /\ node' # "returned" /\ history' = history
    BY <1>15 DEF Approve
  <2>2. QED
    BY <2>1
<1>16. CASE Reject
  BY <1>16 DEF Reject
<1>17. CASE AbortPrompt
  BY <1>17 DEF AbortPrompt
<1>18. CASE NextInvocation
  BY <1>18 DEF NextInvocation
<1>19. CASE Redeliver
  BY <1>19 DEF Redeliver
<1>20. CASE UNCHANGED vars
  BY <1>20 DEF vars
<1>21. QED
  BY <1>1, <1>2, <1>3, <1>4, <1>5, <1>6, <1>7, <1>8, <1>9, <1>10,
     <1>11, <1>12, <1>13, <1>14, <1>15, <1>16, <1>17, <1>18, <1>19, <1>20
  DEF Next, GraphStep, HumanStep

\* Record appends to the history whatever it appends to the mirror.
LEMMA MirrorStep ==
  ASSUME MirrorFollows, [Next]_vars
  PROVE  MirrorFollows'
<1> USE DEF MirrorFollows, inputVars, proposalVars, outcomeVars, historyVars
<1>1. CASE Detect
  BY <1>1 DEF Detect
<1>2. CASE DetectRaises
  BY <1>2 DEF DetectRaises
<1>3. CASE ProposeHeaderAssignment
  BY <1>3 DEF ProposeHeaderAssignment
<1>4. CASE Diff
  BY <1>4 DEF Diff
<1>5. CASE ResolveRenames
  BY <1>5 DEF ResolveRenames
<1>6. CASE ResolveRenamesRaises
  BY <1>6 DEF ResolveRenamesRaises
<1>7. CASE Propose
  BY <1>7 DEF Propose
<1>8. CASE Validate
  BY <1>8 DEF Validate
<1>9. CASE ConfidenceGate
  BY <1>9 DEF ConfidenceGate
<1>10. CASE Apply
  BY <1>10 DEF Apply
<1>11. CASE Verify
  BY <1>11 DEF Verify
<1>12. CASE Conclude
  BY <1>12 DEF Conclude
<1>13. CASE Record
  BY <1>13 DEF Record
<1>14. CASE RecordRaises
  BY <1>14 DEF RecordRaises
<1>15. CASE Approve
  BY <1>15 DEF Approve
<1>16. CASE Reject
  BY <1>16 DEF Reject
<1>17. CASE AbortPrompt
  BY <1>17 DEF AbortPrompt
<1>18. CASE NextInvocation
  BY <1>18 DEF NextInvocation
<1>19. CASE Redeliver
  BY <1>19 DEF Redeliver
<1>20. CASE UNCHANGED vars
  BY <1>20 DEF vars
<1>21. QED
  BY <1>1, <1>2, <1>3, <1>4, <1>5, <1>6, <1>7, <1>8, <1>9, <1>10,
     <1>11, <1>12, <1>13, <1>14, <1>15, <1>16, <1>17, <1>18, <1>19, <1>20
  DEF Next, GraphStep, HumanStep
-----------------------------------------------------------------------------
(***************************************************************************)
(* The inductive invariant of an episode, and what follows from it.        *)
(***************************************************************************)
EpisodeInv ==
  /\ TypeOK /\ Flow
  /\ Approved /\ Written /\ Remembered
  /\ HistoryTellsTruth /\ MirrorFollows

\* The invariant holds in every reachable state of an episode.
THEOREM EpisodeInvariant == Spec => []EpisodeInv
<1>1. Init => Approved /\ Written /\ Remembered /\ HistoryTellsTruth /\ MirrorFollows
  BY DEF Init, Approved, WritesApproved, Written, Remembered,
         HistoryTellsTruth, 
         MirrorFollows
<1>2. Init => EpisodeInv
  <2>1. Init => TypeOK /\ Flow
    BY InitCorrect
  <2>2. QED
    BY <1>1, <2>1 DEF EpisodeInv
<1>3. EpisodeInv /\ [Next]_vars => EpisodeInv'
  BY TypeStep, FlowStep, ApprovedStep, WrittenStep, RememberedStep,
     HistoryStep, 
     MirrorStep DEF EpisodeInv
<1>4. QED
  BY <1>2, <1>3, PTL DEF Spec

\* Whatever is under repaired/ is the work of operations its human approved in
\* the invocation that wrote it, in every episode.
THEOREM OnlyApprovedWrites == Spec => []WritesApproved
<1>1. EpisodeInv => WritesApproved
  BY DEF EpisodeInv, Approved
<1>2. QED
  BY <1>1, EpisodeInvariant, PTL

\* No prescription touches a column twice, for every similarity of the names
\* and every answer of the LLM: normalize_operation_order decides nothing.
THEOREM PrescriptionsDisjoint == Spec => []OperationsDisjoint
<1>1. ASSUME EpisodeInv
      PROVE  OperationsDisjoint
  <2> SUFFICES ASSUME NEW o \in validated_operations, NEW p \in validated_operations,
                      o # p
               PROVE  Touched(o) \cap Touched(p) = {}
    BY DEF OperationsDisjoint
  <2>1. /\ Prescription(validated_operations)
        /\ baseline \in Schemas /\ current_schema.columns \in Schemas
    BY <1>1 DEF EpisodeInv, Flow, SourceFiles
  <2>2. CASE validated_operations = HeaderAssignment
    <3>1. PICK m \in DOMAIN baseline, n \in DOMAIN baseline :
            o = AssignHeader(m) /\ p = AssignHeader(n)
      BY <2>2 DEF HeaderAssignment
    <3>2. Touched(o) \subseteq {m} /\ Touched(p) \subseteq {n}
      BY <3>1 DEF Touched, AssignHeader
    <3>3. m # n
      BY <3>1
    <3>4. QED
      BY <3>2, <3>3
  <2>3. CASE \E M \in Matchings(baseline, current_schema.columns) :
               validated_operations =
                 OperationsFor(baseline, current_schema.columns, M)
                   \ rejected_operation_keys
    <3>1. PICK M \in Matchings(baseline, current_schema.columns) :
            validated_operations =
              OperationsFor(baseline, current_schema.columns, M)
                \ rejected_operation_keys
      BY <2>3
    <3>2. QED
      BY <2>1, <3>1, DerivedDisjoint
  <2>4. QED
    BY <2>1, <2>2, <2>3 DEF Prescription
<1>2. QED
  BY <1>1, EpisodeInvariant, PTL

\* A repair that succeeded on the file it was derived from, with nothing of it
\* refused before, gave the file exactly the columns of the baseline.
THEOREM ColumnsRestored == Spec => []SuccessRestoresColumns
<1>1. ASSUME EpisodeInv
      PROVE  SuccessRestoresColumns
  <2> SUFFICES ASSUME node = "record", wrote, source = current_schema,
                      rejected_operation_keys = {}
               PROVE  DOMAIN output.columns = DOMAIN baseline
    BY DEF SuccessRestoresColumns
  <2>1. /\ validated_operations # {}
        /\ output.columns = Executed(source.columns, validated_operations)
    BY <1>1 DEF EpisodeInv, Written, Done
  <2>2. /\ Prescription(validated_operations)
        /\ baseline \in Schemas /\ source.columns \in Schemas
    BY <1>1, <2>1, InputTyped DEF EpisodeInv, Flow
  <2>3. CASE /\ LooksHeaderless(current_schema, baseline)
             /\ validated_operations = HeaderAssignment
    <3>1. DOMAIN source.columns = DOMAIN baseline
      BY <2>3 DEF LooksHeaderless
    <3>2. DOMAIN baseline \in SUBSET Names
      BY <2>2, SchemaTyped
    <3>3. QED
      BY <2>1, <2>2, <2>3, <3>1, <3>2, HeaderKeepsColumns DEF HeaderAssignment
  <2>4. CASE \E M \in Matchings(baseline, source.columns) :
               validated_operations = OperationsFor(baseline, source.columns, M)
    BY <2>1, <2>2, <2>4, ExecutedRestores
  <2>5. QED
    BY <2>2, <2>3, <2>4 DEF Prescription
<1>2. QED
  BY <1>1, EpisodeInvariant, PTL

\* A reported success whose file was written holds on that very file, although
\* the source may be delivered anew while the human thinks.
THEOREM SuccessHolds == Spec => []SuccessHoldsOnDisk
<1>1. EpisodeInv => SuccessHoldsOnDisk
  BY DEF EpisodeInv, Written, SuccessHoldsOnDisk
<1>2. QED
  BY <1>1, EpisodeInvariant, PTL

\* On the path through propose the human is asked about an operation at most
\* once after refusing it, however often the episode is invoked again.
THEOREM RefusalsRemembered == Spec => []RefusedOnce
<1>1. ASSUME EpisodeInv
      PROVE  RefusedOnce
  <2> SUFFICES ASSUME HeaderOperations(validated_operations) = {},
                      NEW h \in history,
                      h.invocation < invocation /\ h.status = "rejected",
                      validated_operations # {}
               PROVE  h.operations \cap validated_operations = {}
    BY DEF RefusedOnce
  <2>1. /\ raw_operations = validated_operations
        /\ Prescription(validated_operations)
    BY <1>1 DEF EpisodeInv, Flow
  <2>2. h.operations \subseteq rejected_operation_keys
    BY <1>1, <2>1 DEF EpisodeInv, Remembered
  <2>3. validated_operations # HeaderAssignment
    <3>1. \A n : AssignHeader(n).op = "assign_header"
      BY DEF AssignHeader
    <3>2. QED
      BY <3>1 DEF HeaderOperations, HeaderAssignment
  <2>4. QED
    BY <2>1, <2>2, <2>3 DEF Prescription
<1>2. QED
  BY <1>1, EpisodeInvariant, PTL

\* The history claims a change of data only with an approval and a passed
\* verification behind it, and an answer is never given before its entry.
THEOREM HistoryIsTrue == Spec => []HistoryTellsTruth
<1>1. EpisodeInv => HistoryTellsTruth
  BY DEF EpisodeInv
<1>2. QED
  BY <1>1, EpisodeInvariant, PTL

\* The Postgres mirror only ever lags behind the JSON history.
THEOREM MirrorLags == Spec => []MirrorFollows
<1>1. EpisodeInv => MirrorFollows
  BY DEF EpisodeInv
<1>2. QED
  BY <1>1, EpisodeInvariant, PTL

=============================================================================
