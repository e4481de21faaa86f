---------------------- MODULE CsvRepairWorkflow_proofs ----------------------
(***************************************************************************)
(* Proofs about the Tier 1 workflow, for every retry bound, superstep      *)
(* budget, wiring, source file and LLM.                                    *)
(***************************************************************************)
EXTENDS CsvRepairWorkflow, TLAPS

\* What the graph's edges guarantee when a node starts: the facts its asserts
\* and comments rely on ("guaranteed by _route_after_validation").
Flow ==
  /\ node = "validate" => proposed_params \in RawProposals
  /\ node \in {"human_approval", "apply", "reverify"}
        => validated_params \in Prescriptions
  /\ node = "increment_retry" => retry_count < MaxRetries

\* Forcing evidence into a raw proposal leaves a raw proposal.
LEMMA ForceTyped ==
  ASSUME NEW raw \in RawProposals, source \in Sources
  PROVE  ForceEvidence(raw, failure_classes, source) \in RawProposals
<1> USE SourceAssumption DEF RawProposals, SourceFiles, HeaderRows
<1>1. ForceEncoding(raw, failure_classes, source) \in RawProposals
  BY DEF ForceEncoding
<1>2. ASSUME NEW r \in RawProposals
      PROVE  ForceMixedRows(r, failure_classes, source) \in RawProposals
  BY <1>2 DEF ForceMixedRows
<1>3. ASSUME NEW r \in RawProposals
      PROVE  ForceHeaderOffset(r, failure_classes, source) \in RawProposals
  BY <1>3 DEF ForceHeaderOffset
<1>4. ASSUME NEW r \in RawProposals
      PROVE  ForceGarbledHeader(r, failure_classes, source) \in RawProposals
  BY <1>4 DEF ForceGarbledHeader
<1>5. ASSUME NEW r \in RawProposals
      PROVE  ForceNoHeader(r, failure_classes, source) \in RawProposals
  BY <1>5 DEF ForceNoHeader
<1> HIDE SourceAssumption DEF RawProposals, SourceFiles, HeaderRows
<1>6. QED
  BY <1>1, <1>2, <1>3, <1>4, <1>5 DEF ForceEvidence

\* A well-formed raw proposal becomes a prescription.
LEMMA WellFormedTyped ==
  ASSUME NEW raw \in RawProposals, WellFormed(raw)
  PROVE  AsPrescription(raw) \in Prescriptions
BY MarkerAssumption DEF RawProposals, WellFormed, AsPrescription, Prescriptions

\* Every step from a well-typed state in which every node has what it needs
\* leads to another one.
LEMMA TypeStep ==
  ASSUME TypeOK, Flow, [Next]_vars
  PROVE  TypeOK' /\ Flow'
<1> USE ConstantAssumption
<1>a. ASSUME NEW w \in Wirings PROVE w.recursion_limit \in Nat
  BY DEF Wirings
<1>0. wiring.recursion_limit \in Nat
  BY <1>a DEF TypeOK
<1> USE <1>0 DEF TypeOK, Flow, Nodes, Terminal
<1>1. CASE Sample
  BY <1>1 DEF Sample, Run, diagnosisVars, repairVars
<1>2. CASE Diagnose
  BY <1>2, SourceAssumption DEF Diagnose, Run, SourceFiles, repairVars
<1>3. CASE Propose
  <2>1. PICK raw \in Proposals :
          proposed_params' = ForceEvidence(raw, failure_classes, source)
    BY <1>3 DEF Propose
  <2>2. proposed_params' \in RawProposals
    BY <2>1, ForceTyped, ProposalAssumption
  <2>3. stamp' \in [Stamped -> (0..MaxRetries) \cup {Never}]
    BY <1>3 DEF Propose, RanNow
  <2>4. QED
    BY <1>3, <2>2, <2>3 DEF Propose, Run, diagnosisVars, repairVars
<1>4. CASE Validate
  <2>1. stamp' \in [Stamped -> (0..MaxRetries) \cup {Never}]
    BY <1>4 DEF Validate, RanNow
  <2>2. CASE WellFormed(proposed_params)
    BY <1>4, <2>1, <2>2, WellFormedTyped
    DEF Validate, Run, ValidRoute, diagnosisVars, repairVars
  <2>3. CASE ~WellFormed(proposed_params)
    BY <1>4, <2>1, <2>3
    DEF Validate, Run, RetryOrFail, diagnosisVars, repairVars
  <2>4. QED
    BY <2>2, <2>3
<1>5. CASE Apply
  <2>1. stamp' \in [Stamped -> (0..MaxRetries) \cup {Never}]
    BY <1>5 DEF Apply, RanNow
  <2>2. /\ repair_result' \in Results \cup {None}
        /\ output_path' \in {RepairedPath, None}
        /\ disk' \in Writes \cup {None, Previous}
        /\ executors' \in [wrote : Executors \cup {None},
                           verified : Executors \cup {None}]
    <3>1. validated_params \in Prescriptions
      BY <1>5 DEF Apply, Run
    <3>2. CASE ApplySucceeds
      BY <3>1, <3>2 DEF ApplySucceeds, SelectExecutor, Executors, Results, Writes
    <3>3. CASE ApplyFails
      BY <3>1, <3>3 DEF ApplyFails, Results
    <3>4. QED
      BY <1>5, <3>2, <3>3 DEF Apply
  <2>3. QED
    BY <1>5, <2>1, <2>2 DEF Apply, Run, diagnosisVars
<1>6. CASE Reverify
  <2>1. stamp' \in [Stamped -> (0..MaxRetries) \cup {Never}]
    BY <1>6 DEF Reverify, RanNow
  <2>2. executors' \in [wrote : Executors \cup {None},
                        verified : Executors \cup {None}]
    BY <1>6 DEF Reverify, Verifiable, SelectExecutor, Executors
  <2>3. QED
    BY <1>6, <2>1, <2>2 DEF Reverify, Run, RetryOrFail, diagnosisVars
<1>7. CASE IncrementRetry
  BY <1>7 DEF IncrementRetry, Run, diagnosisVars, repairVars
<1>8. CASE Conclude
  BY <1>8 DEF Conclude, Run, diagnosisVars, repairVars
<1>9. CASE OutOfSteps
  BY <1>9 DEF OutOfSteps, diagnosisVars, repairVars
<1>10. CASE Approve
  <2>1. stamp' \in [Stamped -> (0..MaxRetries) \cup {Never}]
    BY <1>10 DEF Approve, RanNow
  <2>2. approvals' \in SUBSET Writes
    BY <1>10 DEF Approve, Run, Writes
  <2>3. QED
    BY <1>10, <2>1, <2>2 DEF Approve, Run, diagnosisVars, repairVars
<1>11. CASE Reject
  <2>1. stamp' \in [Stamped -> (0..MaxRetries) \cup {Never}]
    BY <1>11 DEF Reject, RanNow
  <2>2. QED
    BY <1>11, <2>1 DEF Reject, Run, RejectedRoute, diagnosisVars, repairVars
<1>12. CASE AbortPrompt
  BY <1>12 DEF AbortPrompt, diagnosisVars, repairVars
<1>13. CASE UNCHANGED vars
  BY <1>13 DEF vars, graphVars, diagnosisVars, repairVars
<1>14. QED
  BY <1>1, <1>2, <1>3, <1>4, <1>5, <1>6, <1>7, <1>8, <1>9, <1>10, <1>11,
     <1>12, <1>13 DEF Next, GraphStep, HumanStep

\* The graph starts well typed.
LEMMA InitTyped == Init => TypeOK /\ Flow
<1> USE ConstantAssumption
<1>1. ASSUME NEW w \in Wirings PROVE w.recursion_limit \in Nat
  BY DEF Wirings
<1>2. QED
  BY <1>1, SourceAssumption DEF Init, TypeOK, Flow, Nodes, Terminal, Stamped

\* Every reachable state is well typed, and every node finds what it needs.
THEOREM TypeCorrect == Spec => [](TypeOK /\ Flow)
<1>1. TypeOK /\ Flow /\ [Next]_vars => (TypeOK /\ Flow)'
  BY TypeStep
<1>2. QED
  BY <1>1, InitTyped, PTL DEF Spec
-----------------------------------------------------------------------------
(***************************************************************************)
(* Approval and success.  The inductive invariant follows one attempt      *)
(* through the graph: at each node it says which nodes have already run in *)
(* this very attempt, and from apply on that this attempt's prescription   *)
(* is the one approved.  WritesApproved and SuccessIsVerified alone do not *)
(* survive a step: human_approved, repair_result and the rest keep their   *)
(* values across increment_retry.                                          *)
(***************************************************************************)
ThisAttempt == [attempt |-> retry_count, params |-> validated_params]

\* The last run of each of these nodes was in the current attempt.
RanInThisAttempt(S) == \A n \in S : stamp[n] = retry_count

\* What apply answers when it has written the validated prescription.
Applied == [success |-> TRUE, applied |-> TRUE, prescription |-> validated_params]

\* Where the graph is, and which of its nodes this very attempt has run.
Progress ==
  /\ node = "validate" => RanInThisAttempt({"propose"})
  /\ node = "human_approval" => RanInThisAttempt({"propose", "validate"})
  /\ node = "apply" =>
       /\ RanInThisAttempt({"propose", "validate", "human_approval"})
       /\ ThisAttempt \in approvals
  /\ node = "reverify" =>
       /\ RanInThisAttempt({"propose", "validate", "human_approval", "apply"})
       /\ ThisAttempt \in approvals
       /\ output_path # None => disk = ThisAttempt /\ repair_result = Applied
  /\ node = "set_success" /\ failure_class # None =>
       /\ RanInThisAttempt(Stamped)
       /\ ThisAttempt \in approvals
       /\ disk = ThisAttempt
       /\ repair_result = Applied
  /\ status # "pending" => node = "END"

\* The two properties and what makes them inductive.
ApprovalInv == WritesApproved /\ SuccessIsVerified /\ Progress

\* A step that leaves the attempt's record alone and moves to a node the record
\* says nothing about keeps the invariant.
LEMMA QuietStep ==
  ASSUME ApprovalInv, status = "pending",
         UNCHANGED <<disk, approvals, status>>,
         node' \notin {"validate", "human_approval", "apply", "reverify",
                       "set_success"}
  PROVE  ApprovalInv'
BY DEF ApprovalInv, WritesApproved, SuccessIsVerified, Progress

\* A step of the graph keeps the attempt's record straight.
LEMMA ApprovalStep ==
  ASSUME TypeOK, Flow, ApprovalInv, [Next]_vars
  PROVE  ApprovalInv'
<1> USE DEF Stamped, RanInThisAttempt, ThisAttempt, Applied
<1>a. ASSUME NEW n \in Stamped, RanNow(n)
      PROVE  /\ stamp'[n] = retry_count
             /\ \A m \in Stamped : m # n => stamp'[m] = stamp[m]
  BY <1>a DEF TypeOK, RanNow
<1>b. node # "END" => status = "pending"
  BY DEF ApprovalInv, Progress
<1>1. CASE Sample
  BY <1>1, <1>b, QuietStep DEF Sample, Run, repairVars
<1>2. CASE Diagnose
  <2>1. status = "pending"
    BY <1>2, <1>b DEF Diagnose, Run
  <2>2. QED
    BY <1>2, <2>1 DEF Diagnose, Run, ApprovalInv, WritesApproved,
       SuccessIsVerified, Progress, repairVars
<1>3. CASE Propose
  <2>1. stamp'["propose"] = retry_count
    BY <1>3, <1>a DEF Propose
  <2>2. QED
    BY <1>3, <2>1, <1>b DEF Propose, Run, ApprovalInv, WritesApproved,
       SuccessIsVerified, Progress, repairVars
<1>4. CASE Validate
  <2>1. /\ stamp'["validate"] = retry_count
        /\ stamp'["propose"] = stamp["propose"]
    BY <1>4, <1>a DEF Validate
  <2>2. stamp["propose"] = retry_count /\ status = "pending"
    BY <1>4, <1>b DEF Validate, Run, ApprovalInv, Progress
  <2>3. QED
    BY <1>4, <2>1, <2>2 DEF Validate, Run, ValidRoute, RetryOrFail,
       ApprovalInv, WritesApproved, SuccessIsVerified, Progress, repairVars
<1>5. CASE Apply
  <2>1. \A m \in {"propose", "validate", "human_approval", "apply"} :
          stamp'[m] = retry_count
    BY <1>5, <1>a DEF Apply, Run, ApprovalInv, Progress
  <2>2. /\ node' = "reverify" /\ status' = "pending"
        /\ UNCHANGED <<retry_count, validated_params, approvals>>
        /\ ThisAttempt \in approvals
    BY <1>5, <1>b DEF Apply, Run, ApprovalInv, Progress
  <2>3. /\ disk' = disk \/ disk' = ThisAttempt
        /\ output_path' # None => disk' = ThisAttempt /\ repair_result' = Applied
    BY <1>5 DEF Apply, ApplySucceeds, ApplyFails
  <2>4. WritesApproved'
    BY <2>2, <2>3 DEF ApprovalInv, WritesApproved
  <2>5. QED
    BY <2>1, <2>2, <2>3, <2>4 DEF ApprovalInv, SuccessIsVerified, Progress
<1>6. CASE Reverify
  <2>1. \A m \in Stamped : stamp'[m] = retry_count
    BY <1>6, <1>a DEF Reverify, Run, ApprovalInv, Progress
  <2>2. /\ ThisAttempt \in approvals /\ status = "pending"
        /\ output_path # None => disk = ThisAttempt /\ repair_result = Applied
    BY <1>6, <1>b DEF Reverify, Run, ApprovalInv, Progress
  <2>3. QED
    BY <1>6, <2>1, <2>2 DEF Reverify, Run, Verifiable, RetryOrFail,
       ApprovalInv, WritesApproved, SuccessIsVerified, Progress, repairVars
<1>7. CASE IncrementRetry
  <2>1. status = "pending"
    BY <1>7, <1>b DEF IncrementRetry, Run
  <2>2. QED
    BY <1>7, <2>1, QuietStep DEF IncrementRetry, Run, repairVars
<1>8. CASE Conclude
  BY <1>8, <1>b DEF Conclude, Run, ApprovalInv, WritesApproved,
     SuccessIsVerified, Progress, repairVars, diagnosisVars
<1>9. CASE OutOfSteps
  <2>1. status = "pending"
    BY <1>9, <1>b DEF OutOfSteps, Terminal
  <2>2. QED
    BY <1>9, <2>1, QuietStep DEF OutOfSteps, repairVars
<1>10. CASE Approve
  <2>1. \A m \in {"propose", "validate", "human_approval"} :
          stamp'[m] = retry_count
    BY <1>10, <1>a DEF Approve, Run, ApprovalInv, Progress
  <2>2. QED
    BY <1>10, <2>1, <1>b DEF Approve, Run, ApprovalInv, WritesApproved,
       SuccessIsVerified, Progress, repairVars
<1>11. CASE Reject
  <2>1. status = "pending"
    BY <1>11, <1>b DEF Reject, Run
  <2>2. QED
    BY <1>11, <2>1, QuietStep DEF Reject, Run, RejectedRoute, repairVars
<1>12. CASE AbortPrompt
  <2>1. status = "pending"
    BY <1>12, <1>b DEF AbortPrompt
  <2>2. QED
    BY <1>12, <2>1, QuietStep DEF AbortPrompt, repairVars
<1>13. CASE UNCHANGED vars
  BY <1>13 DEF vars, graphVars, diagnosisVars, repairVars, ApprovalInv,
     WritesApproved, SuccessIsVerified, Progress
<1>14. QED
  BY <1>1, <1>2, <1>3, <1>4, <1>5, <1>6, <1>7, <1>8, <1>9, <1>10, <1>11,
     <1>12, <1>13 DEF Next, GraphStep, HumanStep

\* Before anything ran there is nothing to approve.
LEMMA InitApproved == Init => ApprovalInv
BY DEF Init, ApprovalInv, WritesApproved, SuccessIsVerified, Progress

\* Approved before written, and verified before reported, in every run.
THEOREM ApprovalInvariant == Spec => []ApprovalInv
<1>1. TypeOK /\ Flow /\ ApprovalInv /\ [Next]_vars => ApprovalInv'
  BY ApprovalStep
<1>2. QED
  BY <1>1, InitApproved, TypeCorrect, PTL DEF Spec

\* No output without an approval of exactly what was written, in its attempt.
THEOREM Approved == Spec => []WritesApproved
BY ApprovalInvariant, PTL DEF ApprovalInv

\* A succeeded repair is its last attempt's, verified, and still on disk.
THEOREM Verified == Spec => []SuccessIsVerified
BY ApprovalInvariant, PTL DEF ApprovalInv
-----------------------------------------------------------------------------
(***************************************************************************)
(* Rejection.  Once the human has said no the graph is on its way out: the *)
(* only nodes left are set_rejected and END.                               *)
(***************************************************************************)
RejectedIsLeaving ==
  human_approved = "rejected" => node \in {"set_rejected"} \cup Terminal

\* No node after a rejection leads back into the repair.
THEOREM RejectionInvariant == Spec => []RejectedIsLeaving
<1>1. Init => RejectedIsLeaving
  BY DEF Init, RejectedIsLeaving
<1>2. RejectedIsLeaving /\ [Next]_vars => RejectedIsLeaving'
  <2> SUFFICES ASSUME RejectedIsLeaving, [Next]_vars PROVE RejectedIsLeaving'
    OBVIOUS
  <2> USE DEF RejectedIsLeaving, Run, Terminal
  <2>1. CASE Sample \/ Diagnose \/ Propose \/ Validate \/ Apply \/ Reverify
    BY <2>1 DEF Sample, Diagnose, Propose, Validate, Apply, Reverify
  <2>2. CASE IncrementRetry \/ Conclude \/ OutOfSteps
    BY <2>2 DEF IncrementRetry, Conclude, OutOfSteps
  <2>3. CASE HumanStep
    BY <2>3 DEF HumanStep, Approve, Reject, AbortPrompt, RejectedRoute
  <2>4. CASE UNCHANGED vars
    BY <2>4 DEF vars, graphVars
  <2>5. QED
    BY <2>1, <2>2, <2>3, <2>4 DEF Next, GraphStep
<1>3. QED
  BY <1>1, <1>2, PTL DEF Spec

\* After a no, nobody is asked again and nothing is written.
THEOREM NoMeansNo == Spec => RejectionIsFinal
<1>1. RejectedIsLeaving /\ [Next]_vars =>
        [human_approved = "rejected" => UNCHANGED <<disk, approvals, stamp>>]_vars
  <2> SUFFICES ASSUME RejectedIsLeaving, Next, human_approved = "rejected"
               PROVE  UNCHANGED <<disk, approvals, stamp>>
    OBVIOUS
  <2>1. node \in {"set_rejected", "END", "recursion_error", "aborted"}
    BY DEF RejectedIsLeaving, Terminal
  <2>2. QED
    BY <2>1
      DEF Next, GraphStep, HumanStep, Sample, Diagnose, Propose, Validate, 
       Apply, Reverify, IncrementRetry, Conclude, OutOfSteps, Approve, Reject,
       AbortPrompt, Run, repairVars
<1>2. QED
  BY <1>1, RejectionInvariant, PTL DEF Spec, RejectionIsFinal
-----------------------------------------------------------------------------
(***************************************************************************)
(* The superstep budget.  Each node has a position in an attempt, and an   *)
(* attempt costs six supersteps at most.                                   *)
(***************************************************************************)
Position ==
  [n \in Nodes |->
     CASE n = "prepare_sample_call" -> 0
       [] n = "sample_tool" -> 1
       [] n = "extract_sample" -> 2
       [] n = "diagnose" -> 3
       [] n = "propose" -> 4
       [] n = "validate" -> 5
       [] n = "human_approval" -> 6
       [] n = "apply" -> 7
       [] n = "reverify" -> 8
       [] OTHER -> 9]

\* Six steps per retry, and the position in the present attempt.
StepsBounded ==
  /\ node \in Nodes => steps <= 6 * retry_count + Position[node]
  /\ node = "recursion_error" => wiring.recursion_limit < LongestRun

\* Every step the graph takes is one of those.
THEOREM StepsInvariant == Spec => []StepsBounded
<1> USE ConstantAssumption DEF Wirings
<1>1. Init => StepsBounded
  BY DEF Init, StepsBounded, Position, Nodes
<1>2. TypeOK /\ Flow /\ StepsBounded /\ [Next]_vars => StepsBounded'
  <2> SUFFICES ASSUME TypeOK, Flow, StepsBounded, [Next]_vars
               PROVE  StepsBounded'
    OBVIOUS
  <2>a. steps \in Nat /\ retry_count \in Nat /\ retry_count <= MaxRetries
    BY DEF TypeOK
  <2> USE <2>a DEF StepsBounded, Position, Nodes, Terminal, Run
  <2>1. CASE Sample
    BY <2>1 DEF Sample
  <2>2. CASE Diagnose
    BY <2>2 DEF Diagnose
  <2>3. CASE Propose
    BY <2>3 DEF Propose
  <2>4. CASE Validate
    BY <2>4 DEF Validate, ValidRoute, RetryOrFail
  <2>5. CASE Apply
    BY <2>5 DEF Apply
  <2>6. CASE Reverify
    BY <2>6 DEF Reverify, RetryOrFail
  <2>7. CASE IncrementRetry
    BY <2>7 DEF IncrementRetry
  <2>8. CASE Conclude
    BY <2>8 DEF Conclude
  <2>9. CASE OutOfSteps
    <3>1. steps <= 6 * MaxRetries + 9
      BY <2>9 DEF OutOfSteps, TypeOK
    <3>2. wiring.recursion_limit < LongestRun
      BY <2>9, <3>1 DEF OutOfSteps, LongestRun
    <3>3. QED
      BY <2>9, <3>2 DEF OutOfSteps, LongestRun, diagnosisVars
  <2>10. CASE HumanStep
    BY <2>10 DEF HumanStep, Approve, Reject, AbortPrompt, RejectedRoute
  <2>11. CASE UNCHANGED vars
    BY <2>11 DEF vars, graphVars, diagnosisVars, LongestRun
  <2>12. QED
    BY <2>1, <2>2, <2>3, <2>4, <2>5, <2>6, <2>7, <2>8, <2>9, <2>10, <2>11
    DEF Next, GraphStep
<1>3. QED
  BY <1>1, <1>2, TypeCorrect, PTL DEF Spec

\* Ten supersteps and six more per allowed retry are always enough.
THEOREM BudgetSuffices == Spec => []NeverOutOfSteps
<1>1. StepsBounded => NeverOutOfSteps
  BY DEF StepsBounded, NeverOutOfSteps
<1>2. QED
  BY <1>1, StepsInvariant, PTL
-----------------------------------------------------------------------------
(***************************************************************************)
(* Evidence.  From diagnose on, failure_classes is what the detector says  *)
(* of the source; from propose on, the prescription carries its evidence.  *)
(***************************************************************************)

\* The five forced fields do not undo one another: the detector's early
\* returns keep the combinations apart that would.
LEMMA ForceDecides ==
  ASSUME NEW raw \in RawProposals, source \in Sources,
         failure_classes = source.classes
  PROVE  DecidedByEvidence(ForceEvidence(raw, failure_classes, source), source)
<1> DEFINE e == ForceEncoding(raw, failure_classes, source)
           m == ForceMixedRows(e, failure_classes, source)
           h == ForceHeaderOffset(m, failure_classes, source)
           g == ForceGarbledHeader(h, failure_classes, source)
           n == ForceNoHeader(g, failure_classes, source)
<1> USE DEF RawProposals
<1>1. /\ e \in [delimiter : Delimiters \cup {Ill}, encoding : {e.encoding},
                header_row : HeaderRows \cup {Ill},
                mixed_delimiter_rows : SUBSET RowRepairs, extra : BOOLEAN]
      /\ "wrong_encoding" \in source.classes /\ source.encoding # None
           => e.encoding = source.encoding
  BY DEF ForceEncoding
<1>2. /\ m.encoding = e.encoding
      /\ "mixed_delimiter" \in source.classes /\ source.mixed_rows # {}
           => /\ m.delimiter = source.delimiter
              /\ m.mixed_delimiter_rows = source.mixed_rows
      /\ m \in [delimiter : {m.delimiter}, encoding : {m.encoding},
                header_row : HeaderRows \cup {Ill},
                mixed_delimiter_rows : {m.mixed_delimiter_rows}, extra : BOOLEAN]
  BY <1>1 DEF ForceMixedRows
<1>3. /\ h.encoding = m.encoding /\ h.delimiter = m.delimiter
      /\ h.mixed_delimiter_rows = m.mixed_delimiter_rows
      /\ "header_detection" \in source.classes /\ source.header_offset # None
           => h.header_row = source.header_offset
      /\ h \in [delimiter : {h.delimiter}, encoding : {h.encoding},
                header_row : {h.header_row},
                mixed_delimiter_rows : {h.mixed_delimiter_rows}, extra : BOOLEAN]
  BY <1>2 DEF ForceHeaderOffset
<1>4. /\ g.encoding = h.encoding /\ g.header_row = h.header_row
      /\ "header_detection" \in source.classes /\ source.garbled_row # {}
           => /\ g.delimiter = source.delimiter
              /\ g.mixed_delimiter_rows = source.garbled_row
      /\ "header_detection" \notin source.classes
           => /\ g.delimiter = h.delimiter
              /\ g.mixed_delimiter_rows = h.mixed_delimiter_rows
      /\ g \in [delimiter : {g.delimiter}, encoding : {g.encoding},
                header_row : {g.header_row},
                mixed_delimiter_rows : {g.mixed_delimiter_rows}, extra : BOOLEAN]
  BY <1>3 DEF ForceGarbledHeader
<1>5. /\ n.encoding = g.encoding /\ n.delimiter = g.delimiter
      /\ n.mixed_delimiter_rows = g.mixed_delimiter_rows
      /\ "no_header" \in source.classes => n.header_row = None
      /\ "no_header" \notin source.classes => n.header_row = g.header_row
  BY <1>4 DEF ForceNoHeader
<1>6. DetectorConsistent(source)
  BY SourceAssumption
<1>7. n = ForceEvidence(raw, failure_classes, source)
  BY DEF ForceEvidence
<1> HIDE DEF e, m, h, g, n
<1>8. QED
  BY <1>1, <1>2, <1>3, <1>4, <1>5, <1>6, <1>7
  DEF DetectorConsistent, DecidedByEvidence

\* The nodes of the repair loop.
Working == {"propose", "validate", "human_approval", "apply", "reverify",
            "increment_retry"}

\* What is proposed carries the evidence, and keeps it while it is validated and
\* approved.
EvidenceInv ==
  /\ node \in Working => failure_classes = source.classes
  /\ node = "validate" => DecidedByEvidence(proposed_params, source)
  /\ node = "human_approval" => DecidedByEvidence(validated_params, source)
  /\ EvidenceDecides

\* Whatever the LLM answers, what the human approves is the evidence.
THEOREM EvidenceInvariant == Spec => []EvidenceInv
<1>1. Init => EvidenceInv
  BY DEF Init, EvidenceInv, EvidenceDecides, Working
<1>2. TypeOK /\ Flow /\ EvidenceInv /\ [Next]_vars => EvidenceInv'
  <2> SUFFICES ASSUME TypeOK, Flow, EvidenceInv, [Next]_vars
               PROVE  EvidenceInv'
    OBVIOUS
  <2> USE DEF EvidenceInv, EvidenceDecides, Working, Run
  <2>1. CASE Sample \/ Conclude \/ IncrementRetry \/ Apply \/ Reverify
    BY <2>1 DEF Sample, Conclude, IncrementRetry, Apply, Reverify, RetryOrFail,
       diagnosisVars
  <2>2. CASE Diagnose
    BY <2>2 DEF Diagnose
  <2>3. CASE Propose
    <3>1. PICK raw \in Proposals :
            proposed_params' = ForceEvidence(raw, failure_classes, source)
      BY <2>3 DEF Propose
    <3>2. DecidedByEvidence(ForceEvidence(raw, failure_classes, source), source)
      BY <2>3, ForceDecides, ProposalAssumption DEF Propose, TypeOK
    <3>3. QED
      BY <2>3, <3>1, <3>2 DEF Propose, diagnosisVars
  <2>4. CASE Validate
    <3>1. DecidedByEvidence(AsPrescription(proposed_params), source)
      BY <2>4 DEF Validate, DecidedByEvidence, AsPrescription
    <3>2. QED
      BY <2>4, <3>1 DEF Validate, ValidRoute, RetryOrFail, diagnosisVars
  <2>5. CASE Approve
    BY <2>5 DEF Approve, diagnosisVars
  <2>6. CASE Reject \/ AbortPrompt \/ OutOfSteps
    BY <2>6 DEF Reject, AbortPrompt, OutOfSteps, RejectedRoute, diagnosisVars
  <2>7. CASE UNCHANGED vars
    BY <2>7 DEF vars, graphVars, diagnosisVars
  <2>8. QED
    BY <2>1, <2>2, <2>3, <2>4, <2>5, <2>6, <2>7 DEF Next, GraphStep, HumanStep
<1>3. QED
  BY <1>1, <1>2, TypeCorrect, PTL DEF Spec

\* The property the runs check, for every set of source files and proposals.
THEOREM EvidenceAlwaysDecides == Spec => []EvidenceDecides
BY EvidenceInvariant, PTL DEF EvidenceInv
-----------------------------------------------------------------------------
(***************************************************************************)
(* Executors.  Clause one follows the output to the executor that wrote    *)
(* it; clause two needs the record of the attempt (ApprovalInv), by which  *)
(* reverify reads what this attempt's apply wrote; the row evidence of a   *)
(* success comes from the approval of it (EvidenceInv).                    *)
(***************************************************************************)
WriterOf(p) == IF p.mixed_delimiter_rows # {} THEN "mixed" ELSE "pandas"

ExecutorInv ==
  /\ disk \notin {None, Previous} => executors.wrote = WriterOf(disk.params)
  /\ (node = "set_success" \/ status = "succeeded") /\ failure_class # None =>
       executors.verified = executors.wrote

\* Apply and reverify choose the same executor for what one attempt prescribes.
LEMMA ExecutorStep ==
  ASSUME TypeOK, Flow, ApprovalInv, ExecutorInv, [Next]_vars
  PROVE  ExecutorInv'
<1> USE DEF Run
<1>b. node # "END" => status = "pending"
  BY DEF ApprovalInv, Progress
<1>1. CASE Apply
  <2>1. status' = "pending" /\ node' = "reverify"
    BY <1>1, <1>b DEF Apply
  <2>2. CASE ApplySucceeds
    <3>1. disk'.params = validated_params
      BY <2>2 DEF ApplySucceeds
    <3>2. executors'.wrote = SelectExecutor(validated_params)
      BY <2>2 DEF ApplySucceeds, TypeOK
    <3>3. SelectExecutor(validated_params) = WriterOf(validated_params)
      BY <2>2 DEF ApplySucceeds, SelectExecutor, WriterOf
    <3>4. QED
      BY <2>1, <3>1, <3>2, <3>3 DEF ExecutorInv
  <2>3. CASE ApplyFails
    BY <2>1, <2>3 DEF ApplyFails, ExecutorInv, WriterOf
  <2>4. QED
    BY <1>1, <2>2, <2>3 DEF Apply
<1>2. CASE Reverify
  <2>1. status' = "pending" /\ disk' = disk
    BY <1>2, <1>b DEF Reverify
  <2>2. CASE node' = "set_success"
    <3>1. Verifiable /\ executors' = [executors EXCEPT
                          !.verified = SelectExecutor(validated_params)]
      BY <1>2, <2>2 DEF Reverify, RetryOrFail
    <3>2. ThisAttempt \in Writes /\ disk = ThisAttempt
      BY <1>2, <3>1 DEF Reverify, Verifiable, ApprovalInv, Progress, TypeOK
    <3>3. executors.wrote = WriterOf(validated_params)
      BY <3>2, MarkerAssumption DEF ExecutorInv, ThisAttempt
    <3>4. SelectExecutor(validated_params) = WriterOf(validated_params)
      BY <3>1 DEF Verifiable, SelectExecutor, WriterOf
    <3>5. executors'.wrote = executors.wrote /\ executors'.verified = executors.wrote
      BY <3>1, <3>3, <3>4 DEF TypeOK
    <3>6. QED
      BY <2>1, <3>5 DEF ExecutorInv, WriterOf
  <2>3. CASE node' # "set_success"
    <3>1. executors' = executors
      BY <1>2, <2>3 DEF Reverify
    <3>2. QED
      BY <2>1, <2>3, <3>1 DEF ExecutorInv, WriterOf
  <2>4. QED
    BY <2>2, <2>3
<1>3. CASE Diagnose
  <2>1. status' = "pending" /\ UNCHANGED <<disk, executors>>
    BY <1>3, <1>b DEF Diagnose, repairVars
  <2>2. node' = "set_success" => failure_class' = None
    BY <1>3 DEF Diagnose
  <2>3. QED
    BY <2>1, <2>2 DEF ExecutorInv, WriterOf
<1>4. CASE Conclude
  BY <1>4, <1>b DEF Conclude, repairVars, diagnosisVars, ExecutorInv, WriterOf
<1>5. CASE Sample \/ Propose \/ Validate \/ IncrementRetry \/ OutOfSteps \/ HumanStep
  <2>1. UNCHANGED <<disk, executors, status, failure_class>>
    BY <1>5 DEF Sample, Propose, Validate, IncrementRetry, OutOfSteps, HumanStep,
       Approve, Reject, AbortPrompt, repairVars, diagnosisVars
  <2>2. node' # "set_success"
    BY <1>5 DEF Sample, Propose, Validate, ValidRoute, RetryOrFail, IncrementRetry,
       OutOfSteps, HumanStep, Approve, Reject, RejectedRoute, AbortPrompt
  <2>3. QED
    BY <2>1, <2>2 DEF ExecutorInv, WriterOf
<1>6. CASE UNCHANGED vars
  BY <1>6 DEF vars, graphVars, diagnosisVars, repairVars, ExecutorInv, WriterOf
<1>7. QED
  BY <1>1, <1>2, <1>3, <1>4, <1>5, <1>6 DEF Next, GraphStep

\* Before anything ran nothing was written.
LEMMA InitExecutors == Init => ExecutorInv
BY DEF Init, ExecutorInv

\* Every output was written by the executor its prescription calls for, every
\* success verified by the same, and no row evidence was lost on the way.
THEOREM RightExecutorActs == Spec => []RightExecutor
<1>1. TypeOK /\ Flow /\ ApprovalInv /\ ExecutorInv /\ [Next]_vars => ExecutorInv'
  BY ExecutorStep
<1>2. TypeOK /\ ApprovalInv /\ EvidenceInv /\ ExecutorInv => RightExecutor
  <2> SUFFICES ASSUME TypeOK, ApprovalInv, EvidenceInv, ExecutorInv
               PROVE  RightExecutor
    OBVIOUS
  <2>1. ASSUME status = "succeeded", failure_class # None,
               "mixed_delimiter" \in source.classes, source.mixed_rows # {}
        PROVE  /\ executors.wrote = "mixed"
               /\ disk.params.mixed_delimiter_rows = source.mixed_rows
    <3>1. disk \in approvals
      BY <2>1 DEF ApprovalInv, SuccessIsVerified
    <3>2. disk \notin {None, Previous}
      BY <3>1, MarkerAssumption DEF TypeOK
    <3>3. DecidedByEvidence(disk.params, source)
      BY <3>1 DEF EvidenceInv, EvidenceDecides
    <3>4. disk.params.mixed_delimiter_rows = source.mixed_rows
      BY <2>1, <3>3 DEF DecidedByEvidence
    <3>5. QED
      BY <2>1, <3>2, <3>4 DEF ExecutorInv, WriterOf
  <2>2. QED
    BY <2>1 DEF ExecutorInv, WriterOf, RightExecutor
<1>3. QED
  BY <1>1, <1>2, InitExecutors, TypeCorrect, ApprovalInvariant,
     EvidenceInvariant, PTL DEF Spec
-----------------------------------------------------------------------------
(***************************************************************************)
(* Refinement.  Asking, granting and refusing are the human's steps,       *)
(* spending a grant is apply, and closing is reaching a terminal node      *)
(* without a refusal; everything else is a stutter of the gate.            *)
(***************************************************************************)
THEOREM Refinement == Spec => ImplementsGate
<1>1. Init => Gate!Init
  BY DEF Init, Gate!Init, GateStage, GateSubmitted, GateArtifact, Terminal
<1>2. TypeOK /\ Flow /\ RejectedIsLeaving /\ [Next]_vars
        => [Gate!Next]_(Gate!gateVars)
  <2> SUFFICES ASSUME TypeOK, Flow, RejectedIsLeaving, [Next]_vars
               PROVE  Gate!Next \/ UNCHANGED <<GateStage, GateSubmitted, GateArtifact>>
    BY DEF Gate!gateVars
  <2> USE DEF Run, Terminal, RejectedIsLeaving
  <2>1. CASE Sample \/ Diagnose \/ Propose \/ IncrementRetry
    <3>1. UNCHANGED <<human_approved, disk>>
      BY <2>1 DEF Sample, Diagnose, Propose, IncrementRetry, repairVars
    <3>2. /\ node \notin {"human_approval", "apply"} \cup Terminal
          /\ node' \notin {"human_approval", "apply"} \cup Terminal
      BY <2>1 DEF Sample, Diagnose, Propose, IncrementRetry
    <3>3. QED
      BY <3>1, <3>2 DEF GateStage, GateSubmitted, GateArtifact
  <2>2. CASE Validate
    <3>1. UNCHANGED <<human_approved, disk>> /\ node = "validate"
      BY <2>2 DEF Validate, repairVars
    <3>2. CASE node' = "human_approval"
      <4>1. validated_params' \in Prescriptions
        BY <2>2, <3>2, WellFormedTyped DEF Validate, RetryOrFail, Flow
      <4>2. Gate!Submit
        BY <3>1, <3>2, <4>1
        DEF Gate!Submit, GateStage, GateSubmitted, GateArtifact
      <4>3. QED
        BY <4>2 DEF Gate!Next
    <3>3. CASE node' # "human_approval"
      <4>1. node' \in {"increment_retry", "set_failure"}
        BY <2>2, <3>3 DEF Validate, ValidRoute, RetryOrFail
      <4>2. QED
        BY <3>1, <4>1 DEF GateStage, GateSubmitted, GateArtifact
    <3>4. QED
      BY <3>2, <3>3
  <2>3. CASE Approve
    <3>1. Gate!Grant
      BY <2>3 DEF Approve, Gate!Grant, GateStage, GateSubmitted, GateArtifact,
         repairVars
    <3>2. QED
      BY <3>1 DEF Gate!Next
  <2>4. CASE Reject
    <3>1. Gate!Refuse
      BY <2>4 DEF Reject, RejectedRoute, Gate!Refuse, GateStage, GateSubmitted,
         GateArtifact, repairVars
    <3>2. QED
      BY <3>1 DEF Gate!Next
  <2>5. CASE Apply
    <3>1. /\ GateStage = "granted" /\ GateStage' = "drafting"
          /\ GateSubmitted = validated_params /\ GateSubmitted' = None
      BY <2>5 DEF Apply, GateStage, GateSubmitted
    <3>2. GateArtifact' \in {GateArtifact, validated_params}
      <4>1. CASE ApplySucceeds
        <5>1. validated_params \in Prescriptions /\ retry_count \in Nat
          BY <2>5, ConstantAssumption DEF Apply, Flow, TypeOK
        <5>2. disk' \in Writes /\ disk'.params = validated_params
          BY <4>1, <5>1 DEF ApplySucceeds, Writes
        <5>3. QED
          BY <5>2, MarkerAssumption DEF GateArtifact
      <4>2. CASE ApplyFails
        BY <4>2 DEF ApplyFails, GateArtifact
      <4>3. QED
        BY <2>5, <4>1, <4>2 DEF Apply
    <3>3. QED
      BY <3>1, <3>2 DEF Gate!Next, Gate!Attempt
  <2>6. CASE Reverify
    BY <2>6 DEF Reverify, RetryOrFail, GateStage, GateSubmitted, GateArtifact,
       repairVars
  <2>7. CASE Conclude \/ OutOfSteps \/ AbortPrompt
    <3>1. UNCHANGED <<human_approved, disk>> /\ node \notin Terminal
          /\ node' \in Terminal
      BY <2>7 DEF Conclude, OutOfSteps, AbortPrompt, repairVars
    <3>2. CASE human_approved = "rejected"
      BY <3>1, <3>2 DEF GateStage, GateSubmitted, GateArtifact
    <3>3. CASE human_approved # "rejected"
      BY <3>1, <3>3
        DEF Gate!Next, Gate!Close, GateStage, GateSubmitted, GateArtifact
    <3>4. QED
      BY <3>2, <3>3
  <2>8. CASE UNCHANGED vars
    BY <2>8
      DEF vars, graphVars, repairVars, GateStage, GateSubmitted, GateArtifact
  <2>9. QED
    BY <2>1, <2>2, <2>3, <2>4, <2>5, <2>6, <2>7, <2>8
    DEF Next, GraphStep, HumanStep
<1>3. QED
  BY <1>1, <1>2, TypeCorrect, RejectionInvariant, PTL
  DEF Spec, ImplementsGate, Gate!Spec
=============================================================================
