------------------------- MODULE CsvRepairWorkflow --------------------------
(***************************************************************************)
(* The Tier 1 CSV repair StateGraph (csv_repair_workflow.py): sample,      *)
(* diagnose, let an LLM propose a prescription, force the fields a         *)
(* deterministic detector knows, validate, ask a human, apply, reverify,   *)
(* and go round again a bounded number of times.                           *)
(*                                                                         *)
(* A node of the graph is an action; its conditional edges are the value   *)
(* it gives to `node'.  The source file is what the detector reports of    *)
(* it; the repaired output is the prescription that produced it and the    *)
(* attempt that wrote it.                                                  *)
(***************************************************************************)
EXTENDS Integers, FiniteSets, DetectorReport

CONSTANTS
  MaxRetries,       \* state["max_retries"]
  RecursionLimits,  \* bounds on the supersteps of one invoke
  Sources,          \* source files, as the detector sees them
  Proposals,        \* what CsvRepairProposalPort.propose may return
  Previous,         \* a repaired output an earlier invocation left behind
  Ill               \* a field that is ill-typed, or missing though required

\* The dict the LLM answers with: any field may be wrong, and a key that
\* CsvRepairParams does not have (`extra') makes it invalid as a whole.  An
\* empty dict is the provider's answer to any failed request.
RawProposals ==
  [delimiter : Delimiters \cup {Ill}, encoding : Encodings \cup {Ill},
   header_row : HeaderRows \cup {Ill},
   mixed_delimiter_rows : SUBSET RowRepairs, extra : BOOLEAN]

ASSUME ConstantAssumption ==
  /\ MaxRetries \in Nat
  /\ RecursionLimits \subseteq Nat

\* What one successful apply leaves on disk.
Writes == [attempt : Nat, params : Prescriptions]
Results == [success : BOOLEAN, applied : BOOLEAN, prescription : Prescriptions]

ASSUME MarkerAssumption ==
  /\ None \notin Nat /\ None \notin Encodings /\ None \notin FailureClasses
  /\ None \notin Prescriptions /\ None \notin Writes /\ None \notin RawProposals
  /\ None \notin Results
  /\ Previous \notin Writes
  /\ Ill \notin Delimiters /\ Ill \notin Encodings /\ Ill \notin HeaderRows

ASSUME SourceAssumption ==
  /\ Sources \subseteq SourceFiles
  /\ \A s \in Sources : DetectorConsistent(s)

ASSUME ProposalAssumption == Proposals \subseteq RawProposals
-----------------------------------------------------------------------------
VARIABLES
  node,                \* the node LangGraph runs next
  steps,               \* supersteps used so far
  wiring,              \* what the graph was built and invoked with
  source,              \* the source file, never written
  failure_class, failure_classes,
  proposed_params, validated_params,
  human_approved,      \* "unset", "approved" or "rejected"
  repair_result, output_path,
  verification_result, \* "unset", "passed" or "failed"
  retry_count, status,
  disk,                \* what repaired/<name> holds
  executors,           \* history: who wrote that, whose verify() passed last
  approvals,           \* history: what the human said yes to, and when
  stamp                \* history: the attempt in which a node last ran

graphVars == <<node, steps>>
diagnosisVars == <<wiring, source, failure_class, failure_classes>>
repairVars == <<repair_result, output_path, disk, executors>>
vars == <<graphVars, diagnosisVars, proposed_params, validated_params,
          human_approved, repairVars, verification_result, retry_count, status,
          approvals, stamp>>

Terminal == {"END", "recursion_error", "aborted"}
Nodes == {"prepare_sample_call", "sample_tool", "extract_sample", "diagnose",
          "propose", "validate", "human_approval", "apply", "reverify",
          "increment_retry", "set_success", "set_failure", "set_rejected"}
Stamped == {"propose", "validate", "human_approval", "apply", "reverify"}
Never == -1
\* The optional ports of the graph, and LangGraph's bound on its supersteps.
Wirings ==
  [approval_port : BOOLEAN, mixed_delimiter_executor : BOOLEAN,
   recursion_limit : RecursionLimits]
RepairedPath == "repaired"
\* The whole-file executor and the row executor.
Executors == {"pandas", "mixed"}

TypeOK ==
  /\ node \in Nodes \cup Terminal
  /\ wiring \in Wirings
  /\ steps \in 0..wiring.recursion_limit
  /\ source \in Sources
  /\ failure_class \in FailureClasses \cup {None}
  /\ failure_classes \in SUBSET FailureClasses
  /\ proposed_params \in RawProposals \cup {None}
  /\ validated_params \in Prescriptions \cup {None}
  /\ human_approved \in {"unset", "approved", "rejected"}
  /\ repair_result \in Results \cup {None}
  /\ output_path \in {RepairedPath, None}
  /\ verification_result \in {"unset", "passed", "failed"}
  /\ retry_count \in 0..MaxRetries
  /\ status \in {"pending", "succeeded", "failed", "rejected"}
  /\ disk \in Writes \cup {None, Previous}
  /\ executors \in [wrote : Executors \cup {None}, verified : Executors \cup {None}]
  /\ approvals \in SUBSET Writes
  /\ stamp \in [Stamped -> (0..MaxRetries) \cup {Never}]

Init ==
  /\ node = "prepare_sample_call"
  /\ steps = 0
  /\ wiring \in Wirings
  /\ source \in Sources
  /\ failure_class = None
  /\ failure_classes = {}
  /\ proposed_params = None
  /\ validated_params = None
  /\ human_approved = "unset"
  /\ repair_result = None
  /\ output_path = None
  /\ verification_result = "unset"
  /\ retry_count = 0
  /\ status = "pending"
  /\ disk \in {None, Previous}
  /\ executors = [wrote |-> None, verified |-> None]
  /\ approvals = {}
  /\ stamp = [n \in Stamped |-> Never]
-----------------------------------------------------------------------------
(***************************************************************************)
(* Running the graph.                                                      *)
(***************************************************************************)

\* LangGraph executes node `from' as one superstep, then follows its edge.
Run(from, to) ==
  /\ node = from
  /\ steps < wiring.recursion_limit
  /\ steps' = steps + 1
  /\ node' = to

\* The superstep budget is spent before the graph reached END: invoke raises.
OutOfSteps ==
  /\ node \notin Terminal
  /\ steps = wiring.recursion_limit
  /\ node' = "recursion_error"
  /\ UNCHANGED <<steps, diagnosisVars, proposed_params, validated_params,
                 human_approved, repairVars, verification_result, retry_count,
                 status, approvals, stamp>>

\* The last attempt in which node n ran is this one.
RanNow(n) == stamp' = [stamp EXCEPT ![n] = retry_count]

\* Mutant: one retry too many, a test of <= for <.
RetryOrFailInclusive ==
  IF retry_count <= MaxRetries THEN "increment_retry" ELSE "set_failure"

\* Shared tail of _route_after_validation and _route_after_verification.
RetryOrFail ==
  IF retry_count < MaxRetries THEN "increment_retry" ELSE "set_failure"

\* prepare_sample_call -> sample_tool -> extract_sample -> diagnose.  The
\* sample only ever becomes part of the LLM's prompt.
Sample ==
  /\ \/ Run("prepare_sample_call", "sample_tool")
     \/ Run("sample_tool", "extract_sample")
     \/ Run("extract_sample", "diagnose")
  /\ UNCHANGED <<diagnosisVars, proposed_params, validated_params,
                 human_approved, repairVars, verification_result, retry_count,
                 status, approvals, stamp>>

Diagnose ==
  /\ Run("diagnose", IF source.primary # None THEN "propose" ELSE "set_success")
  /\ failure_class' = source.primary
  /\ failure_classes' = source.classes
  /\ UNCHANGED <<wiring, source, proposed_params, validated_params, human_approved,
                 repairVars, verification_result, retry_count, status,
                 approvals, stamp>>
-----------------------------------------------------------------------------
(***************************************************************************)
(* propose: the LLM's answer, then the fields that are never its to guess. *)
(***************************************************************************)
Propose ==
  /\ Run("propose", "validate")
  /\ \E raw \in Proposals : proposed_params' = ForceEvidence(raw, failure_classes, source)
  /\ RanNow("propose")
  /\ UNCHANGED <<diagnosisVars, validated_params, human_approved, repairVars,
                 verification_result, retry_count, status, approvals>>
-----------------------------------------------------------------------------
WellFormed(raw) ==
  /\ raw.delimiter # Ill
  /\ raw.encoding # Ill
  /\ raw.header_row # Ill
  /\ ~raw.extra

AsPrescription(raw) ==
  [delimiter |-> raw.delimiter, encoding |-> raw.encoding,
   header_row |-> raw.header_row,
   mixed_delimiter_rows |-> raw.mixed_delimiter_rows]

\* Mutant: an approval, once given, is remembered: the edge validate -> apply
\* that the graph declares but never takes.
ValidRouteRemembersApproval ==
  IF human_approved = "approved" THEN "apply" ELSE "human_approval"

\* Where _route_after_validation sends a valid proposal.
ValidRoute == "human_approval"

\* _validate and _route_after_validation.
Validate ==
  /\ \/ /\ Run("validate", ValidRoute)
        /\ WellFormed(proposed_params)
        /\ validated_params' = AsPrescription(proposed_params)
     \/ /\ Run("validate", RetryOrFail)
        /\ ~WellFormed(proposed_params)
        /\ validated_params' = None
  /\ RanNow("validate")
  /\ UNCHANGED <<diagnosisVars, proposed_params, human_approved, repairVars,
                 verification_result, retry_count, status, approvals>>
-----------------------------------------------------------------------------
\* Mutant: a rejected proposal is sent back to the LLM for another try.
RejectedRouteRetries == RetryOrFail

\* Where _route_after_human_approval sends a rejection.
RejectedRoute == "set_rejected"

Approve ==
  /\ wiring.approval_port
  /\ Run("human_approval", "apply")
  /\ human_approved' = "approved"
  /\ approvals' = approvals \cup
       {[attempt |-> retry_count, params |-> validated_params]}
  /\ RanNow("human_approval")
  /\ UNCHANGED <<diagnosisVars, proposed_params, validated_params, repairVars,
                 verification_result, retry_count, status>>

\* Mutant: with nobody to ask, carry on.
NoPortApproves ==
  /\ Run("human_approval", IF wiring.approval_port THEN RejectedRoute ELSE "apply")
  /\ human_approved' = IF wiring.approval_port THEN "rejected" ELSE "approved"
  /\ RanNow("human_approval")
  /\ UNCHANGED <<diagnosisVars, proposed_params, validated_params, repairVars,
                 verification_result, retry_count, status, approvals>>

\* The human says no, or there is no approval port and nobody is asked.
Reject ==
  /\ Run("human_approval", RejectedRoute)
  /\ human_approved' = "rejected"
  /\ RanNow("human_approval")
  /\ UNCHANGED <<diagnosisVars, proposed_params, validated_params, repairVars,
                 verification_result, retry_count, status, approvals>>

\* Ctrl-C or end of input at the prompt: click raises Abort out of the graph.
AbortPrompt ==
  /\ wiring.approval_port
  /\ node = "human_approval"
  /\ steps < wiring.recursion_limit
  /\ node' = "aborted"
  /\ UNCHANGED <<steps, diagnosisVars, proposed_params, validated_params,
                 human_approved, repairVars, verification_result, retry_count,
                 status, approvals, stamp>>
-----------------------------------------------------------------------------
\* Mutant: the executor goes by the primary failure class, not by what the
\* prescription holds.
SelectExecutorByFailure(p) ==
  IF failure_class # "mixed_delimiter" THEN "pandas"
  ELSE IF wiring.mixed_delimiter_executor THEN "mixed" ELSE "missing"

\* _select_executor; "missing" is its fail-safe outcome.
SelectExecutor(p) ==
  IF p.mixed_delimiter_rows = {} THEN "pandas"
  ELSE IF wiring.mixed_delimiter_executor THEN "mixed" ELSE "missing"

\* Both executors decode strictly: what the detector found not to be UTF-8 cannot
\* be read as UTF-8.
Readable(p) == "wrong_encoding" \in source.classes => p.encoding # "utf-8"

\* execute() replaced the output atomically with the repaired file.
ApplySucceeds ==
  /\ SelectExecutor(validated_params) # "missing"
  /\ Readable(validated_params)
  /\ repair_result' = [success |-> TRUE, applied |-> TRUE,
                       prescription |-> validated_params]
  /\ output_path' = RepairedPath
  /\ disk' = [attempt |-> retry_count, params |-> validated_params]
  /\ executors' = [executors EXCEPT !.wrote = SelectExecutor(validated_params)]

\* Mutant: a failed attempt leaves the previous attempt's output_path in place.
ApplyFailsKeepsPath ==
  /\ repair_result' = [success |-> FALSE, applied |-> FALSE,
                       prescription |-> validated_params]
  /\ output_path' = output_path
  /\ UNCHANGED <<disk, executors>>

\* Any read, shape, collision or write failure: the output is untouched.
ApplyFails ==
  /\ repair_result' = [success |-> FALSE, applied |-> FALSE,
                       prescription |-> validated_params]
  /\ output_path' = None
  /\ UNCHANGED <<disk, executors>>

Apply ==
  /\ Run("apply", "reverify")
  /\ ApplySucceeds \/ ApplyFails
  /\ RanNow("apply")
  /\ UNCHANGED <<diagnosisVars, proposed_params, validated_params,
                 human_approved, verification_result, retry_count, status,
                 approvals>>

\* verify() may pass only over an output this attempt reported.
Verifiable ==
  output_path # None /\ SelectExecutor(validated_params) # "missing"

Reverify ==
  /\ \/ /\ Run("reverify", "set_success")
        /\ Verifiable
        /\ verification_result' = "passed"
        /\ executors' = [executors EXCEPT !.verified = SelectExecutor(validated_params)]
     \/ /\ Run("reverify", RetryOrFail)
        /\ verification_result' = "failed"
        /\ UNCHANGED executors
  /\ RanNow("reverify")
  /\ UNCHANGED <<diagnosisVars, proposed_params, validated_params,
                 human_approved, repair_result, output_path, disk, retry_count,
                 status, approvals>>
-----------------------------------------------------------------------------
\* Mutant: the counter is never advanced.
IncrementRetryForgets ==
  /\ Run("increment_retry", "propose")
  /\ UNCHANGED <<diagnosisVars, proposed_params, validated_params,
                 human_approved, repairVars, verification_result, retry_count,
                 status, approvals, stamp>>

\* Nothing but the counter is reset: approval, result and verification of the
\* attempt that failed stay in the state.
IncrementRetry ==
  /\ Run("increment_retry", "propose")
  /\ retry_count' = retry_count + 1
  /\ UNCHANGED <<diagnosisVars, proposed_params, validated_params,
                 human_approved, repairVars, verification_result, status,
                 approvals, stamp>>

Conclude ==
  /\ \/ Run("set_success", "END") /\ status' = "succeeded"
     \/ Run("set_failure", "END") /\ status' = "failed"
     \/ Run("set_rejected", "END") /\ status' = "rejected"
  /\ UNCHANGED <<diagnosisVars, proposed_params, validated_params,
                 human_approved, repairVars, verification_result, retry_count,
                 approvals, stamp>>

\* What the graph does without waiting for anyone outside it.
GraphStep ==
  \/ Sample \/ Diagnose \/ Propose \/ Validate \/ Apply \/ Reverify
  \/ IncrementRetry \/ Conclude \/ OutOfSteps

HumanStep == Approve \/ Reject \/ AbortPrompt

Next == GraphStep \/ HumanStep

Spec == Init /\ [][Next]_vars

\* A compiled graph runs its next node as soon as the last one returned; only
\* the human may keep it waiting.
FairSpec == Spec /\ WF_vars(GraphStep)
-----------------------------------------------------------------------------
(***************************************************************************)
(* Properties.                                                             *)
(***************************************************************************)

\* Whatever this run put under repaired/ is the result of a prescription the
\* human said yes to, field for field, in the attempt that wrote it.  Approval
\* state outlives a retry (human_approved is never reset), so nothing but the
\* routing keeps an old yes from covering a new prescription.
WritesApproved == disk \notin {None, Previous} => disk \in approvals

\* A repair reported as succeeded stands on the output of its last attempt:
\* proposed, validated, approved, applied and reverified in that attempt, and
\* still what is on disk.  No earlier attempt's output, result or passed
\* check can stand in for it.
SuccessIsVerified ==
  status = "succeeded" /\ failure_class # None =>
    /\ disk = [attempt |-> retry_count, params |-> validated_params]
    /\ disk \in approvals
    /\ repair_result = [success |-> TRUE, applied |-> TRUE,
                         prescription |-> validated_params]
    /\ \A n \in Stamped : stamp[n] = retry_count

\* A no is final: after it the LLM is not asked again, the human is not asked
\* again, and the output stays what it was.
RejectionIsFinal ==
  [][human_approved = "rejected" => UNCHANGED <<disk, approvals, stamp>>]_vars

\* What a human approves is the detector's evidence, never the LLM's guess, on
\* every dimension the detector has evidence for and whatever the combination
\* of failures: one forced field never undoes another.
EvidenceDecides ==
  \A a \in approvals : DecidedByEvidence(a.params, source)

\* What a prescription holds decides who acts on it, in apply and again in
\* reverify, whatever failure was diagnosed first and whatever earlier attempts
\* prescribed.  Output made from row repairs was written by the executor that
\* knows about rows, any other by the whole-file executor, which would drop
\* them without a word; a success was verified by the one that wrote it; and
\* row evidence the detector had is in what a successful repair wrote.
RightExecutor ==
  /\ disk \notin {None, Previous} =>
       executors.wrote =
         IF disk.params.mixed_delimiter_rows # {} THEN "mixed" ELSE "pandas"
  /\ status = "succeeded" /\ failure_class # None =>
       /\ executors.verified = executors.wrote
       /\ "mixed_delimiter" \in source.classes /\ source.mixed_rows # {} =>
            /\ executors.wrote = "mixed"
            /\ disk.params.mixed_delimiter_rows = source.mixed_rows

\* The longest run: four nodes before the first proposal, six per retry, five
\* for the last attempt and one to conclude.
LongestRun == 10 + 6 * MaxRetries

\* LangGraph gives up on the bounded retry loop only where its superstep budget
\* is shorter than the longest run.
NeverOutOfSteps ==
  node = "recursion_error" => wiring.recursion_limit < LongestRun

\* If the human answers every prompt and the superstep budget suffices, the run
\* ends: with a verdict, or because the human left at the prompt.  Neither an
\* LLM that never answers well nor a repair that never verifies keeps it going.
Termination ==
  WF_vars(HumanStep) /\ wiring.recursion_limit >= LongestRun
    => <>(node \in {"END", "aborted"})

\* The approval gate's view of a state.
GateStage ==
  CASE node = "human_approval" -> "asking"
    [] node = "apply" -> "granted"
    [] node \notin {"human_approval", "apply"} /\ human_approved = "rejected"
         -> "refused"
    [] node \in Terminal /\ human_approved # "rejected" -> "closed"
    [] OTHER -> "drafting"

GateSubmitted ==
  IF node \in {"human_approval", "apply"} THEN validated_params ELSE None

GateArtifact == IF disk \in {None, Previous} THEN None ELSE disk.params

Gate == INSTANCE ApprovalGate WITH
  NoPrescription <- None, stage <- GateStage, submitted <- GateSubmitted,
  artifact <- GateArtifact

\* Seen from outside, every run is a conversation of the approval gate: asking,
\* granting, one attempt per grant, and nothing written any other way.
ImplementsGate == Gate!Spec

\* The prescription's own documentation: row repairs are populated "never by
\* the LLM".  What this run has written holds no others.
RowsComeFromDetector ==
  disk \notin {None, Previous} =>
    disk.params.mixed_delimiter_rows \subseteq source.mixed_rows \cup source.garbled_row
=============================================================================
