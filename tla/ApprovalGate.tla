---------------------------- MODULE ApprovalGate ----------------------------
(***************************************************************************)
(* What the repair pipeline promises about human approval, with nothing    *)
(* said about how prescriptions are found, retried or checked.  A drafter  *)
(* submits a prescription; a human grants or refuses that very             *)
(* prescription; a grant is good for one attempt to write, which either    *)
(* replaces the whole artifact by the granted prescription's result or     *)
(* leaves it alone; a refusal ends the matter.                             *)
(*                                                                         *)
(* The detailed workflow is shown to implement this specification, see     *)
(* CsvRepairWorkflow!Gate.                                                 *)
(***************************************************************************)
CONSTANTS
  Prescriptions,  \* what may be submitted
  NoPrescription  \* stands for "nothing submitted" and "nothing written"

VARIABLES
  stage,     \* where the conversation with the human stands
  submitted, \* the prescription the human is looking at, or has granted
  artifact   \* the prescription whose result was last written

gateVars == <<stage, submitted, artifact>>

Stages == {"drafting", "asking", "granted", "refused", "closed"}

GateTypeOK ==
  /\ stage \in Stages
  /\ submitted \in Prescriptions \cup {NoPrescription}
  /\ artifact \in Prescriptions \cup {NoPrescription}

Init ==
  /\ stage = "drafting"
  /\ submitted = NoPrescription
  /\ artifact = NoPrescription

Submit ==
  /\ stage = "drafting"
  /\ stage' = "asking"
  /\ submitted' \in Prescriptions
  /\ UNCHANGED artifact

Grant ==
  /\ stage = "asking"
  /\ stage' = "granted"
  /\ UNCHANGED <<submitted, artifact>>

Refuse ==
  /\ stage = "asking"
  /\ stage' = "refused"
  /\ submitted' = NoPrescription
  /\ UNCHANGED artifact

\* A granted attempt is spent whether or not it wrote anything.
Attempt ==
  /\ stage = "granted"
  /\ stage' = "drafting"
  /\ submitted' = NoPrescription
  /\ artifact' \in {artifact, submitted}

\* The drafter gives up or is done; a question left unanswered, or a grant
\* never used, is void.
Close ==
  /\ stage \in {"drafting", "asking", "granted"}
  /\ stage' = "closed"
  /\ submitted' = NoPrescription
  /\ UNCHANGED artifact

Next == Submit \/ Grant \/ Refuse \/ Attempt \/ Close

Spec == Init /\ [][Next]_gateVars
=============================================================================
