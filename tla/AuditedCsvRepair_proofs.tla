---------------------- MODULE AuditedCsvRepair_proofs -----------------------
(***************************************************************************)
(* The audit of record, for every run of the graph and every failure of    *)
(* the store and of MLflow.  The wrapper only reads the graph's state, so  *)
(* every theorem about the graph holds inside it; what is left to prove is *)
(* that the state it reads tells what happened, and that the record is     *)
(* written as that state says.                                             *)
(***************************************************************************)
EXTENDS AuditedCsvRepair, CsvRepairWorkflow_proofs, SequenceTheorems,
        FiniteSetTheorems

\* Whatever the wrapper does, the graph takes a step of its own or none.
LEMMA WrapperReads ==
  ASSUME [AuditNext]_auditedVars
  PROVE  [Next]_vars
<1>1. CASE GraphRuns
  BY <1>1 DEF GraphRuns
<1>2. CASE Recording
  BY <1>2 DEF Recording, StartSpan, InvokeRaises, InvokeReturns, StartRun,
     LogMetrics, EndRun, StoreReturns, StoreRaises
<1>3. CASE UNCHANGED auditedVars
  BY <1>3 DEF auditedVars
<1>4. QED
  BY <1>1, <1>2, <1>3 DEF AuditNext

\* The graph inside the wrapper is the graph.
THEOREM AuditRunsTheGraph == AuditSpec => Spec
<1>1. AuditInit => Init
  BY DEF AuditInit
<1>2. [AuditNext]_auditedVars => [Next]_vars
  BY WrapperReads
<1>3. QED
  BY <1>1, <1>2, PTL DEF AuditSpec, Spec
-----------------------------------------------------------------------------
(***************************************************************************)
(* What a state of the graph tells about its run.                          *)
(***************************************************************************)
Early == {"prepare_sample_call", "sample_tool", "extract_sample", "diagnose"}

\* A field is set exactly when its node has run, and says what became of it.
StateTells ==
  /\ proposed_params # None <=> stamp["propose"] # Never
  /\ human_approved # "unset" <=> stamp["human_approval"] # Never
  /\ repair_result # None <=> stamp["apply"] # Never
  /\ verification_result # "unset" <=> stamp["reverify"] # Never
  /\ repair_result # None /\ repair_result.success =>
       /\ disk \notin {None, Previous}
       /\ disk.params = repair_result.prescription
       /\ disk.attempt = stamp["apply"]
  /\ human_approved = "approved" =>
       \E a \in approvals : a.attempt = stamp["human_approval"]
  /\ node \notin Early \cup {"propose", "validate"} \cup (Terminal \ {"END"})
       /\ failure_class # None => stamp["validate"] # Never
  /\ node \in Early => failure_class = None
  /\ node = "END" => status # "pending"
  /\ failure_class = None =>
       /\ node \in Early \cup {"set_success", "END", "recursion_error"}
       /\ proposed_params = None /\ repair_result = None
       /\ human_approved = "unset"

\* What a state tells about its run, it tells after every further step.
LEMMA StateTellsStep ==
  ASSUME TypeOK, Flow, StateTells, [Next]_vars
  PROVE  StateTells'
<1> USE ConstantAssumption, MarkerAssumption
<1> USE DEF StateTells, Early, Terminal, Never
<1>a. ASSUME NEW n \in Stamped, RanNow(n)
      PROVE  /\ stamp'[n] = retry_count /\ retry_count # -1
             /\ \A m \in Stamped : m # n => stamp'[m] = stamp[m]
  BY <1>a DEF TypeOK, RanNow
<1>1. CASE Sample
  BY <1>1 DEF Sample, Run, diagnosisVars, repairVars
<1>2. CASE Diagnose
  BY <1>2 DEF Diagnose, Run, repairVars
<1>3. CASE Propose
  <2>1. PICK raw \in Proposals :
          proposed_params' = ForceEvidence(raw, failure_classes, source)
    BY <1>3 DEF Propose
  <2>2. proposed_params' \in RawProposals
    BY <2>1, ForceTyped, ProposalAssumption DEF TypeOK
  <2>3. /\ stamp'["propose"] # -1
        /\ \A m \in Stamped : m # "propose" => stamp'[m] = stamp[m]
    BY <1>3, <1>a DEF Propose, Stamped
  <2>4. QED
    BY <1>3, <2>2, <2>3 DEF Propose, Run, diagnosisVars, repairVars, Stamped
<1>4. CASE Validate
  <2>1. /\ stamp'["validate"] # -1
        /\ \A m \in Stamped : m # "validate" => stamp'[m] = stamp[m]
    BY <1>4, <1>a DEF Validate, Stamped
  <2>2. QED
    BY <1>4, <2>1 DEF Validate, Run, ValidRoute, RetryOrFail, diagnosisVars,
       repairVars, Stamped
<1>5. CASE Apply
  <2>1. /\ stamp'["apply"] = retry_count /\ retry_count # -1
        /\ \A m \in Stamped : m # "apply" => stamp'[m] = stamp[m]
    BY <1>5, <1>a DEF Apply, Stamped
  <2>2. validated_params \in Prescriptions
    BY <1>5 DEF Apply, Run, Flow
  <2>3. /\ repair_result' # None
        /\ repair_result'.success =>
             /\ disk' \notin {None, Previous}
             /\ disk'.params = repair_result'.prescription
             /\ disk'.attempt = retry_count
    <3>1. CASE ApplySucceeds
      <4>1. /\ disk' \in Writes /\ disk'.params = validated_params
            /\ disk'.attempt = retry_count
        BY <2>2, <3>1 DEF ApplySucceeds, Writes, TypeOK
      <4>2. repair_result'.prescription = validated_params
        BY <3>1 DEF ApplySucceeds
      <4>3. repair_result' \in Results
        BY <2>2, <3>1 DEF ApplySucceeds, Results
      <4>4. repair_result' # None /\ disk' \notin {None, Previous}
        BY <4>1, <4>3
      <4>5. QED
        BY <4>1, <4>2, <4>4
    <3>2. CASE ApplyFails
      <4>1. ~repair_result'.success
        BY <3>2 DEF ApplyFails
      <4>2. repair_result' \in Results
        BY <2>2, <3>2 DEF ApplyFails, Results
      <4>3. QED
        BY <4>1, <4>2
    <3>3. QED
      BY <1>5, <3>1, <3>2 DEF Apply
  <2>4. QED
    BY <1>5, <2>1, <2>3 DEF Apply, Run, diagnosisVars, Stamped
<1>6. CASE Reverify
  <2>1. /\ stamp'["reverify"] # -1
        /\ \A m \in Stamped : m # "reverify" => stamp'[m] = stamp[m]
    BY <1>6, <1>a DEF Reverify, Stamped
  <2>2. QED
    BY <1>6, <2>1 DEF Reverify, Run, RetryOrFail, diagnosisVars, repairVars,
       Stamped
<1>7. CASE IncrementRetry
  BY <1>7 DEF IncrementRetry, Run, diagnosisVars, repairVars
<1>8. CASE Conclude
  BY <1>8 DEF Conclude, Run, diagnosisVars, repairVars
<1>9. CASE OutOfSteps
  BY <1>9 DEF OutOfSteps, diagnosisVars, repairVars
<1>10. CASE Approve
  <2>1. /\ stamp'["human_approval"] = retry_count /\ retry_count # -1
        /\ \A m \in Stamped : m # "human_approval" => stamp'[m] = stamp[m]
    BY <1>10, <1>a DEF Approve, Stamped
  <2>2. \E a \in approvals' : a.attempt = stamp'["human_approval"]
    <3> DEFINE yes == [attempt |-> retry_count, params |-> validated_params]
    <3>1. yes \in approvals' /\ yes.attempt = retry_count
      BY <1>10 DEF Approve
    <3>2. QED
      BY <2>1, <3>1
  <2>3. QED
    BY <1>10, <2>1, <2>2 DEF Approve, Run, diagnosisVars, repairVars, Stamped
<1>11. CASE Reject
  <2>1. /\ stamp'["human_approval"] # -1
        /\ \A m \in Stamped : m # "human_approval" => stamp'[m] = stamp[m]
    BY <1>11, <1>a DEF Reject, Stamped
  <2>2. QED
    BY <1>11, <2>1 DEF Reject, Run, RejectedRoute, diagnosisVars, repairVars,
       Stamped
<1>12. CASE AbortPrompt
  BY <1>12 DEF AbortPrompt, diagnosisVars, repairVars
<1>13. CASE UNCHANGED vars
  BY <1>13 DEF vars, graphVars, diagnosisVars, repairVars
<1>14. QED
  BY <1>1, <1>2, <1>3, <1>4, <1>5, <1>6, <1>7, <1>8, <1>9, <1>10, <1>11,
     <1>12, <1>13 DEF Next, GraphStep, HumanStep

\* Before anything ran, no field is set.
LEMMA InitTells == Init => StateTells
BY ConstantAssumption, MarkerAssumption
  DEF Init, StateTells, Early, Stamped, Never

\* In every run of the graph, the fields of its state tell which nodes ran and
\* what they did, the approved attempt and the written one included.
THEOREM StateTellsAlways == Spec => []StateTells
<1>1. TypeOK /\ Flow /\ StateTells /\ [Next]_vars => StateTells'
  BY StateTellsStep
<1>2. QED
  BY <1>1, InitTells, TypeCorrect, PTL DEF Spec
-----------------------------------------------------------------------------
(***************************************************************************)
(* The record.  An event is honest when the run did what it says; the      *)
(* trail that AuditTrail reads off a final state is a sequence of honest   *)
(* events, and what is committed is always a beginning of it.              *)
(***************************************************************************)
Honest ==
  {e \in Events :
     /\ stamp[e.node] = e.attempt
     /\ e.status = "applied" =>
          disk \notin {None, Previous} /\ disk.params = e.prescription
     /\ e.status = "approved" => \E a \in approvals : a.attempt = e.attempt
     /\ e.tracking_error = tracking_error}

\* One event, or none, is a sequence of at most one.
LEMMA EventIfTyped ==
  ASSUME NEW c \in BOOLEAN, NEW e, NEW S, c => e \in S
  PROVE  /\ EventIf(c, e) \in Seq(S)
         /\ Len(EventIf(c, e)) \in 0..1
         /\ c => EventIf(c, e) = <<e>>
<1>1. CASE c
  BY <1>1 DEF EventIf
<1>2. CASE ~c
  BY <1>2 DEF EventIf
<1>3. QED
  BY <1>1, <1>2

\* Another event, or none, makes a sequence longer by at most one.
LEMMA ConcatTyped ==
  ASSUME NEW S, NEW s \in Seq(S), NEW t \in Seq(S), NEW n \in Nat,
         Len(s) \in 1..n, Len(t) \in 0..1
  PROVE  s \o t \in Seq(S) /\ Len(s \o t) \in 1..(n + 1)
<1>1. PICK k \in 1..n : k = Len(s)
  OBVIOUS
<1>2. PICK l \in 0..1 : l = Len(t)
  OBVIOUS
<1>3. s \o t \in Seq(S) /\ Len(s \o t) = k + l
  BY <1>1, <1>2, ConcatProperties
<1>4. k + l \in 1..(n + 1)
  OBVIOUS
<1>5. QED
  BY <1>3, <1>4

\* The trail of a damaged file's final state is honest, and has between one and
\* five events.
LEMMA TrailHonest ==
  ASSUME TypeOK, StateTells, tracking_error \in BOOLEAN,
         node = "END", failure_class # None
  PROVE  AuditTrail \in Seq(Honest) /\ Len(AuditTrail) \in 1..5
<1> USE ConstantAssumption, MarkerAssumption DEF Stamped, Never
<1>0. ASSUME NEW n \in Stamped, stamp[n] # Never PROVE stamp[n] \in Nat
  BY <1>0 DEF TypeOK
<1>1. proposed_params # None => ProposeEvent \in Honest
  BY <1>0
    DEF StateTells, TypeOK, ProposeEvent, Event, Honest, Events, EventStatuses
<1>2. ValidateEvent \in Honest
  <2>1. stamp["validate"] # Never
    BY DEF StateTells, Early, Terminal
  <2>2. QED
    BY <1>0, <2>1
      DEF TypeOK, ValidateEvent, Event, Honest, Events, EventStatuses
<1>3. human_approved # "unset" => HumanApprovalEvent \in Honest
  BY <1>0 DEF StateTells, TypeOK, HumanApprovalEvent, Event, Honest, Events,
     EventStatuses
<1>4. repair_result # None => ApplyEvent \in Honest
  BY <1>0 DEF StateTells, TypeOK, ApplyEvent, Event, Honest, Events,
     EventStatuses, Results
<1>5. verification_result # "unset" => ReverifyEvent \in Honest
  BY <1>0 DEF StateTells, TypeOK, ReverifyEvent, Event, Honest, Events,
     EventStatuses
<1> DEFINE p == EventIf(proposed_params # None, ProposeEvent)
           v == <<ValidateEvent>>
           h == EventIf(human_approved # "unset", HumanApprovalEvent)
           a == EventIf(repair_result # None, ApplyEvent)
           r == EventIf(verification_result # "unset", ReverifyEvent)
<1>6. p \in Seq(Honest) /\ Len(p) \in 0..1
  BY <1>1, EventIfTyped
<1>7. v \in Seq(Honest) /\ Len(v) \in 1..1
  BY <1>2
<1>8. h \in Seq(Honest) /\ Len(h) \in 0..1
  BY <1>3, EventIfTyped
<1>9. a \in Seq(Honest) /\ Len(a) \in 0..1
  BY <1>4, EventIfTyped
<1>10. r \in Seq(Honest) /\ Len(r) \in 0..1
  BY <1>5, EventIfTyped
<1>11. AuditTrail = p \o v \o h \o a \o r
  BY DEF AuditTrail
<1> HIDE DEF p, v, h, a, r
<1>12. p \o v \in Seq(Honest) /\ Len(p \o v) \in 1..2
  BY <1>6, <1>7, ConcatProperties DEF p, v
<1>13. p \o v \o h \in Seq(Honest) /\ Len(p \o v \o h) \in 1..3
  <2>1. Len(p \o v \o h) \in 1..(2 + 1)
    BY <1>8, <1>12, ConcatTyped
  <2>2. QED
    BY <1>8, <1>12, <2>1, ConcatProperties
<1>14. p \o v \o h \o a \in Seq(Honest) /\ Len(p \o v \o h \o a) \in 1..4
  <2>1. Len(p \o v \o h \o a) \in 1..(3 + 1)
    BY <1>9, <1>13, ConcatTyped
  <2>2. QED
    BY <1>9, <1>13, <2>1, ConcatProperties
<1>15. p \o v \o h \o a \o r \in Seq(Honest) /\ Len(p \o v \o h \o a \o r) \in 1..5
  <2>1. Len(p \o v \o h \o a \o r) \in 1..(4 + 1)
    BY <1>10, <1>14, ConcatTyped
  <2>2. QED
    BY <1>10, <1>14, <2>1, ConcatProperties
<1>16. QED
  BY <1>11, <1>15
-----------------------------------------------------------------------------
\* The episode as it is inserted, and as it is completed.
Open == [status |-> "in_progress", is_active |-> TRUE]
Closed == [status |-> status, is_active |-> FALSE]

\* Nothing has been committed in these phases.
BeforeStore == {"tracing", "invoking", "tracking", "logging", "ending", "opening"}

\* Phases a healthy file never reaches.
AuditOnly == {"tracking", "logging", "ending"} \cup StorePhases

\* The types of what the wrapper adds to the graph.
RecordTyped ==
  /\ phase \in Phases
  /\ span \in {"none", "open", "closed", "lost"}
  /\ mlflow_run \in {"none", "running", "finished", "failed"}
  /\ tracking_error \in BOOLEAN
  /\ events \in Seq(Honest) /\ Len(events) <= 5
  /\ episode \in {None, Open, Closed}

\* What is on record, and what MLflow knows, in each phase.
RecordFits ==
  /\ phase \in AuditOnly => node = "END" /\ failure_class # None
  /\ phase = "returned" => node = "END"
  /\ phase \in BeforeStore => episode = None /\ events = <<>>
  /\ episode # None => node = "END" /\ failure_class # None
  /\ \A i \in 1..Len(events) : events[i] = AuditTrail[i]
  /\ phase = "recording" => episode = Open /\ Len(events) < Len(AuditTrail)
  /\ phase = "completing" => episode = Open /\ Len(events) = Len(AuditTrail)
  /\ episode # None /\ ~episode.is_active =>
       episode = Closed /\ Len(events) = Len(AuditTrail)
  /\ phase = "returned" /\ failure_class # None =>
       episode = Closed /\ Len(events) = Len(AuditTrail)
  /\ phase \in {"tracing", "invoking", "tracking"} => mlflow_run = "none"
  /\ mlflow_run # "none" => node = "END" /\ failure_class # None
  /\ mlflow_run = "running" /\ phase \in StorePhases \cup {"returned", "raised"}
       => tracking_error

\* What the wrapper reads stays as it is while it records.
LEMMA SameTrail ==
  ASSUME UNCHANGED <<vars, tracking_error>>
  PROVE  Honest' = Honest /\ AuditTrail' = AuditTrail /\ Closed' = Closed
<1> USE DEF vars, graphVars, diagnosisVars, repairVars
<1>1. Honest' = Honest
  BY DEF Honest
<1>2. AuditTrail' = AuditTrail
  BY DEF AuditTrail, ProposeEvent, ValidateEvent, HumanApprovalEvent,
         ApplyEvent, ReverifyEvent, Event
<1>3. QED
  BY <1>1, <1>2 DEF Closed

\* The record is typed, and a prefix of the truth.
RecordInv == RecordTyped /\ RecordFits

\* The wrapper's steps, and the graph's, keep the record in line with the run.
LEMMA RecordStep ==
  ASSUME TypeOK, StateTells, RecordInv, [AuditNext]_auditedVars
  PROVE  RecordInv'
<1> USE DEF RecordInv, RecordTyped
<1> USE DEF Phases, StorePhases, AuditOnly, BeforeStore
<1>1. CASE GraphRuns
  <2>1. phase = "invoking" /\ UNCHANGED auditVars
    BY <1>1 DEF GraphRuns
  <2>2. events' = <<>> /\ episode' = None /\ mlflow_run' = "none"
    BY <2>1 DEF RecordFits, auditVars, storeVars, trackingVars
  <2>3. RecordTyped'
    BY <2>1, <2>2, EmptySeq DEF auditVars, storeVars, trackingVars
  <2>4. Len(events') = 0
    BY <2>2
  <2>5. RecordFits'
    BY <2>1, <2>2, <2>4 DEF RecordFits, auditVars, storeVars, trackingVars
  <2>6. QED
    BY <2>3, <2>5
<1>2. CASE Recording
  <2>0. UNCHANGED vars
    BY <1>2 DEF Recording, StartSpan, InvokeRaises, InvokeReturns, StartRun,
       LogMetrics, EndRun, StoreReturns, StoreRaises
  <2> USE DEF storeVars, trackingVars
  <2>a. UNCHANGED <<node, failure_class>>
    BY <2>0 DEF vars, graphVars, diagnosisVars
  <2>b. ASSUME UNCHANGED tracking_error
        PROVE  Honest' = Honest /\ AuditTrail' = AuditTrail /\ Closed' = Closed
    BY <2>0, <2>b, SameTrail
  <2>c. ASSUME phase \in BeforeStore, UNCHANGED storeVars
        PROVE  events' \in Seq(Honest') /\ Len(events') = 0 /\ episode' = None
    BY <2>c, EmptySeq DEF RecordFits
  <2>d. ASSUME phase \in StorePhases, StoreCall, UNCHANGED trackingVars
        PROVE  /\ events' \in Seq(Honest') /\ Len(events') <= 5
               /\ \A i \in 1..Len(events') : events'[i] = AuditTrail'[i]
               /\ phase = "opening" => episode' = Open /\ Len(events') = 0
               /\ phase = "recording" =>
                    episode' = Open /\ Len(events') <= Len(AuditTrail')
               /\ phase = "completing" =>
                    episode' = Closed' /\ Len(events') = Len(AuditTrail')
               /\ AuditTrail' \in Seq(Honest') /\ Len(AuditTrail') \in 1..5
    <3>1. Honest' = Honest /\ AuditTrail' = AuditTrail /\ Closed' = Closed
      BY <2>b, <2>d
    <3>2. AuditTrail \in Seq(Honest) /\ Len(AuditTrail) \in 1..5
      BY <2>d, TrailHonest DEF RecordFits
    <3>3. CASE InsertEpisode
      BY <3>1, <3>2, <3>3, EmptySeq DEF InsertEpisode, Open, RecordFits
    <3>4. CASE InsertEvent
      <4> DEFINE n == Len(events)
                 e == AuditTrail[n + 1]
      <4>1. n \in Nat /\ n < Len(AuditTrail) /\ episode = Open
        BY <3>4, LenProperties DEF InsertEvent, RecordFits
      <4>2. e \in Honest
        BY <3>2, <4>1, ElementOfSeq
      <4>3. events' = Append(events, e) /\ episode' = Open
        BY <3>4, <4>1 DEF InsertEvent
      <4> HIDE DEF e
      <4>4. /\ events' \in Seq(Honest)
            /\ Len(events') = n + 1
            /\ \A i \in 1..n : events'[i] = events[i]
            /\ events'[n + 1] = e
        BY <4>2, <4>3, AppendProperties
      <4>5. \A i \in 1..Len(events') : events'[i] = AuditTrail[i]
        BY <4>1, <4>4 DEF e, RecordFits
      <4>6. QED
        BY <3>1, <3>2, <3>4, <4>1, <4>3, <4>4, <4>5 DEF InsertEvent
    <3>5. CASE UpdateEpisode
      BY <3>1, <3>2, <3>5 DEF UpdateEpisode, RecordFits, Closed
    <3>6. QED
      BY <2>d, <3>3, <3>4, <3>5 DEF StoreCall
  <2>1. CASE StartSpan
    BY <2>1, <2>a, <2>c DEF StartSpan, RecordFits
  <2>2. CASE InvokeRaises
    BY <2>2, <2>a, <2>c DEF InvokeRaises, RecordFits, CloseSpan
  <2>3. CASE InvokeReturns
    BY <2>3, <2>a, <2>c DEF InvokeReturns, RecordFits, CloseSpan
  <2>4. CASE StartRun
    BY <2>4, <2>a, <2>c DEF StartRun, RecordFits
  <2>5. CASE LogMetrics
    BY <2>5, <2>a, <2>c DEF LogMetrics, RecordFits
  <2>6. CASE EndRun
    <3>1. Ended \in {"failed", "finished"}
      BY DEF Ended
    <3>2. mlflow_run' = "running" => tracking_error'
      BY <2>6, <3>1 DEF EndRun
    <3>3. tracking_error' \in BOOLEAN
      BY <2>6 DEF EndRun
    <3>4. mlflow_run' \in {"running", "failed", "finished"}
      BY <2>6, <3>1 DEF EndRun
    <3>5. QED
      BY <2>6, <2>a, <2>c, <3>2, <3>3, <3>4 DEF EndRun, RecordFits
  <2>7. CASE StoreReturns
    <3>1. phase \in StorePhases /\ StoreCall /\ UNCHANGED trackingVars
      BY <2>7 DEF StoreReturns, StoreCall, InsertEpisode, InsertEvent,
         UpdateEpisode
    <3>2. CASE phase = "opening"
      <4>1. phase' = "recording"
        BY <2>7, <3>2 DEF StoreReturns
      <4>2. Len(events') < Len(AuditTrail')
        <5>1. Len(events') = 0
          BY <2>d, <3>1, <3>2
        <5>2. PICK l \in 1..5 : l = Len(AuditTrail')
          BY <2>d, <3>1
        <5>3. QED
          BY <5>1, <5>2
      <4>3. QED
        BY <2>a, <2>d, <3>1, <3>2, <4>1, <4>2 DEF RecordFits, Open
    <3>3. CASE phase = "recording"
      <4>1. /\ Len(events') < Len(AuditTrail') => phase' = "recording"
            /\ Len(events') = Len(AuditTrail') => phase' = "completing"
        BY <2>7, <2>b, <3>1, <3>3 DEF StoreReturns
      <4>2. QED
        BY <2>a, <2>d, <3>1, <3>3, <4>1 DEF RecordFits, Open
    <3>4. CASE phase = "completing"
      <4>1. phase' = "returned"
        BY <2>7, <3>4 DEF StoreReturns
      <4>2. QED
        BY <2>a, <2>d, <3>1, <3>4, <4>1 DEF RecordFits, Open
    <3>5. QED
      BY <3>1, <3>2, <3>3, <3>4
  <2>8. CASE StoreRaises
    <3>1. /\ phase \in StorePhases
          /\ phase' = "raised"
          /\ UNCHANGED trackingVars
      BY <2>8 DEF StoreRaises
    <3>2. CASE StoreCall
      BY <2>a, <2>d, <3>1, <3>2 DEF RecordFits, Open, Closed
    <3>3. CASE UNCHANGED storeVars
      BY <2>a, <2>b, <3>1, <3>3 DEF RecordFits
    <3>4. QED
      BY <2>8, <3>2, <3>3 DEF StoreRaises
  <2>9. QED
    BY <1>2, <2>1, <2>2, <2>3, <2>4, <2>5, <2>6, <2>7, <2>8 DEF Recording
<1>3. CASE UNCHANGED auditedVars
  <2>1. Honest' = Honest /\ AuditTrail' = AuditTrail /\ Closed' = Closed
    BY <1>3, SameTrail DEF auditedVars, auditVars, trackingVars
  <2>2. QED
    BY <1>3, <2>1 DEF auditedVars, auditVars, trackingVars, storeVars,
       RecordFits, vars, graphVars, diagnosisVars
<1>4. QED
  BY <1>1, <1>2, <1>3 DEF AuditNext

\* Before anything ran, nothing is on record.
LEMMA InitRecord == AuditInit => RecordInv
<1> SUFFICES ASSUME AuditInit PROVE RecordInv
  OBVIOUS
<1> USE DEF RecordTyped
<1>1. events \in Seq(Honest) /\ Len(events) = 0
  BY EmptySeq DEF AuditInit
<1>2. RecordTyped
  <2>1. phase \in Phases
    BY DEF AuditInit, Phases
  <2>2. Len(events) <= 5
    BY <1>1
  <2>3. QED
    BY <1>1, <2>1, <2>2 DEF AuditInit
<1>3. RecordFits
  BY <1>1 DEF AuditInit, RecordFits, AuditOnly, StorePhases
<1>4. QED
  BY <1>2, <1>3 DEF RecordInv

\* The record is written as the final state says, whatever fails on the way.
THEOREM RecordInvariant == AuditSpec => []RecordInv
<1>1. TypeOK /\ StateTells /\ RecordInv /\ [AuditNext]_auditedVars => RecordInv'
  BY RecordStep
<1>2. QED
  BY <1>1, InitRecord, AuditRunsTheGraph, TypeCorrect, StateTellsAlways, PTL
     DEF AuditSpec
-----------------------------------------------------------------------------
(***************************************************************************)
(* What the record promises.                                               *)
(***************************************************************************)

\* All that is known of a reachable state.
AuditFacts == TypeOK /\ StateTells /\ SuccessIsVerified /\ RecordInv

\* The invariants of the graph and of the record, together.
THEOREM AuditFactsAlways == AuditSpec => []AuditFacts
BY AuditRunsTheGraph, TypeCorrect, StateTellsAlways, Verified, RecordInvariant,
   PTL
   DEF AuditFacts

\* A record as long as the trail is the trail.
LEMMA CompleteRecord ==
  ASSUME AuditFacts, node = "END", failure_class # None,
         Len(events) = Len(AuditTrail)
  PROVE  events = AuditTrail
<1>1. AuditTrail \in Seq(Honest) /\ events \in Seq(Honest)
  BY TrailHonest DEF AuditFacts, RecordInv, RecordTyped
<1>2. \A i \in 1..Len(events) : events[i] = AuditTrail[i]
  BY DEF AuditFacts, RecordInv, RecordFits
<1>3. QED
  BY <1>1, <1>2, LenProperties

\* A caller that gets an answer for a damaged file finds the closed episode and
\* the whole trail in the store.
LEMMA FactsAnswer == AuditFacts => AnswerIsOnRecord
<1> SUFFICES ASSUME AuditFacts, phase = "returned", failure_class # None
             PROVE  episode = Closed /\ events = AuditTrail
  BY DEF AnswerIsOnRecord, Closed
<1>1. episode = Closed /\ Len(events) = Len(AuditTrail) /\ node = "END"
  BY DEF AuditFacts, RecordInv, RecordFits
<1>2. QED
  BY <1>1, CompleteRecord

\* In every run of the wrapper an answer for a damaged file has its closed
\* episode and its whole trail behind it.
THEOREM AnswersAreRecorded == AuditSpec => []AnswerIsOnRecord
BY FactsAnswer, AuditFactsAlways, PTL

\* No event claims what its run did not do.
LEMMA FactsHonest == AuditFacts => EventsHappened
<1> SUFFICES ASSUME AuditFacts, NEW i \in DOMAIN events
    PROVE  LET e == events[i] IN
           /\ stamp[e.node] # Never
           /\ e.status = "applied" =>
                disk \notin {None, Previous} /\ disk.params = e.prescription
           /\ e.status = "approved" => \E a \in approvals : a.attempt = e.attempt
  BY DEF EventsHappened
<1>1. events[i] \in Honest
  BY LenProperties, ElementOfSeq DEF AuditFacts, RecordInv, RecordTyped
<1>2. QED
  BY <1>1 DEF Honest, Events, Never

\* In every run, wherever the store fails, the events that were committed only
\* tell of nodes that ran, of writes that happened and of approvals given.
THEOREM RecordIsHonest == AuditSpec => []EventsHappened
BY FactsHonest, AuditFactsAlways, PTL

\* A run of MLflow that could not be closed is admitted by every event.
LEMMA FactsAdmit == AuditFacts => OpenRunIsOnRecord
<1> SUFFICES ASSUME AuditFacts, mlflow_run = "running",
                    phase \in StorePhases \cup {"returned", "raised"},
                    NEW i \in DOMAIN events
             PROVE  events[i].tracking_error
  BY DEF OpenRunIsOnRecord
<1>1. events[i] \in Honest
  BY LenProperties, ElementOfSeq DEF AuditFacts, RecordInv, RecordTyped
<1>2. tracking_error
  BY DEF AuditFacts, RecordInv, RecordFits
<1>3. QED
  BY <1>1, <1>2 DEF Honest

\* In every run, an MLflow run that is left open is admitted by every event.
THEOREM OpenRunIsAdmitted == AuditSpec => []OpenRunIsOnRecord
BY FactsAdmit, AuditFactsAlways, PTL

\* Nothing is asked, tracked or recorded of a healthy file.
LEMMA FactsHealthy == AuditFacts => HealthyLeavesNoTrace
BY DEF AuditFacts, HealthyLeavesNoTrace, StateTells, RecordInv, RecordFits

\* In every run, a healthy file leaves no proposal, no run and no episode.
THEOREM HealthyIsUntouched == AuditSpec => []HealthyLeavesNoTrace
BY FactsHealthy, AuditFactsAlways, PTL

\* A recorded success is five events of one attempt, the approved one, about
\* the prescription whose output is on disk.
LEMMA FactsSuccess == AuditFacts => RecordedSuccessIsReal
<1> SUFFICES ASSUME AuditFacts, episode # None, ~episode.is_active,
                    episode.status = "succeeded"
    PROVE  /\ \A i \in 1..5 :
                /\ events[i].node =
                     <<"propose", "validate", "human_approval", "apply", "reverify">>[i]
                /\ events[i].attempt = retry_count
           /\ events[2].prescription = disk.params
           /\ events[4].prescription = disk.params
           /\ [attempt |-> events[3].attempt, params |-> disk.params] \in approvals
  BY DEF RecordedSuccessIsReal
<1>1. /\ episode = Closed /\ Len(events) = Len(AuditTrail)
      /\ node = "END" /\ failure_class # None
  BY DEF AuditFacts, RecordInv, RecordFits
<1>2. status = "succeeded"
  BY <1>1 DEF Closed
<1>3. /\ disk = [attempt |-> retry_count, params |-> validated_params]
      /\ disk \in approvals
      /\ repair_result.prescription = validated_params
      /\ \A n \in Stamped : stamp[n] = retry_count
  BY <1>1, <1>2 DEF AuditFacts, SuccessIsVerified
<1>4. /\ proposed_params # None /\ human_approved # "unset"
      /\ repair_result # None /\ verification_result # "unset"
  <2>1. retry_count # Never
    BY ConstantAssumption DEF AuditFacts, TypeOK, Never
  <2>2. QED
    BY <1>3, <2>1 DEF AuditFacts, StateTells, Stamped
<1>5. events = AuditTrail
  BY <1>1, CompleteRecord
<1> DEFINE row == <<ProposeEvent>> \o <<ValidateEvent>> \o <<HumanApprovalEvent>>
                    \o <<ApplyEvent>> \o <<ReverifyEvent>>
<1>6. AuditTrail = row
  BY <1>4 DEF AuditTrail, EventIf
<1>7. /\ events[1] = ProposeEvent /\ events[2] = ValidateEvent
      /\ events[3] = HumanApprovalEvent /\ events[4] = ApplyEvent
      /\ events[5] = ReverifyEvent
  <2>1. row[1] = ProposeEvent
    OBVIOUS
  <2>2. row[2] = ValidateEvent
    OBVIOUS
  <2>3. row[3] = HumanApprovalEvent
    OBVIOUS
  <2>4. row[4] = ApplyEvent
    OBVIOUS
  <2>5. row[5] = ReverifyEvent
    OBVIOUS
  <2> HIDE DEF row
  <2>6. QED
    BY <1>5, <1>6, <2>1, <2>2, <2>3, <2>4, <2>5
<1>8. /\ ProposeEvent.node = "propose" /\ ProposeEvent.attempt = retry_count
      /\ ValidateEvent.node = "validate" /\ ValidateEvent.attempt = retry_count
      /\ HumanApprovalEvent.node = "human_approval"
      /\ HumanApprovalEvent.attempt = retry_count
      /\ ApplyEvent.node = "apply" /\ ApplyEvent.attempt = retry_count
      /\ ReverifyEvent.node = "reverify" /\ ReverifyEvent.attempt = retry_count
      /\ ValidateEvent.prescription = validated_params
      /\ ApplyEvent.prescription = repair_result.prescription
  BY <1>3 DEF ProposeEvent, ValidateEvent, HumanApprovalEvent, ApplyEvent,
     ReverifyEvent, Event, Stamped
<1>9. ASSUME NEW i \in 1..5
      PROVE  /\ events[i].node =
                  <<"propose", "validate", "human_approval", "apply", "reverify">>[i]
             /\ events[i].attempt = retry_count
  <2>1. i = 1 \/ i = 2 \/ i = 3 \/ i = 4 \/ i = 5
    OBVIOUS
  <2>2. QED
    BY <1>7, <1>8, <2>1
<1>10. QED
  BY <1>3, <1>7, <1>8, <1>9

\* In every run, the store calls a success only what was proposed, approved,
\* written and reverified in one attempt, and is still on disk.
THEOREM RecordedSuccess == AuditSpec => []RecordedSuccessIsReal
BY FactsSuccess, AuditFactsAlways, PTL

\* The graph has five nodes whose work the record shows.
LEMMA FiveNodes == Cardinality(Stamped) = 5
<1>2. IsFiniteSet({"propose"}) /\ Cardinality({"propose"}) = 1
  BY FS_Singleton
<1>3. /\ IsFiniteSet({"propose", "validate"})
      /\ Cardinality({"propose", "validate"}) = 2
  <2>1. {"propose", "validate"} = {"propose"} \cup {"validate"}
    OBVIOUS
  <2>2. QED
    BY <1>2, <2>1, FS_AddElement
<1>4. /\ IsFiniteSet({"propose", "validate", "human_approval"})
      /\ Cardinality({"propose", "validate", "human_approval"}) = 3
  <2>1. {"propose", "validate", "human_approval"} =
          {"propose", "validate"} \cup {"human_approval"}
    OBVIOUS
  <2>2. QED
    BY <1>3, <2>1, FS_AddElement
<1>5. /\ IsFiniteSet({"propose", "validate", "human_approval", "apply"})
      /\ Cardinality({"propose", "validate", "human_approval", "apply"}) = 4
  <2>1. {"propose", "validate", "human_approval", "apply"} =
          {"propose", "validate", "human_approval"} \cup {"apply"}
    OBVIOUS
  <2>2. QED
    BY <1>4, <2>1, FS_AddElement
<1>6. QED
  <2>1. Stamped = {"propose", "validate", "human_approval", "apply"}
                    \cup {"reverify"}
    BY DEF Stamped
  <2>2. QED
    BY <1>5, <2>1, FS_AddElement

\* The record and the tracking state are well typed.
LEMMA FactsTyped == AuditFacts => AuditTypeOK
<1> SUFFICES ASSUME AuditFacts PROVE AuditTypeOK
  OBVIOUS
<1>1. events \in Seq(Events)
  BY DEF AuditFacts, RecordInv, RecordTyped, Honest
<1>2. Len(events) <= Cardinality(Stamped)
  BY FiveNodes DEF AuditFacts, RecordInv, RecordTyped
<1>3. episode \in Episodes \cup {None}
  <2>1. Open \in Episodes
    BY DEF Open, Episodes
  <2>2. episode # None => Closed \in Episodes
    BY DEF AuditFacts, StateTells, RecordInv, RecordFits, TypeOK, Closed,
           Episodes
  <2>3. QED
    BY <2>1, <2>2 DEF AuditFacts, RecordInv, RecordTyped
<1>4. QED
  BY <1>1, <1>2, <1>3 DEF AuditFacts, RecordInv, RecordTyped, AuditTypeOK

\* The wrapper's state is well typed in every run.
THEOREM AuditTypeCorrect == AuditSpec => []AuditTypeOK
BY FactsTyped, AuditFactsAlways, PTL
=============================================================================
