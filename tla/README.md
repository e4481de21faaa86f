# A verification of the self-healing data pipeline in TLA+

This directory models the repository's two repair pipelines, checks them with
TLC on small instances, and proves with TLAPS, for every value of the constants,
each safety property that TLC finds true: of both tiers' workflows, the audit of
record, the commands, the failure detector and the executors. Paths below are
relative to the package `src/self_healing_pipeline`.

| Module | Models | Checked by |
| --- | --- | --- |
| `ApprovalGate` | what human approval promises, abstractly | refinement, from `CsvRepairWorkflow` |
| `DetectorReport` | what the detector tells the workflow, and how `propose` forces it into a prescription | both modules below |
| `CsvFailureDetector` | the detector's line analysis | `MCCsvFileRepair` |
| `CsvFailureDetector_proofs` | theorems about it | `tlapm` |
| `CsvFileRepair` | one repair attempt on the lines of a file: detector, evidence, both executors | `MCCsvFileRepair` |
| `CsvFileRepair_proofs` | theorems about it | `tlapm` |
| `CsvRepairWorkflow` | the Tier 1 repair graph | `MCCsvRepairWorkflow` |
| `CsvRepairWorkflow_proofs` | theorems about it | `tlapm` |
| `AuditedCsvRepair` | the graph inside `run_audited_csv_repair` | `MCAuditedCsvRepair` |
| `AuditedCsvRepair_proofs` | theorems about it | `tlapm` |
| `RepairAndProcess` | the commands `repair` and `repair-and-process` around that | `MCRepairAndProcess` |
| `RepairAndProcess_proofs` | theorems about it | `tlapm` |
| `SchemaDiff` | Tier 2's diff, its operations and their effect on columns | `MCSchemaRepairWorkflow` |
| `SchemaDiff_proofs` | theorems about it | `tlapm` |
| `SchemaRepairWorkflow` | Tier 2's graph over the invocations of an episode | `MCSchemaRepairWorkflow` |
| `SchemaRepairWorkflow_proofs` | theorems about it | `tlapm` |

To repeat a check: `tlc -config csv_repair.cfg MCCsvRepairWorkflow`, and so on
for the runs below; `tlapm CsvRepairWorkflow_proofs.tla` and
so on for the proofs.

## 1. Inventory

**Tier 1 workflow** (`application/orchestration/csv_repair_workflow.py`). A
LangGraph `StateGraph`. State: the diagnosis, the LLM's proposal, the validated
prescription, the human's answer, the result of apply, the output path, the
verdict of reverify, the retry count, the status. Operations: one per node.
It calls the failure detector, the LLM, the human and the executors
synchronously, one at a time. Hard: the retry loop keeps the fields of the
attempt that failed; several kinds of evidence override one proposal; the
loop's nodes count against LangGraph's superstep limit.
*Correct when* every write was approved in its attempt, a success is the
verified work of the last attempt, a no is final, evidence beats the LLM, and
the graph ends.

**Failure detector** (`infrastructure/csv/local_csv_failure_detector.py`).
Stateless: `detect`, `detect_all`, and a method for each of three kinds of
evidence. Each decodes, sniffs and counts on its own. Hard: they must not
contradict one another; header search, garbled headers and single-row repairs
are decided by field counts, with bounds that are easily off by one; the
encoding they decode with is not the one the workflow prescribes.
*Correct when* every class that has evidence comes with it, and the evidence is
right for the file it was made from.

**Executors** (`infrastructure/csv/*_executor.py`). `execute` reads the source,
never writes it, and replaces `repaired/<name>` atomically; `verify` re-reads a
file. Hard: two executors for one prescription type, with their own counting
and their own reading; the file may change while the human thinks; two runs may
share an output. *Correct when* a prescription made of evidence is carried out,
no row is lost on the way, and what passed verification is healthy.

**Audit wrapper, store, MLflow** (`application/orchestration/audited_csv_repair.py`,
`infrastructure/persistence/postgres`, `infrastructure/mlflow`). Runs the graph
in a trace span, then writes an MLflow run (failures swallowed) and an episode
with its events (one commit each, failures propagate). Hard: partial failure
between commits, and a record derived after the fact from a final state.
*Correct when* an answer is only given on a complete record and the record
claims nothing that did not happen.

**Agents, router, commands, cloud** (`infrastructure/agents`,
`application/orchestration/error_router.py`, `interfaces/cli/main.py`,
`infrastructure/cloud`). A command detects, routes an error to an agent, takes
its result, and may upload a file and trigger a Databricks job. Hard: the file
is detected twice; the result is read from a state that several attempts wrote;
cloud calls fail or answer late. *Correct when* only approved and recorded
repairs, or files found healthy, are uploaded, and the exit code has grounds.

**Tier 2** (`application/orchestration/schema_repair_workflow.py`,
`schema_diff.py`, `rename_resolution_subgraph.py`, `audited_schema_repair.py`,
`infrastructure/schema`). Diffs a file against a baseline, pairs similar column
names, asks the LLM to confirm renames and the human to approve, writes and
verifies, and records a migration history that later invocations of the episode
consult. Hard: memory across invocations, a file that changes while the human
thinks, a history written in place. *Correct when* operations do not overlap,
refused ones do not come back, and the history tells the truth.

**Not modelled**: settings, logging, prompts and HTTP of the LLM providers,
MLflow tags and token usage, SQL, deployment. They decide nothing; where a
missing setting or a failing client changes control it is a choice in the
action that meets it.

`PROJECT.json` lists every component with its status, and the hazards, each at
its line, with the properties that cover it or the reason why none does.

## 2. The models

### DetectorReport, CsvFailureDetector and CsvFileRepair

A file is a sequence of its non-blank lines, a line the sequence of the
separating characters between its words plus a key (which row it is), whether the
first word is a number, and whose words these are: the file's own, what its bytes
read as in a wrong encoding, or what pandas made of them. That is all the detector's decisions rest
on: field counts under a delimiter, characters that could be meant as one,
numeric first columns, invisible characters in the header. A delimiter inside
quotes is a character of its own (`Quoted`): `Reseparated` is what `csv.writer`
makes of a row whose fields hold the new delimiter. `csv.Sniffer` is the choice
`Sniffs` allows (a comma that all lines have equally often wins, otherwise any
candidate in the text, or the default), the same every time it is asked about
one text; chardet is the file's `guess`, right, wrong (`doubtful`) or none.

`CsvFailureDetector` defines every method of the detector over that, in the
order of its early returns, and `Report`, all of their answers for one file.
`DetectorReport` has the vocabulary the workflow shares with it, and
`ForceEvidence`, the overrides of `propose` in the order of the code; the two
state machines below use the same definition.

`CsvFileRepair` is one attempt: `Diagnose`, `Propose` (which asks for the
evidence anew), `Answer`, `ExecuteWrites` or `ExecuteFails` by one of the two
executors, `Verify`. Between them `EditSource` removes or adds one line of the
source, and `OverwriteOutput` is another invocation that writes a file of the
same name. `Readings` says what a text decoded in one encoding may read as in
another: nothing, garbage without separators (UTF-16), or the same separators
with other words (single-byte encodings, `Misspelled`). The row executor copies lines
verbatim. The whole-file executor goes through `read_csv` and `to_csv`, which
infer types: 007 becomes 7, NA becomes nothing. `TypedTables` is all that may come
of that: after it a row has words pandas typed, may have lost the number in front
and any character inside a word (an invisible one, another delimiter), but no
separator of its table. Left out: a BOM, quoted fields in delivered files, blank
lines, which values pandas makes of which words, the names it gives to columns
whose own is empty or repeated (`Unnamed: 0` holds a colon, which the model does
not put there), and writes that fail, which `CsvRepairWorkflow` has.

The definitions were compared with the real detector on 3,600 random files (all
five methods, no difference), and `Sniffs` with the real `csv.Sniffer` on
120,000.

### CsvRepairWorkflow

`node` is the node LangGraph runs next; an action is one node together with
the conditional edge that follows it (`Run(from, to)`), and costs one superstep.
The remaining variables carry the names of the state's keys. Abstractions:

- A source file is what the detector's passes say of it (`SourceFiles`).
  `DetectorConsistent` is the shape `detect_all`'s early returns give these
  answers, assumed here of every file in `Sources` and proved of the detector
  (`ReportIsConsistent`). The source is never written by the graph, and constant
  while it runs; `CsvFileRepair` is where it is edited.
- An LLM answer is any member of `Proposals`, good, wrong or ill-formed; a failed
  request is an answer that is ill-formed.
- The output is the prescription that made it and the attempt that wrote it
  (`Writes`); `Previous` is a file an earlier invocation left. `execute` and
  `verify` may fail for any reason; what they may not do is pass without an
  output (`Verifiable`), write with no executor (`SelectExecutor`), or read as
  UTF-8 what is none (`Readable`).
- `approvals`, `stamp` and `executors` are history variables: what the human said
  yes to, in which attempt each node last ran, and which executor wrote what is on
  disk and which one's `verify` passed last. `apply` and `reverify` each choose
  anew, by the prescription of their attempt; `RightExecutor` is about these choices.
- `wiring` covers graphs built with and without approval port and row executor.

`ApprovalGate` says what remains when drafting, retrying and checking are
forgotten: a prescription is submitted, granted or refused; a grant is good for
one attempt that writes all or nothing; a refusal ends it. `GateStage`,
`GateSubmitted` and `GateArtifact` are the refinement mapping.

### AuditedCsvRepair

Extends the workflow with `phase`, the position in `run_audited_csv_repair`.
`GraphRuns` is one step of the graph while the wrapper waits in `invoke`. Each
store call is one commit; `StoreRaises` may lose the connection before or after
it. The trace span may be refused, or fail in `__enter__` or `__exit__`; the code
swallows that and never tries again, so the span is then `lost`, and may stay open
for good. A span that was entered is exited once on every way out of `invoke`.
`AuditTrail` derives the events from the final state as the code does,
stamped with the attempt they stem from.

### RepairAndProcess

Extends that with `cli`, the position in the command. `Redeliver` replaces the
file whenever the command is not in the graph; the graph's own reads are treated
as one look at the file. `Handle` is the agent's reading of the final state,
`LocalFile` the file that is uploaded. An upload or trigger that fails may or
may not have taken effect. `Resolve` is the router's lookup along the types of an
error. Exceptions the clients do not catch end in exit code
1. With `--table`, Tier 2 appears only by its result.

### SchemaDiff and SchemaRepairWorkflow

A schema is a function from column names to logical types. Two types suffice:
`int64`, which survives a round trip through CSV, and `string`, which pandas
reads back as `object` (with pandas 2, which the project uses), so that a cast to
it never verifies. `RenameHints` is the set of results the greedy pairing can
have, one per order of equally similar pairs. `Executed` is the effect of a
prescription on the columns. The actions are the nodes of the graph, then
`Record` (JSON entry, then mirror) and `NextInvocation`; `RecordRaises` may
leave an entry that cannot be parsed, after which no invocation gets past
`detect`. A list of operations the state does not hold yet, or holds emptied, is
the empty set: the code tests both for truth. What `apply` reads is the source
until the invocation ends; a delivery after that belongs to the next one, which
is why `SuccessRestoresColumns` speaks of the moment of recording.

## 3. What is checked

| Run | Shows | States |
| --- | --- | --- |
| `csv_repair` | approval, verification, evidence, choice of executor, retry bound, refinement of `ApprovalGate`, termination | 15 709 |
| `csv_lines` | the detector's methods agree; a prescription made of evidence is carried out and loses no row and no field, also of a file edited after its diagnosis; what the whole-file executor verifies is healthy | 179 298 |
| `audited_csv_repair` | the record is complete before an answer, and true | 61 158 |
| `repair_and_process` | uploads, jobs and exit codes | 259 490 |
| `schema_repair` | operations, continuity, verification, history | 144 128 |

Seven further runs each look for one statement of the documentation that the code
does not keep, and find a counterexample (section 5).

**Bounds.** `csv_repair` has `MaxRetries = 2` as production has, so that a
middle attempt exists, and a superstep budget of 22, exactly the longest run,
or of 15, with which LangGraph raises in the second of three attempts.
The files exhibit every kind of evidence and the combinations whose overrides
meet (encoding with mixed rows; preamble, garbled header and encoding; no header
in UTF-16; bytes chardet has no name for, which are reported as nothing else; a
mixed file too short for row evidence). The two
compositions use one retry, enough for an attempt's leftovers to survive
another, and three files. `repair_and_process` has a budget of 14 rather than the
16 supersteps its longest run needs, so that `invoke` also raises.
`schema_repair` has two invocations, since an invocation sees of all earlier ones
only what they refused, and seven files: no
drift, no header, a renamed with a new and a missing column, only a type, a
column missing alone or with one too many, and a type that became text with a
column missing; its column names compete for a rename in pairs above and below
the floor.
`csv_lines` has 579 files: every file of three lines over a stock of six lines
that covers one, two and three fields in the established and in another
delimiter; files of four lines with a preamble, a garbled header and rows that
resolve whole, field by field, or not at all; headerless files; zero-width
characters in the header; two encodings chardet can name, one it cannot, one it
gets wrong. The preamble searched for is two lines instead of ten, and one file
has three. The LLM guesses either delimiter, or is wrong in every field. One
edit and one overwritten output are enough for each to fall before, between or
after any two steps.

Every terminal state is legitimate (a program that has exited), so deadlock is
not an error in these runs.

**Fairness.** A compiled graph, the wrapper and the command are sequential code
that runs on by itself, so weak fairness of their steps is what the interpreter
gives, provided that a call comes back: the cloud calls have a timeout of 30
seconds, the LLM client has its library's default, and Postgres is taken to
answer or to raise. The human is not fair by
assumption: `Termination`, `AuditSettles` and `CommandEnds` say what follows *if*
the human answers. In Tier 2, `WF_vars(HumanStep)` is part of the specification,
for the same condition; nobody is obliged to deliver files or to start another
invocation.

## 4. What is proved

`CsvRepairWorkflow_proofs` proves, for every number of retries, superstep
budget, set of files and set of LLM answers that satisfy the assumptions in
`CsvRepairWorkflow` (the markers are no data, files are consistent reports):

| Theorem | Property |
| --- | --- |
| `TypeCorrect` | `TypeOK` |
| `Approved` | `WritesApproved` |
| `Verified` | `SuccessIsVerified` |
| `NoMeansNo` | `RejectionIsFinal` |
| `BudgetSuffices` | `NeverOutOfSteps` |
| `EvidenceAlwaysDecides` | `EvidenceDecides` |
| `RightExecutorActs` | `RightExecutor` |
| `Refinement` | `ImplementsGate` |

None of these is inductive by itself. Type correctness needs `Flow`, which
ties the current node to what must already have been computed there. `Approved`
and `Verified` share `ApprovalInv`: besides the two properties it says, for each
node between `validate` and `set_success`, how far the *current* attempt has
come (which stamps carry the current retry count, that the approval in
the state is this attempt's, that a set output path means a write of this
attempt). That is what the stale fields a retry leaves behind would otherwise
break. `NoMeansNo` needs that a rejected run is already leaving
(`RejectedIsLeaving`); `BudgetSuffices` a bound on the supersteps spent by
node and retry count (`StepsBounded`); `EvidenceAlwaysDecides` the lemma
`ForceDecides`, that the five overrides do not undo each other on a consistent
file, carried from proposal to approval by `EvidenceInv`. `RightExecutorActs` puts
three invariants together: who wrote the output (`ExecutorInv`), that `reverify`
reads what this attempt's `apply` wrote and so chooses by the same prescription
(`ApprovalInv`), and that this prescription carries the detector's rows
(`EvidenceInv`). `Refinement` maps each
node to a step or a stutter of the gate.

`AuditedCsvRepair_proofs` carries these theorems into the wrapper and proves what
the audit of record promises, for every run of the graph, every failure of
MLflow and every store that fails before or after a commit:

| Theorem | Property |
| --- | --- |
| `AuditRunsTheGraph` | `AuditSpec => Spec`: every step of the wrapper is a step or a stutter of the graph, so all of the above holds inside it |
| `AuditTypeCorrect` | `AuditTypeOK` |
| `AnswersAreRecorded` | `AnswerIsOnRecord` |
| `RecordIsHonest` | `EventsHappened` |
| `RecordedSuccess` | `RecordedSuccessIsReal` |
| `HealthyIsUntouched` | `HealthyLeavesNoTrace` |
| `OpenRunIsAdmitted` | `OpenRunIsOnRecord` |

The wrapper knows of the run only what the final state says, so the argument has
two halves. `StateTells`, an invariant of the graph, says that a field is set
exactly when its node has run, that a successful result is about what is on disk,
and that an approval in the state was given in the attempt stamped for it; this
survives a retry although the fields are never reset, because a node that runs
again overwrites its field and its stamp together. From it `TrailHonest`: the
trail read off a final state consists of events that happened. `RecordInv` is the
invariant of the recording: what is committed is a beginning of that trail, long
enough in each phase (`AnswerIsOnRecord` says nothing before the end). The
success of a record then is `SuccessIsVerified`, with all five events present.

`RepairAndProcess_proofs` is about both commands, for every file delivered at any
moment and every outcome of the repair, the store and the cloud (and assumes of
its constants only that `None` is no result, configuration, blob or episode):

| Theorem | Property |
| --- | --- |
| `ProcessTypeCorrect` | `ProcessTypeOK` |
| `UploadsHaveTheirRecord` | `UploadsAreApprovedAndRecorded` |
| `DamagedNeverUploaded` | `DamagedSourceStaysHome` |
| `JobsHaveBlobs` | `JobHasItsBlob` |
| `ExitCodesGrounded` | `ExitCodeHasGrounds` |
| `ProcessInvariant` | `ProcessInv`, which the others follow from |
| `RecordInsideCommands` | the five promises of the audit of record, inside a command |

The theorems about the audited repair do not carry over by refinement: between
the command's own steps a new file may be delivered, and `source` is constant in
`AuditSpec`. What carries over is the invariants. `GraphFacts` is the part of
them that is about the run and not about the file that lies there now;
`RedeliverKeeps` shows that a delivery leaves it true, `CommandSteps` that every
other step of the command is a step or a stutter of the wrapper. To this the
invariant `ProcessInv` adds what is decided, done and not yet done where the
command stands (`CliFlow`) and what an agent's result says of its run
(`ResultTells`: a result that names the repaired file comes from a wrapper that
returned with a successful apply). `RecordShows` then finds the upload's
`apply` event in the committed record. `RouterResolves` is the router's lookup
along the types of an error. An exit code is given once: what it says of the cloud
(`DoneAsConfigured`) holds because `CliFlow` knows what has been uploaded when,
what it says of a repair (`Grounded`) by `RecordShows` again. It does not say that
the repair was verified, and need not be so: `uploads_unverified` in section 5.

`CsvFailureDetector_proofs` and `CsvFileRepair_proofs` are about the lines of a
file, for every file, delimiter and encoding, every bound of the header search
and whatever delivers and edits the files:

| Theorem | Says |
| --- | --- |
| `ReportIsConsistent` | `DetectorConsistent(Report(file))` of every `file` |
| `ReportIsASource` | a report is what the graph takes for a source: with the theorem above, what `CsvRepairWorkflow` assumes of `Sources` holds of every file |
| `ReportsFit` | `ReportConsistent`, however the source is edited |
| `EditedFilesKeepEvidence` | `EvidenceStillDecides`: classes of one file and evidence of another still do not undo each other |
| `MixedAlwaysHasEvidence` | `MixedHasEvidence`: a mixed-delimiter file of more than two lines comes with its rows |
| `TypeCorrect` | `TypeOK` |
| `EvidenceAlwaysRepairs` | `EvidenceRepairs`: a prescription made of evidence is carried out |
| `RowsAlwaysSurvive` | `RowsSurvive`: no row, and no field of one, is lost by it; no word either, if it repairs single rows |
| `VerifiedFilesAreHealthy` | `VerifiedIsHealthy`: what the whole-file executor verifies has nothing left to repair but, perhaps, a header |
| `ResultInvariant` | `ResultIsCurrent`, which `EvidenceAlwaysRepairs` and `RowsAlwaysSurvive` need |

Where a row repair is taken apart, `RowsAssumed` is a hypothesis; it says what the
workflow leaves open: a row repair is a line number and two lines. The modules
assume that a comma is among the delimiters that can be sniffed, that invisible
and quoted characters are none, and that the fallback encoding is one a
doubtful guess can stand for.

`StructuralCases` says what it takes for each class, one early return after the
other, `OffsetEvidenceCases` the same of the evidence methods; put next to each
other they give `ReportIsConsistent`. `MixedIsShown` is the argument why two
methods that ask different questions agree: rows that all agree with each other
would have been the table of a header at offset 0 or 1, both of which are always
searched, so a file without an offset has two that differ. `ReportIsCurrent`
carries it to the state: until an edit, what was reported is true of the source.

The executors need to know what is done to a line. `ReseparatedKeeps`,
`NormalizedKeeps`, `SubsplitKeeps` and `ResolutionKeeps` say it of the four ways
in which the detector rewrites one: the words stay, and the fields are as many
as the row needs. `TypedKeeps` and `StrippedKeeps` say it of what pandas leaves of
a row and of a header: whatever else is lost, the row and its fields stay; since
what is left is numbered in its order, this rests on counting (`RanksNumber`). `MixedRowsShown`, `GarbledRowShown` and `OffsetShown`
turn a piece of evidence back into what was found in the file. From these,
`WhenInformed` and `RowsAreRepaired`: a prescription made of evidence reads the
text the detector read and puts every row repair on the row it was made for, so
that what is below the header (`TableStarts`) is a table; hence the executor does
not refuse it (`InformedFits`), and what it writes holds every row
(`RowsOutputSurvives`, `TableOutputSurvives`). `ResultIsCurrent` is the invariant
that ties the outcome of `execute` to source and prescription as they are: both
are left alone from then on, unless another invocation overwrites the output,
which `foreign` remembers. `VerifiedFilesAreHealthy` needs no evidence:
`TablesAreHealthy` compares the executor's verification with the detector's early
returns, for each way the sniffer may read the output.

`SchemaDiff_proofs` is about Tier 2's operations, for all schemas and similarities
and every subset of renames the LLM confirms: no column is touched by two of
them (`DerivedDisjoint`), executed on the file they were derived from they give
it exactly the columns of the baseline (`ExecutedRestores`), and, with no cast
to text among them, the executor carries them out and `verify` finds every end
state they promise (`PlanHolds`: the reason why a failed verification is news).
`SchemaRepairWorkflow_proofs` takes them into the graph, for any number of
invocations, deliveries while the human thinks, and interrupted recordings:

| Theorem | Property |
| --- | --- |
| `TypeCorrect` | `TypeOK` |
| `OnlyApprovedWrites` | `WritesApproved` |
| `PrescriptionsDisjoint` | `OperationsDisjoint` |
| `ColumnsRestored` | `SuccessRestoresColumns` |
| `SuccessHolds` | `SuccessHoldsOnDisk` |
| `RefusalsRemembered` | `RefusedOnce` |
| `HistoryIsTrue` | `HistoryTellsTruth` |
| `MirrorLags` | `MirrorFollows` |
| `EpisodeInvariant` | `EpisodeInv`, which the others follow from |

`EpisodeInv` has `Flow`, what each node may rely on, in particular that a
prescription is a header assignment or what is left of the operations derived
from the diff (`Prescription`); `Approved`, that the human's yes in this
invocation is about the operations being applied; `Written`, that the output is
this prescription executed on the source, and verified once the graph says so;
`Remembered`, that `detect` has read all that the history says was refused (and
`Prescription` leaves it out); and the two properties of the history, which are
inductive together with these. Its assumptions: similarities are percentages,
baselines are schemas or absent, and a headerless file is one that `detect`
recognises as such (any other is, to this code, a file with a header).

**Only model-checked**: liveness (`Termination`, `AuditSettles`, `CommandEnds`,
`InvocationsEnd`), which is out of the prover's reach. All other properties of the
passing runs are proved. The theorems are about the definitions in these modules;
that the definitions are right about the code rests on reading, and for the
detector on the comparison in section 2.

## 5. Where code and documentation disagree

- `uploads_unverified`: `LangGraphCsvRepairAgent.handle` reports the last
  `repair_result` whatever the run's status, so `repair-and-process` uploads a
  file that failed reverification, and triggers the job. Its exit codes follow: 0,
  or 2 if the cloud step fails, which is documented as "the repair succeeded but
  the cloud step failed".
- `rows_from_llm`: row repairs are documented as never coming from the LLM; they
  do whenever the detector has no row evidence. In the counterexample a headerless
  UTF-16 file has rows invented for it, and the row executor writes them.
- `misread_row_applied`: the detector decodes with chardet's guess, the workflow
  corrects a doubtful guess to cp1252 for everything else, so that repaired rows
  are written with the letters of the wrong guess. (The same property falls to a
  line typed in above a flagged row while the human thinks: line numbers are
  applied without a look at `original_text`.)
- `rereads_source_encoding`: the row executor writes UTF-8 and verifies the
  output in the encoding of the source. A UTF-16 file fails, or passes as one line of
  garbage.
- `applied_unrecorded`: a repair that was applied leaves no episode when the
  human aborts the prompt of the next attempt, or LangGraph raises.
- `header_reproposed`: a rejected header assignment is proposed again.
- `cast_never_written`: a cast to the type a column already has is verified
  against the untouched source when the output could not be written.

Smaller remarks, without a run:

- The repository's README describes Tier 2 as mutating in place, the executor
  writes to `repaired/`; it has the Tier 1 episode created at the first node, it
  is created after the graph returned. A rejected repair ends as a FINISHED
  MLflow run. The cloud clients' "never raises" does not cover every exception,
  nor do the detector's evidence methods catch what chardet raises.
- `REJECTED` is documented as "apply never ran", and a retried episode as audited
  by its final attempt; an earlier attempt may have been applied, and its fields
  survive into the events.
- A mixed-delimiter file of two lines has no evidence, so the LLM's rows stand.
- A mixed-delimiter prescription keeps the LLM's `header_row`, although the row
  executor's docstring has it always 0; above 0 the header is dropped.
- The row executor keeps the established delimiter, so its output may be
  diagnosed as wrong-delimiter again, and its `verify` passes a file of one
  column. A repaired headerless file has the header `0,1,2` and is diagnosed as
  headerless again.
- `row_number` is documented as the line number a human would count; it counts
  non-blank lines.

## 6. Plan

Done: both workflows, the audit, the commands, the detector and the executors,
with the proofs of their safety properties. Next, in this order:

1. An abstract specification of what Tier 2's episode promises its human
   (submitted once, written only when granted, remembered when refused), and a
   proof that `SchemaRepairWorkflow` implements it, as `Refinement` does for
   Tier 1.
2. Action properties of the record and the history (nothing recorded is taken
   back), with their theorems.
3. Tier 2's workflow in place of its result in `RepairAndProcess`.
4. The partly modelled components, as far as they decide anything: the
   inspector's sampling and the baseline store.
