--------------------------- MODULE CsvFileRepair ----------------------------
(***************************************************************************)
(* One attempt of a Tier 1 repair on the lines of a real file: diagnose    *)
(* and propose ask the detector, a human approves, one of the two          *)
(* executors (pandas_csv_repair_executor.py for the whole file,            *)
(* mixed_delimiter_row_repair_executor.py for single rows) rewrites the    *)
(* source into repaired/<name>, and verify reads that file again.          *)
(*                                                                         *)
(* The workflow itself, with its retries and ill-formed answers, is        *)
(* CsvRepairWorkflow.  Between any two of its looks at the file someone    *)
(* may edit the source, and before verify another invocation for a file of *)
(* the same name may replace the output.                                   *)
(***************************************************************************)
EXTENDS CsvFailureDetector

CONSTANTS
  Sources,      \* files as they are delivered
  Guesses,      \* prescriptions the LLM comes up with
  FixedLines,   \* lines someone may type into the source
  OtherOutputs  \* what another invocation may leave under repaired/<name>

ASSUME InputAssumption ==
  /\ Sources \subseteq Files
  /\ \A s \in Sources : s.delimiter \in Sniffs(s.lines)
  /\ Guesses \subseteq Prescriptions
  /\ FixedLines \subseteq Lines
  /\ OtherOutputs \subseteq Seq(Lines)

VARIABLES
  stage,    \* where the attempt stands
  source,   \* the source file; the pipeline never writes it
  edited,   \* history: when someone edited the source
  report,   \* what the detector told diagnose and propose
  params,   \* the prescription, None before propose
  result,   \* execute: "none", "written" or "failed"
  output,   \* the lines of repaired/<name>, in UTF-8; None if there is none
  foreign,  \* history: another invocation wrote the output last
  verdict   \* verify: "none", "passed" or "failed"

sourceVars == <<source, edited>>
outputVars == <<output, foreign>>
vars == <<stage, sourceVars, report, params, result, outputVars, verdict>>

Stages == {"diagnose", "propose", "approve", "execute", "verify", "done"}

TypeOK ==
  /\ stage \in Stages
  /\ source \in Files
  /\ edited \in {"never", "before_propose", "after_propose"}
  /\ report = None \/ report \in SourceFiles
  /\ params = None \/ params \in Prescriptions
  /\ result \in {"none", "written", "failed"}
  /\ output = None \/ output \in Seq(Lines)
  /\ foreign \in BOOLEAN
  /\ verdict \in {"none", "passed", "failed"}
  /\ stage \in {"approve", "execute", "verify"} => params \in Prescriptions
  /\ stage = "verify" => result = "written" /\ output \in Seq(Lines)

Init ==
  /\ stage = "diagnose"
  /\ source \in Sources
  /\ edited = "never"
  /\ report = None
  /\ params = None
  /\ result = "none"
  /\ output = None
  /\ foreign = FALSE
  /\ verdict = "none"
-----------------------------------------------------------------------------
(***************************************************************************)
(* Reading.                                                                *)
(***************************************************************************)

\* No delimiter and no line break is left of a text decoded as UTF-16.
Garbage == <<[key |-> 0, words |-> "misread", number |-> FALSE, seps |-> <<>>]>>

\* Another single-byte encoding leaves every separator alone and makes other
\* words of a row that has accents.
Misspelled(lines) ==
  [i \in DOMAIN lines |-> [lines[i] EXCEPT !.words = "misread"]]

\* What a text decoded as one encoding may read as in another, None if not at
\* all: UTF-8 refuses other bytes than its own; a single-byte encoding takes
\* nearly every byte for a character, and UTF-16 any even number of them.
Readings(lines, decoded, encoding) ==
  CASE encoding = decoded -> {lines}
    [] encoding # decoded /\ encoding = "utf-8" -> {None}
    [] encoding # decoded /\ encoding \in Confusable -> {None, Misspelled(lines)}
    [] OTHER -> {None, Garbage}

ReadingsOfSource(encoding) == Readings(source.lines, DecodedAs(source), encoding)

FieldCountsIn(lines, d) == {FieldCount(lines[i], d) : i \in DOMAIN lines}
-----------------------------------------------------------------------------
(***************************************************************************)
(* MixedDelimiterCsvRepairExecutor.                                        *)
(***************************************************************************)
ByRows(p) == p.mixed_delimiter_rows # {}

Preamble(p) == IF p.header_row = None THEN 0 ELSE p.header_row

Flagged(p) == {r.row_number : r \in p.mixed_delimiter_rows}

\* The flagged rows replaced, verbatim and by their numbers alone.
WithRepairs(lines, p) ==
  [i \in DOMAIN lines |->
     IF i \in Flagged(p)
     THEN (CHOOSE r \in p.mixed_delimiter_rows : r.row_number = i).repaired_text
     ELSE lines[i]]

\* Mutant: the header counts as it was before its repair.
RowsFitUnrepairedHeader(lines, p) ==
  /\ Preamble(p) < Len(lines)
  /\ \A i \in (Preamble(p) + 1 .. Len(lines)) \ Flagged(p) :
       FieldCount(lines[i], p.delimiter)
         = FieldCount(lines[Preamble(p) + 1], p.delimiter)

\* There is a header, and every row that was not flagged is as wide.
RowsFit(lines, p) ==
  /\ Preamble(p) < Len(lines)
  /\ \A i \in (Preamble(p) + 1 .. Len(lines)) \ Flagged(p) :
       FieldCount(lines[i], p.delimiter)
         = FieldCount(WithRepairs(lines, p)[Preamble(p) + 1], p.delimiter)

\* The established delimiter stays.
RowOutput(lines, p) == SubSeq(WithRepairs(lines, p), Preamble(p) + 1, Len(lines))

\* verify(): as wide as the first line, whatever that is.
RowsVerify(lines, p) == Cardinality(FieldCountsIn(lines, p.delimiter)) = 1
-----------------------------------------------------------------------------
(***************************************************************************)
(* PandasCsvRepairExecutor.                                                *)
(***************************************************************************)

\* The lines read_csv makes a table of.
Table(lines, p) == SubSeq(lines, Preamble(p) + 1, Len(lines))

\* Two columns or more, and no row that pandas padded or cut.
TableFits(lines, p) ==
  /\ Preamble(p) < Len(lines)
  /\ FieldCount(Table(lines, p)[1], p.delimiter) >= 2
  /\ Cardinality(FieldCountsIn(Table(lines, p), p.delimiter)) = 1

\* Without the separators at some places: what is left of them, in their order.
LeftOf(line, gone) == DOMAIN line.seps \ gone

Without(line, gone) ==
  [line EXCEPT !.seps =
     [n \in 1 .. Cardinality(LeftOf(line, gone)) |->
        line.seps[CHOOSE i \in LeftOf(line, gone) :
                    Cardinality({j \in LeftOf(line, gone) : j <= i}) = n]]]

\* read_csv infers the type of every column and to_csv writes its values, not
\* its words: 007 becomes 7, NA and n/a become nothing.  Lost may be the number
\* in front (place 0) and any character inside a word, but no field.
Losable(line) ==
  (IF line.number THEN {0} ELSE {})
    \cup {i \in DOMAIN line.seps : line.seps[i] \notin {Comma, Quoted}}

Typed(line, lost) ==
  [Without(line, lost) EXCEPT !.words = "typed", !.number = @ /\ 0 \notin lost]

\* _strip_invisible_characters, on the column names only; those keep their text,
\* but for names that are empty or repeated.
Stripped(line) ==
  Typed(line, {i \in DOMAIN line.seps : line.seps[i] = Invisible})

\* pandas' own column names, 0, 1, 2...
NumberedColumns(width) ==
  [key |-> 0, words |-> "typed", number |-> TRUE,
   seps |-> [i \in 1 .. width - 1 |-> Comma]]

\* The table's rows, separated by commas; some fields are in quotes now.
CommaRows(lines, p) ==
  [i \in DOMAIN Table(lines, p) |->
     Reseparated(Table(lines, p)[i], p.delimiter, Comma)]

\* All that pandas may write of them, row by row.
TypedTables(rows) ==
  {[i \in DOMAIN rows |->
      Typed(rows[i], {j \in Losable(rows[i]) : <<i, j>> \in lost})] :
     lost \in SUBSET UNION {{i} \X Losable(rows[i]) : i \in DOMAIN rows}}

\* Canonical, comma-separated, with a header.
TableOutputs(lines, p) ==
  LET rows == CommaRows(lines, p)
  IN  IF p.header_row = None
      THEN {<<NumberedColumns(FieldCount(rows[1], Comma))>> \o table :
              table \in TypedTables(rows)}
      ELSE {[table EXCEPT ![1] = Stripped(rows[1])] : table \in TypedTables(rows)}

\* Mutant: one column is a table too.
TableVerifiesAnyWidth(lines) ==
  /\ ~ContainsInvisible(lines[1])
  /\ Cardinality(FieldCountsIn(lines, Comma)) = 1

\* verify(), with pandas' defaults.
TableVerifies(lines) ==
  /\ FieldCount(lines[1], Comma) >= 2
  /\ ~ContainsInvisible(lines[1])
  /\ Cardinality(FieldCountsIn(lines, Comma)) = 1
-----------------------------------------------------------------------------
(***************************************************************************)
(* The attempt.                                                            *)
(***************************************************************************)

\* detect_all; a healthy file is left alone.
Diagnose ==
  /\ stage = "diagnose"
  /\ report' = Report(source)
  /\ stage' = IF DetectAll(source) = {} THEN "done" ELSE "propose"
  /\ UNCHANGED <<sourceVars, params, result, outputVars, verdict>>

\* Mutant: the evidence is the one diagnose saw.
ProposeFromDiagnosis ==
  /\ stage = "propose"
  /\ report' = [Report(source) EXCEPT !.primary = report.primary,
                                      !.classes = report.classes]
  /\ \E guess \in Guesses : params' = ForceEvidence(guess, report.classes, report)
  /\ stage' = "approve"
  /\ UNCHANGED <<sourceVars, result, outputVars, verdict>>

\* The evidence is asked for again, and forced into the LLM's guess where it was
\* diagnosed.
Propose ==
  /\ stage = "propose"
  /\ report' = [Report(source) EXCEPT !.primary = report.primary,
                                      !.classes = report.classes]
  /\ \E guess \in Guesses : params' = ForceEvidence(guess, report.classes, report')
  /\ stage' = "approve"
  /\ UNCHANGED <<sourceVars, result, outputVars, verdict>>

\* The human answers.
Answer ==
  /\ stage = "approve"
  /\ stage' \in {"execute", "done"}
  /\ UNCHANGED <<sourceVars, report, params, result, outputVars, verdict>>

Fits(lines, p) == IF ByRows(p) THEN RowsFit(lines, p) ELSE TableFits(lines, p)

\* What execute may write.
Repaired(lines, p) ==
  IF ByRows(p) THEN {RowOutput(lines, p)} ELSE TableOutputs(lines, p)

ExecuteWrites ==
  /\ stage = "execute"
  /\ \E lines \in ReadingsOfSource(params.encoding) \ {None} :
       /\ Fits(lines, params)
       /\ output' \in Repaired(lines, params)
  /\ result' = "written"
  /\ foreign' = FALSE
  /\ stage' = "verify"
  /\ UNCHANGED <<sourceVars, report, params, verdict>>

\* Mutant: whatever came of it, the output is verified.
ExecuteFailsVerifiesAnyway ==
  /\ stage = "execute"
  /\ \E lines \in ReadingsOfSource(params.encoding) :
       lines # None => ~Fits(lines, params)
  /\ result' = "failed"
  /\ stage' = "verify"
  /\ UNCHANGED <<sourceVars, report, params, outputVars, verdict>>

\* The source cannot be read or does not fit; the output is left alone.
ExecuteFails ==
  /\ stage = "execute"
  /\ \E lines \in ReadingsOfSource(params.encoding) :
       lines # None => ~Fits(lines, params)
  /\ result' = "failed"
  /\ stage' = "done"
  /\ UNCHANGED <<sourceVars, report, params, outputVars, verdict>>

\* What is under the output's path now; the row executor reads it in the
\* encoding of the source.
Verify ==
  /\ stage = "verify"
  /\ \E lines \in Readings(output, "utf-8",
                           IF ByRows(params) THEN params.encoding ELSE "utf-8") :
       verdict' = IF /\ lines # None
                     /\ IF ByRows(params) THEN RowsVerify(lines, params)
                        ELSE TableVerifies(lines)
                  THEN "passed" ELSE "failed"
  /\ stage' = "done"
  /\ UNCHANGED <<sourceVars, report, params, result, outputVars>>
-----------------------------------------------------------------------------
\* One line is removed, or one is typed in.
Edits(lines) ==
  {RemoveAt(lines, i) : i \in DOMAIN lines} \cup
  {InsertAt(lines, i, l) : i \in 1 .. Len(lines) + 1, l \in FixedLines}

\* Someone edits the source, at most once.
EditSource ==
  /\ stage \in {"propose", "approve", "execute"}
  /\ edited = "never"
  /\ edited' = IF stage = "propose" THEN "before_propose" ELSE "after_propose"
  /\ \E lines \in Edits(source.lines) :
       /\ lines # <<>>
       /\ \E d \in Sniffs(lines) :
            source' = [source EXCEPT !.lines = lines, !.delimiter = d]
  /\ UNCHANGED <<stage, report, params, result, outputVars, verdict>>

\* Another invocation replaces the output before it is verified.
OverwriteOutput ==
  /\ stage = "verify"
  /\ ~foreign
  /\ output' \in OtherOutputs
  /\ foreign' = TRUE
  /\ UNCHANGED <<stage, sourceVars, report, params, result, verdict>>

Next ==
  \/ Diagnose \/ Propose \/ Answer \/ ExecuteWrites \/ ExecuteFails \/ Verify
  \/ EditSource \/ OverwriteOutput

Spec == Init /\ [][Next]_vars
-----------------------------------------------------------------------------
(***************************************************************************)
(* Properties.                                                             *)
(***************************************************************************)

\* What the detector's methods say of any file fits together as the workflow
\* assumes: each of them repeats the analysis, and none contradicts another.
ReportConsistent == report # None /\ stage = "propose" => DetectorConsistent(report)

\* Rows are only called repairable when there is a repair to show for each: no
\* mixed-delimiter file of more than two lines is without evidence, for which
\* the LLM's rows would stand in.
MixedHasEvidence ==
  stage = "propose" /\ edited = "never" /\ "mixed_delimiter" \in report.classes
    => report.mixed_rows # {} \/ Len(source.lines) = 2

\* A file may be edited between diagnose and propose: what the human is asked
\* about then carries, for every failure that was diagnosed, the evidence the
\* detector has now - although the failures of one file meet the evidence of
\* another, and no file has both, no override undoes another.
EvidenceStillDecides ==
  stage \in {"approve", "execute", "verify"} => DecidedByEvidence(params, report)

\* The prescription is right in every field the detector knows about, for the
\* source as it is now, and reads it as the detector does.
Informed ==
  /\ params # None
  /\ params.encoding = DecodedAs(source)
  /\ params.delimiter = source.delimiter
  /\ report = Report(source)
  /\ params.header_row = CASE report.header_offset # None -> report.header_offset
                           [] "no_header" \in report.classes -> None
                           [] OTHER -> 0
  /\ params.mixed_delimiter_rows =
       IF "mixed_delimiter" \in report.classes THEN report.mixed_rows
       ELSE report.garbled_row

\* A file the detector can read, whose failures have a repair.
Fixable ==
  /\ HasStructure(source)
  /\ report.classes \cap {"engine_selection", "single_column_malformation"} = {}
  /\ "mixed_delimiter" \in report.classes => report.mixed_rows # {}
  /\ ByRows(params) \/ FieldCount(Last(source.lines), source.delimiter) >= 2

\* What the detector diagnoses and how the executors repair it agree: carried
\* out as diagnosed, a prescription is never refused.
EvidenceRepairs == Informed /\ Fixable => result # "failed"

\* A repair made from evidence loses no row: the output is the rows of the
\* source from its header on, in their order and all equally wide; what it drops
\* is none of them.  The row executor leaves every row its words and separates
\* them where they were separated; the whole-file executor only leaves it as
\* many fields as it had, and pandas' idea of what is in them.
RowsSurvive ==
  result = "written" /\ ~foreign /\ Informed =>
    LET kept == Table(source.lines, params)
        rows == IF params.header_row = None THEN Tail(output) ELSE output
        d == IF ByRows(params) THEN params.delimiter ELSE Comma
    IN  /\ [i \in DOMAIN rows |-> rows[i].key] = [i \in DOMAIN kept |-> kept[i].key]
        /\ Cardinality(FieldCountsIn(output, d)) = 1
        /\ \A i \in 1 .. Preamble(params), w \in FieldCountsIn(output, d) :
             FieldCount(source.lines[i], params.delimiter) # w
        /\ IF ByRows(params)
           THEN \A i \in DOMAIN rows :
                  /\ rows[i].words = kept[i].words
                  /\ Len(rows[i].seps) = Len(kept[i].seps)
           ELSE \A i \in DOMAIN rows :
                  FieldCount(rows[i], Comma) = FieldCount(kept[i], params.delimiter)

\* A file that passed the whole-file executor's verification - be it the one
\* that was written or one another invocation put there - is healthy for the
\* detector, but for a header that looks like data.
VerifiedIsHealthy ==
  verdict = "passed" /\ ~ByRows(params) =>
    \A d \in Sniffs(output) :
      DetectAll([lines |-> output, encoding |-> "utf-8", guess |-> None,
                 doubtful |-> FALSE, delimiter |-> d]) \subseteq {"no_header"}

\* The row executor's docstring: "so a repair lands on the row it was computed
\* for".  The line a repair replaces, as the executor reads it, is the one the
\* human was shown as its original: no line has moved, and no letter changed.
RepairsLandOnTheirRow ==
  stage = "verify" /\ params.mixed_delimiter_rows \subseteq report.mixed_rows =>
    \E lines \in ReadingsOfSource(params.encoding) \ {None} :
      \A r \in params.mixed_delimiter_rows :
        r.row_number \in DOMAIN lines => lines[r.row_number] = r.original_text

\* The same docstring on verify: "it always re-reads the output with plain
\* defaults, which is already correct".
EvidenceRepairVerifies ==
  stage = "done" /\ result = "written" /\ ~foreign /\ Informed /\ Fixable
    => verdict = "passed"
=============================================================================
