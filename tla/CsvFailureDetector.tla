------------------------- MODULE CsvFailureDetector -------------------------
(***************************************************************************)
(* The line analysis of local_csv_failure_detector.py: what detect_all and *)
(* the evidence methods conclude from the field counts of a file's lines.  *)
(* Each method of the detector repeats the analysis on its own; so do the  *)
(* definitions below.                                                      *)
(*                                                                         *)
(* A line is a key (which row it is), whose words it holds, whether it     *)
(* starts with a number, and the separating characters between the words,  *)
(* in order.  The words are the file's own, what those bytes read as in    *)
(* another encoding, or what pandas makes of them when it infers types.  A *)
(* character is one that may delimit fields, an invisible one, or a        *)
(* delimiter that csv.writer has put inside quotes and no field count sees *)
(* any more.  Delivered files are unquoted; their lines are the non-blank  *)
(* ones.                                                                   *)
(***************************************************************************)
EXTENDS Integers, Sequences, SequencesExt, DetectorReport

CONSTANTS
  Sniffable,   \* _CANDIDATE_DELIMITERS: all that csv.Sniffer may answer
  Invisible,   \* a zero-width character
  Quoted,      \* a delimiter inside quotes
  MaxPreamble, \* _MAX_PREAMBLE_LINES_SEARCHED
  Confusable,  \* single-byte encodings chardet takes for one another
  Fallback     \* the one of them a doubtful guess is replaced by

Comma == ","

ASSUME CharacterAssumption ==
  /\ Comma \in Sniffable /\ Sniffable \subseteq Delimiters
  /\ Invisible \notin Delimiters /\ Quoted \notin Delimiters
  /\ Invisible # Quoted

ASSUME PreambleAssumption == MaxPreamble \in Nat \ {0}

ASSUME EncodingAssumption ==
  Fallback \in Confusable /\ Confusable \subseteq Encodings \ {"utf-8"}

Words == {"own", "misread", "typed"}

Lines ==
  [key : Nat, words : Words, number : BOOLEAN,
   seps : Seq(Delimiters \cup {Invisible, Quoted})]

ASSUME NoneAssumption ==
  /\ None \notin Nat /\ None \notin FailureClasses
  /\ None \notin Encodings /\ None \notin Seq(Lines)

\* A delivered file: the encoding of its bytes, what chardet makes of them and
\* whether it has its doubts, the lines the detector reads, and what csv.Sniffer
\* answers for this text every time it is asked.
Files ==
  [lines : Seq(Lines), encoding : Encodings, guess : Encodings \cup {None},
   doubtful : BOOLEAN, delimiter : Sniffable]

FieldCount(line, d) ==
  1 + Cardinality({i \in DOMAIN line.seps : line.seps[i] = d})

\* _sniff_delimiter: a comma that every line has equally often wins; in any
\* other text it may be each of the candidates there, or the default.
Sniffs(lines) ==
  LET commas == {FieldCount(lines[i], Comma) : i \in DOMAIN lines}
  IN  IF Cardinality(commas) = 1 /\ commas # {1} THEN {Comma}
      ELSE {Comma} \cup
             (Sniffable \cap UNION {ToSet(lines[i].seps) : i \in DOMAIN lines})

Counts(file) ==
  [i \in DOMAIN file.lines |-> FieldCount(file.lines[i], file.delimiter)]

\* What every method returns early for: bytes chardet cannot name, and texts
\* too short to have a structure.
Decodable(file) == file.encoding = "utf-8" \/ file.guess # None

\* The encoding the lines are read in, right or wrong.
DecodedAs(file) ==
  IF file.encoding = "utf-8" \/ file.guess = None THEN file.encoding ELSE file.guess

HasStructure(file) == Decodable(file) /\ Len(file.lines) >= 2
SingleColumn(file) == \A i \in DOMAIN file.lines : Counts(file)[i] = 1

\* Characters of a line that could be meant as a delimiter: not alphanumeric,
\* and not d itself.
Candidates(line, d) == ToSet(line.seps) \ {d, Quoted}
-----------------------------------------------------------------------------
(***************************************************************************)
(* The header.                                                             *)
(***************************************************************************)

\* Mutant: rows that fit are taken for a preamble because a bad row follows.
StartsTableAnyPreamble(counts, n) ==
  \A i \in n + 1 .. Len(counts) : counts[i] = counts[n + 1]

\* All lines after the first n agree with each other, and none before does.
StartsTable(counts, n) ==
  /\ \A i \in n + 1 .. Len(counts) : counts[i] = counts[n + 1]
  /\ \A i \in 1 .. n : counts[i] # counts[n + 1]

\* Mutant: the tail must be longer than a header and one row.
OffsetsSearchedTooFew(counts) == 0 .. Min({MaxPreamble, Len(counts) - 3})

OffsetsSearched(counts) == 0 .. Min({MaxPreamble, Len(counts) - 2})

\* _find_header_offset.
FindHeaderOffset(counts) ==
  LET offsets == {n \in OffsetsSearched(counts) : StartsTable(counts, n)}
  IN  IF offsets = {} THEN None ELSE Min(offsets)

\* _resolve_garbled_header_line: every candidate becomes the delimiter at once.
Normalized(line, d) ==
  [line EXCEPT !.seps = [i \in DOMAIN @ |-> IF @[i] = Quoted THEN Quoted ELSE d]]

ResolvesAsHeader(line, d, width) ==
  Candidates(line, d) # {} /\ FieldCount(Normalized(line, d), d) = width

\* The line before a table that starts after n lines is its header, garbled.
GarbledBefore(file, n) ==
  /\ n > 0
  /\ ResolvesAsHeader(file.lines[n], file.delimiter, Counts(file)[n + 1])

\* A line's first field parses as a number; with any other character in it, in
\* quotes or not, it does not.
LeadsWithNumber(line, d) ==
  line.number /\ (line.seps # <<>> => line.seps[1] = d)

\* _looks_headerless; only the first column may hold numbers.
LooksHeaderless(file) ==
  \A i \in DOMAIN file.lines : LeadsWithNumber(file.lines[i], file.delimiter)

ContainsInvisible(line) == Invisible \in ToSet(line.seps)
-----------------------------------------------------------------------------
(***************************************************************************)
(* Rows in another delimiter.                                              *)
(***************************************************************************)

\* A row parsed with one delimiter and written with another: a field that
\* holds the new one is quoted, and with it everything inside.
Reseparated(line, from, to) ==
  LET s == line.seps
      InQuotes(i) ==
        \E j \in DOMAIN s :
          s[j] = to /\ \A k \in Min({i, j}) .. Max({i, j}) : s[k] # from
  IN  [line EXCEPT !.seps =
         [i \in DOMAIN s |-> CASE s[i] = from -> to
                               [] InQuotes(i) -> Quoted
                               [] OTHER -> s[i]]]

\* _resolve_row_delimiter's qualifying candidates.
RowDelimiters(line, d, width) ==
  {c \in Candidates(line, d) : FieldCount(line, c) = width}

\* The places of character c inside the field of the line with that index.
Inside(line, d, field, c) ==
  {i \in DOMAIN line.seps :
     line.seps[i] = c /\ FieldCount([seps |-> SubSeq(line.seps, 1, i)], d) = field}

\* _resolve_single_field_subsplit's matches.
Subsplits(line, d, deficit) ==
  {match \in (1 .. FieldCount(line, d)) \X Candidates(line, d) :
     Cardinality(Inside(line, d, match[1], match[2])) = deficit}

Subsplit(line, d, match) ==
  [line EXCEPT !.seps =
     [i \in DOMAIN @ |-> IF i \in Inside(line, d, match[1], match[2]) THEN d
                         ELSE @[i]]]

\* The row as repaired, if there is exactly one way to do it.
Resolutions(line, d, width) ==
  LET whole == RowDelimiters(line, d, width)
      deficit == width - FieldCount(line, d)
      split == IF deficit > 0 THEN Subsplits(line, d, deficit) ELSE {}
  IN  CASE Cardinality(whole) = 1 -> {Reseparated(line, c, d) : c \in whole}
        [] Cardinality(whole) # 1 /\ Cardinality(split) = 1
             -> {Subsplit(line, d, match) : match \in split}
        [] OTHER -> {}

Disagreeing(file) ==
  {i \in 2 .. Len(file.lines) : Counts(file)[i] # Counts(file)[1]}

ResolutionsOf(file, i) ==
  Resolutions(file.lines[i], file.delimiter, Counts(file)[1])

RowRepair(i, original, repaired) ==
  [row_number |-> i, original_text |-> original, repaired_text |-> repaired]

\* _find_mixed_delimiter_rows: all disagreeing rows, or none.
FindMixedRows(file) ==
  IF \E i \in Disagreeing(file) : ResolutionsOf(file, i) = {} THEN {}
  ELSE UNION {{RowRepair(i, file.lines[i], r) : r \in ResolutionsOf(file, i)} :
                i \in Disagreeing(file)}
-----------------------------------------------------------------------------
(***************************************************************************)
(* The detector's methods.                                                 *)
(***************************************************************************)

\* What detect_all finds in a text that has a structure.
StructuralClasses(file) ==
  LET offset == FindHeaderOffset(Counts(file))
  IN  CASE SingleColumn(file) -> {"single_column_malformation"}
        [] ~SingleColumn(file) /\ offset \notin {None, 0}
             -> {"header_detection"}
        [] ~SingleColumn(file) /\ offset = 0
             -> (IF LooksHeaderless(file) THEN {"no_header"} ELSE {})
                  \cup (IF ContainsInvisible(file.lines[1])
                        THEN {"invisible_characters"} ELSE {})
        [] ~SingleColumn(file) /\ offset = None /\ FindMixedRows(file) # {}
             -> {"mixed_delimiter"}
        [] OTHER -> {"engine_selection"}

DetectAll(file) ==
  (IF file.encoding # "utf-8" THEN {"wrong_encoding"} ELSE {})
    \cup (IF HasStructure(file)
          THEN (IF file.delimiter # Comma THEN {"wrong_delimiter"} ELSE {})
                 \cup StructuralClasses(file)
          ELSE {})

\* _PRIORITY.
Priority ==
  <<"wrong_encoding", "wrong_delimiter", "header_detection", "no_header",
    "invisible_characters", "mixed_delimiter", "engine_selection",
    "single_column_malformation">>

Detect(file) ==
  IF DetectAll(file) = {} THEN None
  ELSE Priority[Min({i \in DOMAIN Priority : Priority[i] \in DetectAll(file)})]

EvidenceDelimiter(file) == IF HasStructure(file) THEN file.delimiter ELSE Comma

\* detect_mixed_delimiter_evidence; it looks for uniform data rows itself.
MixedEvidence(file) ==
  IF HasStructure(file) /\ ~SingleColumn(file)
       /\ \E i, j \in 2 .. Len(file.lines) : Counts(file)[i] # Counts(file)[j]
  THEN FindMixedRows(file) ELSE {}

\* Mutant: a header that needs its text fixed but no line dropped is forgotten.
HeaderOffsetEvidencePositive(file) ==
  LET offset == FindHeaderOffset(Counts(file))
      effective == IF GarbledBefore(file, offset) THEN offset - 1 ELSE offset
  IN  IF ~HasStructure(file) \/ SingleColumn(file) \/ offset = None THEN None
      ELSE IF effective > 0 THEN effective ELSE None

\* detect_header_offset_evidence.
HeaderOffsetEvidence(file) ==
  LET offset == FindHeaderOffset(Counts(file))
      garbled == GarbledBefore(file, offset)
      effective == IF garbled THEN offset - 1 ELSE offset
  IN  IF ~HasStructure(file) \/ SingleColumn(file) \/ offset = None THEN None
      ELSE IF effective > 0 \/ garbled THEN effective ELSE None

\* detect_garbled_header_repair: the line right before the table.
GarbledEvidence(file) ==
  LET offset == FindHeaderOffset(Counts(file))
  IN  IF ~HasStructure(file) \/ SingleColumn(file) \/ offset = None THEN {}
      ELSE IF GarbledBefore(file, offset)
           THEN {RowRepair(offset, file.lines[offset],
                           Normalized(file.lines[offset], file.delimiter))}
           ELSE {}

\* _detect_encoding, which the workflow asks instead of the detector: it does not
\* trust every guess the detector has decoded the file with.
DetectEncoding(file) ==
  IF file.doubtful /\ file.guess \in Confusable THEN Fallback ELSE file.guess

\* Everything the workflow may ask about one file.
Report(file) ==
  [primary |-> Detect(file), classes |-> DetectAll(file),
   encoding |-> DetectEncoding(file), delimiter |-> EvidenceDelimiter(file),
   mixed_rows |-> MixedEvidence(file),
   header_offset |-> HeaderOffsetEvidence(file),
   garbled_row |-> GarbledEvidence(file)]
=============================================================================
