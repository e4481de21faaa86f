--------------------------- MODULE DetectorReport ---------------------------
(***************************************************************************)
(* What the failure detector says of a file, and the prescription that is  *)
(* made of it: the vocabulary the workflow shares with the detector and    *)
(* the executors.                                                          *)
(***************************************************************************)
EXTENDS Integers

CONSTANTS
  Delimiters,  \* single characters a prescription may name
  Encodings,   \* codec names codecs.lookup knows
  RowRepairs,  \* MixedDelimiterRowRepair values
  None         \* Python's None

FailureClasses ==
  {"wrong_encoding", "wrong_delimiter", "header_detection", "no_header",
   "invisible_characters", "mixed_delimiter", "engine_selection",
   "single_column_malformation"}

HeaderRows == Nat \cup {None}

\* CsvRepairParams; the engine is the LLM's alone and changes nothing here.
Prescriptions ==
  [delimiter : Delimiters, encoding : Encodings, header_row : HeaderRows,
   mixed_delimiter_rows : SUBSET RowRepairs]

\* What the detector's read-only passes over one file return: detect,
\* detect_all, the chardet guess, and the three kinds of evidence.
SourceFiles ==
  [primary : FailureClasses \cup {None}, classes : SUBSET FailureClasses,
   encoding : Encodings \cup {None}, delimiter : Delimiters,
   mixed_rows : SUBSET RowRepairs, header_offset : Nat \cup {None},
   garbled_row : SUBSET RowRepairs]

\* The shape of detect_all's early returns: the header-offset branch returns
\* before the mixed-delimiter analysis, NO_HEADER is only considered when there
\* is no offset, the offset evidence repeats the analysis of detect_all, and a
\* file that cannot be decoded in any encoding chardet names is looked at no
\* further.
DetectorConsistent(s) ==
  /\ s.classes = {} <=> s.primary = None
  /\ s.classes # {} => s.primary \in s.classes
  /\ "header_detection" \in s.classes
        => s.classes \cap {"mixed_delimiter", "no_header"} = {}
  /\ "mixed_delimiter" \in s.classes => "no_header" \notin s.classes
  /\ "header_detection" \in s.classes <=> s.header_offset # None
  /\ s.garbled_row # {} => "header_detection" \in s.classes
  /\ "wrong_encoding" \in s.classes /\ s.encoding = None
        => s.classes = {"wrong_encoding"}
-----------------------------------------------------------------------------
(***************************************************************************)
(* propose forces the fields that are never the LLM's to guess into its    *)
(* answer: what was diagnosed earlier decides which evidence is used, what *)
(* the detector says now is the evidence.                                  *)
(***************************************************************************)
ForceEncoding(raw, classes, s) ==
  IF "wrong_encoding" \in classes /\ s.encoding # None
  THEN [raw EXCEPT !.encoding = s.encoding] ELSE raw

ForceMixedRows(raw, classes, s) ==
  IF "mixed_delimiter" \in classes /\ s.mixed_rows # {}
  THEN [raw EXCEPT !.delimiter = s.delimiter,
                   !.mixed_delimiter_rows = s.mixed_rows] ELSE raw

ForceHeaderOffset(raw, classes, s) ==
  IF "header_detection" \in classes /\ s.header_offset # None
  THEN [raw EXCEPT !.header_row = s.header_offset] ELSE raw

ForceGarbledHeader(raw, classes, s) ==
  IF "header_detection" \in classes /\ s.garbled_row # {}
  THEN [raw EXCEPT !.delimiter = s.delimiter,
                   !.mixed_delimiter_rows = s.garbled_row] ELSE raw

ForceNoHeader(raw, classes, s) ==
  IF "no_header" \in classes THEN [raw EXCEPT !.header_row = None]
  ELSE raw

\* Mutant: only the primary failure class's evidence is used, although the
\* file exhibits several.
ForcePrimaryOnly(raw, classes, s) ==
  LET only == {s.primary}
      encoded == ForceEncoding(raw, only, s)
      rows == ForceMixedRows(encoded, only, s)
      offset == ForceHeaderOffset(rows, only, s)
      header == ForceGarbledHeader(offset, only, s)
  IN  ForceNoHeader(header, only, s)

ForceEvidence(raw, classes, s) ==
  LET encoded == ForceEncoding(raw, classes, s)
      rows == ForceMixedRows(encoded, classes, s)
      offset == ForceHeaderOffset(rows, classes, s)
      header == ForceGarbledHeader(offset, classes, s)
  IN  ForceNoHeader(header, classes, s)

\* Prescription p carries the detector's evidence about file s wherever there
\* is some.
DecidedByEvidence(p, s) ==
  /\ "wrong_encoding" \in s.classes /\ s.encoding # None
        => p.encoding = s.encoding
  /\ "mixed_delimiter" \in s.classes /\ s.mixed_rows # {}
        => p.delimiter = s.delimiter /\ p.mixed_delimiter_rows = s.mixed_rows
  /\ "header_detection" \in s.classes /\ s.header_offset # None
        => p.header_row = s.header_offset
  /\ "header_detection" \in s.classes /\ s.garbled_row # {}
        => p.delimiter = s.delimiter /\ p.mixed_delimiter_rows = s.garbled_row
  /\ "no_header" \in s.classes => p.header_row = None
=============================================================================
