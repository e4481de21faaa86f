------------------------ MODULE MCCsvRepairWorkflow -------------------------
(***************************************************************************)
(* A small instance of CsvRepairWorkflow: seven files that between them    *)
(* exhibit every kind of evidence and the combinations that interact, and  *)
(* an LLM that answers well, guesses wrong, invents row repairs, or fails. *)
(***************************************************************************)
EXTENDS CsvRepairWorkflow

MCDelimiters == {",", ";"}
MCEncodings == {"utf-8", "utf-16"}
MCRowRepairs == {"row", "header", "invented"}

Healthy ==
  [primary |-> None, classes |-> {}, encoding |-> None, delimiter |-> ",",
   mixed_rows |-> {}, header_offset |-> None, garbled_row |-> {}]

\* A UTF-16 file with rows that use another delimiter.
EncodedMixed ==
  [Healthy EXCEPT !.primary = "wrong_encoding", !.encoding = "utf-16",
                  !.classes = {"wrong_encoding", "mixed_delimiter"},
                  !.mixed_rows = {"row"}]

\* A header and one bad row: diagnosed, but without row evidence.
TwoLineMixed ==
  [Healthy EXCEPT !.primary = "mixed_delimiter", !.classes = {"mixed_delimiter"}]

\* A preamble before the header, and a file in another delimiter.
Preamble ==
  [Healthy EXCEPT !.primary = "wrong_delimiter", !.delimiter = ";",
                  !.classes = {"wrong_delimiter", "header_detection"},
                  !.header_offset = 1]

\* The same with a header line written in several delimiters, in UTF-16.
GarbledHeader ==
  [Preamble EXCEPT !.primary = "wrong_encoding", !.encoding = "utf-16",
                   !.classes = @ \cup {"wrong_encoding"},
                   !.header_offset = 0, !.garbled_row = {"header"}]

\* UTF-16, and its first line is data.
Headerless ==
  [Healthy EXCEPT !.primary = "wrong_encoding", !.encoding = "utf-16",
                  !.classes = {"wrong_encoding", "no_header"}]

\* Bytes chardet cannot name: the detector looks no further.
UnknownBytes ==
  [Healthy EXCEPT !.primary = "wrong_encoding", !.classes = {"wrong_encoding"}]

MCSources ==
  {Healthy, EncodedMixed, TwoLineMixed, Preamble, GarbledHeader, Headerless,
   UnknownBytes}

Good ==
  [delimiter |-> ";", encoding |-> "utf-8", header_row |-> 0,
   mixed_delimiter_rows |-> {}, extra |-> FALSE]

MCProposals ==
  {Good,
   [Good EXCEPT !.header_row = 1, !.mixed_delimiter_rows = {"invented"}],
   [Good EXCEPT !.delimiter = Ill, !.encoding = Ill],
   [Good EXCEPT !.extra = TRUE]}
=============================================================================
