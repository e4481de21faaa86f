-------------------------- MODULE MCCsvFileRepair ---------------------------
(***************************************************************************)
(* CsvFileRepair over short files: every file of three lines over a small  *)
(* stock of lines, and files of four or five with a preamble, a garbled    *)
(* header, rows in another delimiter and rows nothing resolves.            *)
(***************************************************************************)
EXTENDS CsvFileRepair

\* One delimiter csv.Sniffer never answers: the slash of a date.
MCDelimiters == {",", ";", "/"}
MCSniffable == {",", ";"}
MCEncodings == {"utf-8", "utf-16", "iso8859-4", "cp1252"}
MCConfusable == {"iso8859-4", "cp1252"}
MCRowRepairs == [row_number : Nat, original_text : Lines, repaired_text : Lines]

Line(k, numeric, s) ==
  [key |-> k, words |-> "own", number |-> numeric, seps |-> s]

\* Files written with these separators; every row starts with a number, the
\* first line only if the file has no header.
Rows(separators, headerless) ==
  [i \in DOMAIN separators |-> Line(i, headerless \/ i > 1, separators[i])]

File(lines, written, known, d) ==
  [lines |-> lines, encoding |-> written, guess |-> known,
   doubtful |-> known # None /\ known # written, delimiter |-> d]

Delivered(all, written, known) ==
  UNION {{File(lines, written, known, d) : d \in Sniffs(lines)} : lines \in all}

Stock == {<<>>, <<",">>, <<";">>, <<",", ",">>, <<";", ",">>, <<";", ";">>}

ThreeLines == {Rows(<<a, b, c>>, FALSE) : a, b, c \in Stock}

FourLines ==
  {Rows(<<a, b, c, d>>, FALSE) :
     a \in {<<>>, <<",", ";">>, <<",", ",">>},
     b \in {<<>>, <<",", ",">>, <<";", "/">>},
     c \in {<<",", ",">>, <<",", ",", ";">>, <<",", ";">>},
     d \in {<<",", ",">>, <<"/", ";", "/">>, <<";", ";">>}}

\* One line of preamble more than the search allows.
LongPreamble == {Rows(<<<<>>, <<>>, <<>>, <<",", ",">>, <<",", ",">>>>, FALSE)}

Headerless ==
  {Rows(<<a, a, a>>, TRUE) : a \in {<<",", ",">>, <<";", ",">>}}

ZeroWidth == {Rows(<<<<Invisible, ",">>, a>>, FALSE) : a \in Stock}

Encoded ==
  {Rows(<<a, a, b>>, FALSE) : a \in {<<",", ",">>}, b \in {<<",", ",">>, <<";", ";">>}}

\* Files in UTF-16 that the detector reads as what they are.
MCUtf16Sources == Delivered(Encoded, "utf-16", "utf-16")

MCSources ==
  Delivered(ThreeLines \cup FourLines \cup LongPreamble
              \cup Headerless \cup ZeroWidth
              \cup {Rows(<<<<",">>>>, FALSE)}, "utf-8", None)
    \cup MCUtf16Sources
    \cup Delivered(Encoded, "utf-16", None)
    \cup Delivered(Encoded, "cp1252", "cp1252")
    \cup Delivered(Encoded, "cp1252", "iso8859-4")

\* Both delimiters, and one guess that is wrong in everything.
MCGuesses ==
  {[delimiter |-> d, encoding |-> "utf-8", header_row |-> 0,
    mixed_delimiter_rows |-> {}] : d \in MCSniffable} \cup
  {[delimiter |-> "/", encoding |-> "utf-16", header_row |-> 1,
    mixed_delimiter_rows |->
      {RowRepair(2, Line(2, TRUE, <<>>), Line(99, FALSE, <<",">>))}]}

MCFixedLines == {Line(50, TRUE, <<",", ",">>)}

\* A table of another file, with a quoted comma in it; one column; rows that do
\* not fit, as an LLM's row repairs may leave them.
MCOtherOutputs ==
  {<<Line(1, FALSE, <<",">>), Line(2, TRUE, <<",", Quoted>>)>>,
   <<Line(1, FALSE, <<>>), Line(2, TRUE, <<>>)>>,
   <<Line(1, FALSE, <<",">>), Line(2, FALSE, <<";">>)>>}
=============================================================================
