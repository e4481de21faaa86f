------------------------- MODULE MCRepairAndProcess -------------------------
(***************************************************************************)
(* RepairAndProcess over three files: a healthy one, one whose repair may  *)
(* come out unverifiable, and one without evidence for its failure.        *)
(***************************************************************************)
EXTENDS RepairAndProcess

MCDelimiters == {",", ";"}
MCEncodings == {"utf-8", "utf-16"}
MCRowRepairs == {"row"}

Healthy ==
  [primary |-> None, classes |-> {}, encoding |-> None, delimiter |-> ",",
   mixed_rows |-> {}, header_offset |-> None, garbled_row |-> {}]

EncodedMixed ==
  [Healthy EXCEPT !.primary = "wrong_encoding", !.encoding = "utf-16",
                  !.classes = {"wrong_encoding", "mixed_delimiter"},
                  !.mixed_rows = {"row"}]

WrongDelimiter ==
  [Healthy EXCEPT !.primary = "wrong_delimiter", !.classes = {"wrong_delimiter"}]

MCSources == {Healthy, EncodedMixed, WrongDelimiter}

Good ==
  [delimiter |-> ";", encoding |-> "utf-8", header_row |-> 0,
   mixed_delimiter_rows |-> {}, extra |-> FALSE]

MCProposals == {Good, [Good EXCEPT !.header_row = 1], [Good EXCEPT !.extra = TRUE]}
=============================================================================
