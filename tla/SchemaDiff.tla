----------------------------- MODULE SchemaDiff -----------------------------
(***************************************************************************)
(* Tier 2's structural diff (schema_diff.py), the operations derived from  *)
(* it, and what executing and verifying them does to a file's columns.     *)
(*                                                                         *)
(* A schema is a function from the column names of a table to their        *)
(* logical types.  Two types stand for the five of the code: "int64" for   *)
(* every type that pandas infers again when it re-reads the file it wrote, *)
(* "string" for the one it reads back as `object'.                         *)
(***************************************************************************)
EXTENDS Integers, FiniteSets

CONSTANTS
  Names,       \* column names
  Similarity,  \* Similarity[removed, added]: SequenceMatcher's ratio, in percent
  None         \* Python's None

Floor == 40    \* _RENAME_HINT_FLOOR
LogicalTypes == {"int64", "string"}
Schemas == UNION {[S -> LogicalTypes] : S \in SUBSET Names}

ASSUME SimilarityAssumption == Similarity \in [Names \X Names -> 0..100]
ASSUME NoneAssumption == None \notin Names

\* SchemaRepairOperation; a header is assigned to positions, not to columns.
Rename(from, to) ==
  [op |-> "rename", column |-> from, target_column |-> to, target_type |-> None]
Cast(column, type) ==
  [op |-> "cast", column |-> column, target_column |-> None, target_type |-> type]
AddDefault(column, type) ==
  [op |-> "add_default", column |-> column, target_column |-> None, target_type |-> type]
Drop(column) ==
  [op |-> "drop", column |-> column, target_column |-> None, target_type |-> None]
AssignHeader(name) ==
  [op |-> "assign_header", column |-> None, target_column |-> name, target_type |-> None]

Operations ==
  {Rename(a, b) : a, b \in Names}
    \cup {Cast(a, t) : a \in Names, t \in LogicalTypes}
    \cup {AddDefault(a, t) : a \in Names, t \in LogicalTypes}
    \cup {Drop(a) : a \in Names} \cup {AssignHeader(a) : a \in Names}
-----------------------------------------------------------------------------
(***************************************************************************)
(* compute_column_diff and compute_rename_hints.                           *)
(***************************************************************************)
Added(baseline, current) == DOMAIN current \ DOMAIN baseline
Removed(baseline, current) == DOMAIN baseline \ DOMAIN current
TypeChanged(baseline, current) ==
  {n \in DOMAIN baseline \cap DOMAIN current : baseline[n] # current[n]}
HasChanges(baseline, current) == baseline # current

Candidates(baseline, current) ==
  {pair \in Removed(baseline, current) \X Added(baseline, current) :
     Similarity[pair] >= Floor}

Conflict(p, q) == p # q /\ (p[1] = q[1] \/ p[2] = q[2])

\* What a greedy one-to-one pairing by falling similarity may return; there is
\* a choice only between equally similar pairs.
RenameHints(baseline, current) ==
  {M \in SUBSET Candidates(baseline, current) :
     /\ \A p, q \in M : ~Conflict(p, q)
     /\ \A p \in Candidates(baseline, current) \ M :
          \E q \in M : Conflict(p, q) /\ Similarity[q] >= Similarity[p]}
-----------------------------------------------------------------------------
\* Mutant: columns the baseline does not know are left alone.
OperationsForKeepsAdded(baseline, current, renames) ==
  {Rename(r[2], r[1]) : r \in renames}
    \cup {Cast(n, current[n]) : n \in TypeChanged(baseline, current)}
    \cup {AddDefault(n, baseline[n]) :
            n \in Removed(baseline, current) \ {r[1] : r \in renames}}

\* Mutant: a renamed column is still missing for the part that adds defaults.
OperationsForAddsRenamed(baseline, current, renames) ==
  {Rename(r[2], r[1]) : r \in renames}
    \cup {Cast(n, current[n]) : n \in TypeChanged(baseline, current)}
    \cup {AddDefault(n, baseline[n]) : n \in Removed(baseline, current)}
    \cup {Drop(n) : n \in Added(baseline, current) \ {r[2] : r \in renames}}

\* The operations propose derives from a diff and the confirmed renames.  A
\* cast goes to the type the file already has (TypeChange.to_type).
OperationsFor(baseline, current, renames) ==
  {Rename(r[2], r[1]) : r \in renames}
    \cup {Cast(n, current[n]) : n \in TypeChanged(baseline, current)}
    \cup {AddDefault(n, baseline[n]) :
            n \in Removed(baseline, current) \ {r[1] : r \in renames}}
    \cup {Drop(n) : n \in Added(baseline, current) \ {r[2] : r \in renames}}

Touched(operation) == {operation.column, operation.target_column} \ {None}
-----------------------------------------------------------------------------
(***************************************************************************)
(* PandasSchemaExecutor, on the columns of a file.                         *)
(***************************************************************************)

\* drop and cast raise for a column that is not there; astype("int64") raises
\* for text.  Renaming what is not there does nothing.
Executable(columns, operations) ==
  \A o \in operations :
    /\ o.op \in {"drop", "cast"} => o.column \in DOMAIN columns
    /\ o.op = "cast" /\ o.target_type = "int64" => columns[o.column] = "int64"

Renamed(columns, operations) ==
  {o \in operations : o.op = "rename" /\ o.column \in DOMAIN columns}

\* The columns of the repaired file, as pandas reads it back: a cast to
\* "string" changes nothing that is written.  (A rename onto a name that is
\* taken, which only a new delivery makes possible, displaces that column here.)
Executed(columns, operations) ==
  LET renamed == Renamed(columns, operations)
      dropped == {o.column : o \in {p \in operations : p.op = "drop"}}
      added == {o \in operations : o.op = "add_default"}
      kept == DOMAIN columns \ (dropped \cup {o.column : o \in renamed})
  IN [n \in kept \cup {o.target_column : o \in renamed} \cup {o.column : o \in added} |->
        IF \E o \in added : o.column = n
        THEN (CHOOSE o \in added : o.column = n).target_type
        ELSE IF \E o \in renamed : o.target_column = n
        THEN columns[(CHOOSE o \in renamed : o.target_column = n).column]
        ELSE columns[n]]

\* verify's checks.  A text column is read as `object', which is never the
\* "string" a cast to it is expected to leave.
EndStateHolds(columns, operations) ==
  \A o \in operations :
    /\ o.op \in {"rename", "drop"} => o.column \notin DOMAIN columns
    /\ o.op \in {"rename", "assign_header"} => o.target_column \in DOMAIN columns
    /\ o.op = "add_default" => o.column \in DOMAIN columns
    /\ o.op = "cast" => /\ o.column \in DOMAIN columns
                        /\ o.target_type = "int64"
                        /\ columns[o.column] = "int64"
=============================================================================
