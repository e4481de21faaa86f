-------------------------- MODULE SchemaDiff_proofs --------------------------
(***************************************************************************)
(* What Tier 2's diff, its operations and their execution guarantee of     *)
(* each other, for every pair of schemas, every similarity of names and    *)
(* every answer of the LLM about the hints.                                *)
(***************************************************************************)
EXTENDS SchemaDiff, TLAPS

\* The renames the LLM may confirm: each leads from a removed column to an
\* added one, and no column takes part in two.
Matchings(baseline, current) ==
  {M \in SUBSET (Removed(baseline, current) \X Added(baseline, current)) :
     \A p, q \in M : ~Conflict(p, q)}

\* A schema gives types to some of the names.
LEMMA SchemaTyped ==
  ASSUME NEW s \in Schemas
  PROVE  DOMAIN s \subseteq Names /\ \A n \in DOMAIN s : s[n] \in LogicalTypes
<1>1. PICK S \in SUBSET Names : s \in [S -> LogicalTypes]
  BY DEF Schemas
<1>2. QED
  BY <1>1

\* A function from names to types is a schema.
LEMMA IsSchema ==
  ASSUME NEW S \in SUBSET Names, NEW s \in [S -> LogicalTypes]
  PROVE  s \in Schemas
BY DEF Schemas

\* The fields of each kind of operation.
LEMMA OperationTyped ==
  ASSUME NEW o \in Operations
  PROVE  /\ o.op = "rename" => o.column \in Names /\ o.target_column \in Names
         /\ o.op = "cast" => o.column \in Names /\ o.target_column = None
                               /\ o.target_type \in LogicalTypes
         /\ o.op = "add_default" => o.column \in Names /\ o.target_column = None
                                      /\ o.target_type \in LogicalTypes
         /\ o.op = "drop" => o.column \in Names /\ o.target_column = None
         /\ o.op = "assign_header" => o.column = None /\ o.target_column \in Names
BY DEF Operations, Rename, Cast, AddDefault, Drop, AssignHeader

\* Fuzzy matching pairs columns one to one, and so does any part of what it
\* found.
LEMMA HintsMatch ==
  ASSUME NEW baseline, NEW current,
         NEW hints \in RenameHints(baseline, current), NEW M \in SUBSET hints
  PROVE  M \in Matchings(baseline, current)
<1>1. /\ hints \in SUBSET Candidates(baseline, current)
      /\ \A p, q \in hints : ~Conflict(p, q)
  BY DEF RenameHints
<1>2. Candidates(baseline, current) \subseteq
        Removed(baseline, current) \X Added(baseline, current)
  BY DEF Candidates
<1>3. QED
  BY <1>1, <1>2 DEF Matchings

\* What is derived from a diff are operations.
LEMMA DerivedTyped ==
  ASSUME NEW baseline \in Schemas, NEW current \in Schemas,
         NEW M \in Matchings(baseline, current)
  PROVE  OperationsFor(baseline, current, M) \subseteq Operations
<1>1. /\ DOMAIN baseline \subseteq Names /\ DOMAIN current \subseteq Names
      /\ \A n \in DOMAIN baseline : baseline[n] \in LogicalTypes
      /\ \A n \in DOMAIN current : current[n] \in LogicalTypes
  BY SchemaTyped
<1>2. \A r \in M : r[1] \in Names /\ r[2] \in Names
  BY <1>1 DEF Matchings, Removed, Added
<1>3. {Rename(r[2], r[1]) : r \in M} \subseteq Operations
  BY <1>2 DEF Operations
<1>4. {Cast(n, current[n]) : n \in TypeChanged(baseline, current)} \subseteq Operations
  BY <1>1 DEF Operations, TypeChanged
<1>5. {AddDefault(n, baseline[n]) :
         n \in Removed(baseline, current) \ {r[1] : r \in M}} \subseteq Operations
  BY <1>1 DEF Operations, Removed
<1>6. {Drop(n) : n \in Added(baseline, current) \ {r[2] : r \in M}} \subseteq Operations
  BY <1>1 DEF Operations, Added
<1>7. QED
  BY <1>3, <1>4, <1>5, <1>6 DEF OperationsFor
-----------------------------------------------------------------------------
\* An operation derived from a diff, with the columns it touches.
LEMMA DerivedCases ==
  ASSUME NEW baseline \in Schemas, NEW current \in Schemas,
         NEW M \in Matchings(baseline, current),
         NEW o \in OperationsFor(baseline, current, M)
  PROVE  \/ \E r \in M : o = Rename(r[2], r[1]) /\ Touched(o) = {r[1], r[2]}
         \/ \E n \in TypeChanged(baseline, current) :
              o = Cast(n, current[n]) /\ Touched(o) = {n}
         \/ \E n \in Removed(baseline, current) \ {r[1] : r \in M} :
              o = AddDefault(n, baseline[n]) /\ Touched(o) = {n}
         \/ \E n \in Added(baseline, current) \ {r[2] : r \in M} :
              o = Drop(n) /\ Touched(o) = {n}
<1> USE NoneAssumption DEF Touched
<1>1. DOMAIN baseline \subseteq Names /\ DOMAIN current \subseteq Names
  BY SchemaTyped
<1>2. CASE o \in {Rename(r[2], r[1]) : r \in M}
  <2>1. PICK r \in M : o = Rename(r[2], r[1])
    BY <1>2
  <2>2. r[1] \in Names /\ r[2] \in Names
    BY <1>1 DEF Matchings, Removed, Added
  <2>3. Touched(o) = {r[1], r[2]}
    BY <2>1, <2>2 DEF Rename
  <2>4. QED
    BY <2>1, <2>3
<1>3. CASE o \in {Cast(n, current[n]) : n \in TypeChanged(baseline, current)}
  <2>1. PICK n \in TypeChanged(baseline, current) : o = Cast(n, current[n])
    BY <1>3
  <2>2. Touched(o) = {n}
    BY <1>1, <2>1 DEF Cast, TypeChanged
  <2>3. QED
    BY <2>1, <2>2
<1>4. CASE o \in {AddDefault(n, baseline[n]) :
                    n \in Removed(baseline, current) \ {r[1] : r \in M}}
  <2>1. PICK n \in Removed(baseline, current) \ {r[1] : r \in M} :
          o = AddDefault(n, baseline[n])
    BY <1>4
  <2>2. Touched(o) = {n}
    BY <1>1, <2>1 DEF AddDefault, Removed
  <2>3. QED
    BY <2>1, <2>2
<1>5. CASE o \in {Drop(n) : n \in Added(baseline, current) \ {r[2] : r \in M}}
  <2>1. PICK n \in Added(baseline, current) \ {r[2] : r \in M} : o = Drop(n)
    BY <1>5
  <2>2. Touched(o) = {n}
    BY <1>1, <2>1 DEF Drop, Added
  <2>3. QED
    BY <2>1, <2>2
<1>6. QED
  BY <1>2, <1>3, <1>4, <1>5 DEF OperationsFor

\* Whatever the fuzzy match and the LLM make of the renames, no column is
\* touched by two of the derived operations.
THEOREM DerivedDisjoint ==
  ASSUME NEW baseline \in Schemas, NEW current \in Schemas,
         NEW M \in Matchings(baseline, current),
         NEW o \in OperationsFor(baseline, current, M),
         NEW p \in OperationsFor(baseline, current, M), o # p
  PROVE  Touched(o) \cap Touched(p) = {}
<1> DEFINE R == Removed(baseline, current)
           A == Added(baseline, current)
           T == TypeChanged(baseline, current)
<1>1. R \cap A = {} /\ R \cap T = {} /\ A \cap T = {}
  BY DEF Removed, Added, TypeChanged
<1>2. /\ \A r \in M : r[1] \in R /\ r[2] \in A
      /\ \A r, q \in M : r # q => r[1] # q[1] /\ r[2] # q[2]
  BY DEF Matchings, Conflict
<1> HIDE DEF R, A, T
<1>3. ASSUME NEW x \in OperationsFor(baseline, current, M)
      PROVE  \/ \E r \in M : x = Rename(r[2], r[1]) /\ Touched(x) = {r[1], r[2]}
             \/ \E n \in T : x = Cast(n, current[n]) /\ Touched(x) = {n}
             \/ \E n \in R \ {r[1] : r \in M} :
                  x = AddDefault(n, baseline[n]) /\ Touched(x) = {n}
             \/ \E n \in A \ {r[2] : r \in M} : x = Drop(n) /\ Touched(x) = {n}
  BY DerivedCases DEF R, A, T
<1>4. CASE \E r \in M : o = Rename(r[2], r[1]) /\ Touched(o) = {r[1], r[2]}
  BY <1>1, <1>2, <1>3, <1>4
<1>5. CASE \E n \in T : o = Cast(n, current[n]) /\ Touched(o) = {n}
  BY <1>1, <1>2, <1>3, <1>5
<1>6. CASE \E n \in R \ {r[1] : r \in M} :
             o = AddDefault(n, baseline[n]) /\ Touched(o) = {n}
  BY <1>1, <1>2, <1>3, <1>6
<1>7. CASE \E n \in A \ {r[2] : r \in M} : o = Drop(n) /\ Touched(o) = {n}
  BY <1>1, <1>2, <1>3, <1>7
<1>8. QED
  BY <1>3, <1>4, <1>5, <1>6, <1>7
-----------------------------------------------------------------------------
\* What the executor leaves, without the LET of its definition: a column that
\* is kept, that some column was renamed to, or that was added.
LEMMA ExecutedColumns ==
  ASSUME NEW columns \in Schemas, NEW ops \in SUBSET Operations
  PROVE  DOMAIN Executed(columns, ops) =
           (DOMAIN columns \ {o.column : o \in {p \in ops : p.op = "drop"}
                                            \cup Renamed(columns, ops)})
             \cup {o.target_column : o \in Renamed(columns, ops)}
             \cup {o.column : o \in {p \in ops : p.op = "add_default"}}
BY DEF Executed

\* Executing operations on a file with a schema leaves a file with a schema.
LEMMA ExecutedTyped ==
  ASSUME NEW columns \in Schemas, NEW ops \in SUBSET Operations
  PROVE  Executed(columns, ops) \in Schemas
<1> DEFINE renamed == Renamed(columns, ops)
           dropped == {o.column : o \in {p \in ops : p.op = "drop"}}
           added == {o \in ops : o.op = "add_default"}
           kept == DOMAIN columns \ (dropped \cup {o.column : o \in renamed})
           all == kept \cup {o.target_column : o \in renamed}
                        \cup {o.column : o \in added}
           value(n) == IF \E o \in added : o.column = n
                       THEN (CHOOSE o \in added : o.column = n).target_type
                       ELSE IF \E o \in renamed : o.target_column = n
                       THEN columns[(CHOOSE o \in renamed : o.target_column = n).column]
                       ELSE columns[n]
<1>1. /\ DOMAIN columns \subseteq Names
      /\ \A n \in DOMAIN columns : columns[n] \in LogicalTypes
  BY SchemaTyped
<1>2. \A o \in added : o.column \in Names /\ o.target_type \in LogicalTypes
  BY OperationTyped
<1>3. \A o \in renamed : o.column \in DOMAIN columns /\ o.target_column \in Names
  BY OperationTyped DEF Renamed
<1>4. all \in SUBSET Names
  BY <1>1, <1>2, <1>3
<1>5. Executed(columns, ops) = [n \in all |-> value(n)]
  BY DEF Executed
<1> HIDE DEF renamed, added
<1>6. ASSUME NEW n \in all
      PROVE  value(n) \in LogicalTypes
  <2>1. CASE \E o \in added : o.column = n
    <3>1. (CHOOSE o \in added : o.column = n) \in added
      BY <2>1
    <3>2. QED
      BY <2>1, <3>1, <1>2
  <2>2. CASE ~(\E o \in added : o.column = n) /\ \E o \in renamed : o.target_column = n
    <3>1. (CHOOSE o \in renamed : o.target_column = n) \in renamed
      BY <2>2
    <3>2. QED
      BY <2>2, <3>1, <1>1, <1>3
  <2>3. CASE /\ ~(\E o \in added : o.column = n)
             /\ ~(\E o \in renamed : o.target_column = n)
    BY <2>3, <1>1
  <2>4. QED
    BY <2>1, <2>2, <2>3
<1> HIDE DEF all, value
<1>7. [n \in all |-> value(n)] \in [all -> LogicalTypes]
  BY <1>6
<1>8. QED
  BY <1>4, <1>5, <1>7, IsSchema

\* The columns the kinds of operations name.
LEMMA OperationColumns ==
  /\ \A n : Drop(n).column = n
  /\ \A n, t : AddDefault(n, t).column = n
  /\ \A m, n : Rename(m, n).column = m /\ Rename(m, n).target_column = n
BY DEF Drop, AddDefault, Rename

\* The derived operations, executed on the file they were derived from, give it
\* the baseline's columns: nothing is missing and nothing is left over, with
\* whichever of the hints the LLM confirmed.
THEOREM ExecutedRestores ==
  ASSUME NEW baseline \in Schemas, NEW current \in Schemas,
         NEW M \in Matchings(baseline, current)
  PROVE  DOMAIN Executed(current, OperationsFor(baseline, current, M)) = DOMAIN baseline
<1> DEFINE ops == OperationsFor(baseline, current, M)
           from == {r[2] : r \in M}
           to == {r[1] : r \in M}
           R == Removed(baseline, current)
           A == Added(baseline, current)
<1>1. ops \in SUBSET Operations
  BY DerivedTyped
<1>2. from \subseteq A /\ to \subseteq R
  BY DEF Matchings
<1>3. A \subseteq DOMAIN current
  BY DEF Added
<1>4. {p \in ops : p.op = "drop"} = {Drop(n) : n \in A \ from}
  BY DEF OperationsFor, Rename, Cast, AddDefault, Drop
<1>5. {p \in ops : p.op = "add_default"} = {AddDefault(n, baseline[n]) : n \in R \ to}
  BY DEF OperationsFor, Rename, Cast, AddDefault, Drop
<1>6. Renamed(current, ops) = {Rename(r[2], r[1]) : r \in M}
  <2>1. {p \in ops : p.op = "rename"} = {Rename(r[2], r[1]) : r \in M}
    BY DEF OperationsFor, Rename, Cast, AddDefault, Drop
  <2>2. \A r \in M : r[2] \in DOMAIN current
    BY <1>2, <1>3
  <2>3. \A p \in {Rename(r[2], r[1]) : r \in M} : p.column \in DOMAIN current
    BY <2>2 DEF Rename
  <2>4. QED
    BY <2>1, <2>3 DEF Renamed
<1>7. {o.column : o \in {Drop(n) : n \in A \ from}} = A \ from
  BY OperationColumns
<1>8. {o.column : o \in {Rename(r[2], r[1]) : r \in M}} = from
  <2>1. \A r \in M : Rename(r[2], r[1]).column = r[2]
    BY OperationColumns
  <2>2. QED
    BY <2>1
<1>9. {o.target_column : o \in {Rename(r[2], r[1]) : r \in M}} = to
  <2>1. \A r \in M : Rename(r[2], r[1]).target_column = r[1]
    BY OperationColumns
  <2>2. QED
    BY <2>1
<1>10. {o.column : o \in {AddDefault(n, baseline[n]) : n \in R \ to}} = R \ to
  BY OperationColumns
<1>11. {o.column : o \in {p \in ops : p.op = "drop"} \cup Renamed(current, ops)}
         = (A \ from) \cup from
  BY <1>4, <1>6, <1>7, <1>8
<1>12. DOMAIN Executed(current, ops)
         = (DOMAIN current \ ((A \ from) \cup from)) \cup to \cup (R \ to)
  BY <1>1, <1>5, <1>6, <1>9, <1>10, <1>11, ExecutedColumns
<1>13. DOMAIN Executed(current, ops) = (DOMAIN current \ A) \cup R
  <2> HIDE DEF A, R, from, to, ops
  <2>1. QED
    BY <1>12, <1>2
<1>14. QED
  BY <1>13 DEF Removed, Added

\* A prescription without a cast to text can be carried out on the file it was
\* derived from, and verify then finds every end state it promises.
THEOREM PlanHolds ==
  ASSUME NEW baseline \in Schemas, NEW current \in Schemas,
         NEW M \in Matchings(baseline, current),
         \A n \in TypeChanged(baseline, current) : current[n] = "int64"
  PROVE  LET ops == OperationsFor(baseline, current, M)
         IN  Executable(current, ops) /\ EndStateHolds(Executed(current, ops), ops)
<1> DEFINE ops == OperationsFor(baseline, current, M)
           after == Executed(current, ops)
<1>1. ops \in SUBSET Operations
  BY DerivedTyped
<1>2. DOMAIN after = DOMAIN baseline
  BY ExecutedRestores
<1>3. ASSUME NEW n \in TypeChanged(baseline, current)
      PROVE  n \in DOMAIN after /\ after[n] = "int64"
  <2>1. n \in DOMAIN baseline /\ n \in DOMAIN current
    BY DEF TypeChanged
  <2>2. ~\E o \in {p \in ops : p.op = "add_default"} : o.column = n
    BY <2>1 DEF OperationsFor, Rename, Cast, AddDefault, Drop, Removed
  <2>3. ~\E o \in Renamed(current, ops) : o.target_column = n
    <3>1. \A r \in M : r[1] # n
      BY <2>1 DEF Matchings, Removed
    <3>2. \A o \in ops : o.op = "rename" => \E r \in M : o = Rename(r[2], r[1])
      BY DEF OperationsFor, Rename, Cast, AddDefault, Drop
    <3>3. \A o \in ops : o.op = "rename" => o.target_column # n
      BY <3>1, <3>2, OperationColumns
    <3>4. QED
      BY <3>3 DEF Renamed
  <2>4. n \in DOMAIN after
    BY <1>2, <2>1
  <2>5. after[n] = current[n]
    BY <2>2, <2>3, <2>4 DEF Executed
  <2>6. QED
    BY <2>4, <2>5
<1> HIDE DEF ops, after
<1>4. ASSUME NEW o \in ops
      PROVE  \/ \E r \in M : o = Rename(r[2], r[1])
             \/ \E n \in TypeChanged(baseline, current) : o = Cast(n, current[n])
             \/ \E n \in Removed(baseline, current) : o = AddDefault(n, baseline[n])
             \/ \E n \in Added(baseline, current) : o = Drop(n)
  BY DEF ops, OperationsFor
<1>5. Executable(current, ops)
  BY <1>4 DEF Executable, Rename, Cast, AddDefault, Drop, TypeChanged, Added
<1>6. ASSUME NEW o \in ops
      PROVE  /\ o.op \in {"rename", "drop"} => o.column \notin DOMAIN after
             /\ o.op \in {"rename", "assign_header"} => o.target_column \in DOMAIN after
             /\ o.op = "add_default" => o.column \in DOMAIN after
             /\ o.op = "cast" => /\ o.column \in DOMAIN after
                                 /\ o.target_type = "int64"
                                 /\ after[o.column] = "int64"
  <2>1. CASE \E r \in M : o = Rename(r[2], r[1])
    <3>1. PICK r \in M : o = Rename(r[2], r[1])
      BY <2>1
    <3>2. r[2] \notin DOMAIN baseline /\ r[1] \in DOMAIN baseline
      BY DEF Matchings, Removed, Added
    <3>3. QED
      BY <1>2, <3>1, <3>2 DEF Rename
  <2>2. CASE \E n \in TypeChanged(baseline, current) : o = Cast(n, current[n])
    BY <1>3, <2>2 DEF Cast
  <2>3. CASE \E n \in Removed(baseline, current) : o = AddDefault(n, baseline[n])
    BY <1>2, <2>3 DEF AddDefault, Removed
  <2>4. CASE \E n \in Added(baseline, current) : o = Drop(n)
    BY <1>2, <2>4 DEF Drop, Added
  <2>5. QED
    BY <1>4, <2>1, <2>2, <2>3, <2>4
<1>7. QED
  BY <1>5, <1>6 DEF EndStateHolds, ops, after

\* Assigning a header leaves a file the columns it has by position.
LEMMA HeaderKeepsColumns ==
  ASSUME NEW columns \in Schemas, NEW S \in SUBSET Names
  PROVE  DOMAIN Executed(columns, {AssignHeader(n) : n \in S}) = DOMAIN columns
<1> DEFINE ops == {AssignHeader(n) : n \in S}
<1>1. ops \in SUBSET Operations
  BY DEF Operations
<1>2. \A o \in ops : o.op = "assign_header"
  BY DEF AssignHeader
<1> HIDE DEF ops
<1>3. /\ {p \in ops : p.op = "drop"} = {}
      /\ {p \in ops : p.op = "add_default"} = {}
      /\ Renamed(columns, ops) = {}
  BY <1>2 DEF Renamed
<1>4. DOMAIN Executed(columns, ops) = (DOMAIN columns \ {}) \cup {} \cup {}
  <2>1. /\ {o.column : o \in {p \in ops : p.op = "drop"}
                              \cup Renamed(columns, ops)} = {}
        /\ {o.target_column : o \in Renamed(columns, ops)} = {}
        /\ {o.column : o \in {p \in ops : p.op = "add_default"}} = {}
    BY <1>3
  <2>2. QED
    BY <1>1, <2>1, ExecutedColumns
<1>5. QED
  BY <1>4 DEF ops
=============================================================================
