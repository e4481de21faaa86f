---------------------- MODULE CsvFailureDetector_proofs ----------------------
(***************************************************************************)
(* The detector's methods fit together for every file, whatever its lines  *)
(* and its encoding, however long a preamble is searched for: what         *)
(* CsvRepairWorkflow assumes of its sources is proved here of the          *)
(* detector.                                                               *)
(***************************************************************************)
EXTENDS CsvFailureDetector, FiniteSetTheorems, SequenceTheorems,
        WellFoundedInduction, TLAPS

\* FiniteSetsExt!Min picks a least element.
LEMMA MinIsLeast ==
  ASSUME NEW S \in SUBSET Nat, S # {}
  PROVE  Min(S) \in S /\ \A y \in S : Min(S) <= y
<1> DEFINE R == {ss \in Nat \X Nat : ss[1] < ss[2]}
<1>1. IsWellFoundedOn(R, Nat)
  BY NatLessThanWellFounded DEF OpToRel
<1> HIDE DEF R
<1>2. PICK x \in S : \A y \in S : <<y, x>> \notin R
  BY <1>1, WFMin
<1>3. ASSUME NEW y \in S PROVE x <= y
  <2>1. <<y, x>> \in Nat \X Nat /\ <<y, x>>[1] = y /\ <<y, x>>[2] = x
    OBVIOUS
  <2>2. ~(y < x)
    BY <1>2, <2>1, Zenon DEF R
  <2>3. QED
    BY <2>2
<1>4. QED
  BY <1>3 DEF Min

\* The search for a header yields a line number, or nothing.
LEMMA OffsetTyped ==
  ASSUME NEW counts
  PROVE  FindHeaderOffset(counts) \in Nat \cup {None}
<1> DEFINE offsets == {n \in OffsetsSearched(counts) : StartsTable(counts, n)}
<1>1. offsets \in SUBSET Nat
  BY DEF OffsetsSearched
<1>2. FindHeaderOffset(counts) = IF offsets = {} THEN None ELSE Min(offsets)
  BY DEF FindHeaderOffset
<1>3. QED
  BY <1>1, <1>2, MinIsLeast

\* Each structural class and what it takes, one early return after the other.
LEMMA StructuralCases ==
  ASSUME NEW file
  PROVE  LET offset == FindHeaderOffset(Counts(file))
             classes == StructuralClasses(file)
         IN  /\ "header_detection" \in classes
                  <=> ~SingleColumn(file) /\ offset # None /\ offset # 0
             /\ "no_header" \in classes => ~SingleColumn(file) /\ offset = 0
             /\ "mixed_delimiter" \in classes
                  => /\ ~SingleColumn(file) /\ offset = None
                     /\ FindMixedRows(file) # {}
             /\ classes \subseteq FailureClasses
<1> DEFINE offset == FindHeaderOffset(Counts(file))
           classes == StructuralClasses(file)
<1>0. None # 0
  BY NoneAssumption
<1> HIDE DEF offset
<1>1. CASE SingleColumn(file)
  <2>1. classes = {"single_column_malformation"}
    BY <1>1 DEF StructuralClasses, offset
  <2>2. QED
    BY <1>1, <2>1 DEF FailureClasses, offset
<1>2. CASE ~SingleColumn(file) /\ offset \notin {None, 0}
  <2>1. classes = {"header_detection"}
    BY <1>2 DEF StructuralClasses, offset
  <2>2. QED
    BY <1>2, <2>1 DEF FailureClasses, offset
<1>3. CASE ~SingleColumn(file) /\ offset = 0
  <2>1. classes \subseteq {"no_header", "invisible_characters"}
    BY <1>0, <1>3 DEF StructuralClasses, offset
  <2>2. QED
    BY <1>0, <1>3, <2>1 DEF FailureClasses, offset
<1>4. CASE ~SingleColumn(file) /\ offset = None /\ FindMixedRows(file) # {}
  <2>1. classes = {"mixed_delimiter"}
    BY <1>0, <1>4 DEF StructuralClasses, offset
  <2>2. QED
    BY <1>0, <1>4, <2>1 DEF FailureClasses, offset
<1>5. CASE ~SingleColumn(file) /\ offset = None /\ FindMixedRows(file) = {}
  <2>1. classes = {"engine_selection"}
    BY <1>0, <1>5 DEF StructuralClasses, offset
  <2>2. QED
    BY <1>0, <1>5, <2>1 DEF FailureClasses, offset
<1>6. QED
  BY <1>1, <1>2, <1>3, <1>4, <1>5

\* detect_all's answer in the same terms; the first four classes aside, it is
\* what the structure says.
LEMMA DetectAllCases ==
  ASSUME NEW file
  PROVE  /\ DetectAll(file) \subseteq FailureClasses
         /\ \A c \in {"header_detection", "no_header", "mixed_delimiter"} :
              c \in DetectAll(file)
                <=> HasStructure(file) /\ c \in StructuralClasses(file)
<1>1. StructuralClasses(file) \subseteq FailureClasses
  BY StructuralCases
<1>2. QED
  BY <1>1 DEF DetectAll, FailureClasses

\* detect picks one of the classes detect_all finds, if there is any.
LEMMA PrimaryIsDetected ==
  ASSUME NEW file
  PROVE  /\ DetectAll(file) = {} <=> Detect(file) = None
         /\ DetectAll(file) # {} => Detect(file) \in DetectAll(file)
<1> DEFINE found == {i \in DOMAIN Priority : Priority[i] \in DetectAll(file)}
<1>1. DetectAll(file) \subseteq FailureClasses
  BY DetectAllCases
<1>2. DOMAIN Priority = 1 .. 8
  BY DEF Priority
<1>3. \A c \in FailureClasses : \E i \in 1 .. 8 : Priority[i] = c
  BY DEF FailureClasses, Priority
<1>4. CASE DetectAll(file) = {}
  BY <1>4 DEF Detect
<1>5. CASE DetectAll(file) # {}
  <2>1. found # {} /\ found \in SUBSET Nat
    BY <1>1, <1>2, <1>3, <1>5
  <2>2. Min(found) \in found
    BY <2>1, MinIsLeast
  <2>3. Detect(file) = Priority[Min(found)]
    BY <1>5 DEF Detect
  <2>4. Detect(file) \in DetectAll(file)
    BY <2>2, <2>3
  <2>5. QED
    BY <1>1, <1>5, <2>4, NoneAssumption
<1>6. QED
  BY <1>4, <1>5

\* The offset evidence speaks up exactly when the structure has a header to be
\* found below a preamble.
LEMMA OffsetEvidenceCases ==
  ASSUME NEW file
  PROVE  LET offset == FindHeaderOffset(Counts(file))
         IN  /\ HeaderOffsetEvidence(file) # None
                  <=> /\ HasStructure(file) /\ ~SingleColumn(file)
                      /\ offset # None /\ offset # 0
             /\ GarbledEvidence(file) # {}
                  => /\ HasStructure(file) /\ ~SingleColumn(file)
                     /\ offset # None /\ offset # 0
<1> DEFINE offset == FindHeaderOffset(Counts(file))
           garbled == GarbledBefore(file, offset)
<1>1. offset \in Nat \cup {None}
  BY OffsetTyped
<1>2. offset \in Nat /\ garbled => offset > 0
  BY DEF GarbledBefore
<1>3. HeaderOffsetEvidence(file) =
        IF ~HasStructure(file) \/ SingleColumn(file) \/ offset = None THEN None
        ELSE IF (IF garbled THEN offset - 1 ELSE offset) > 0 \/ garbled
             THEN (IF garbled THEN offset - 1 ELSE offset) ELSE None
  BY DEF HeaderOffsetEvidence
<1>4. GarbledEvidence(file) # {} =>
        ~(~HasStructure(file) \/ SingleColumn(file) \/ offset = None) /\ garbled
  BY DEF GarbledEvidence
<1> HIDE DEF offset, garbled
<1>5. offset \in Nat => offset # None
  BY NoneAssumption
<1>6. HeaderOffsetEvidence(file) # None
        <=> /\ HasStructure(file) /\ ~SingleColumn(file)
            /\ offset # None /\ offset # 0
  <2>1. CASE offset = None
    BY <2>1, <1>3
  <2>2. CASE offset \in Nat /\ ~garbled
    <3>1. HeaderOffsetEvidence(file) =
            IF ~HasStructure(file) \/ SingleColumn(file) THEN None
            ELSE IF offset # 0 THEN offset ELSE None
      BY <2>2, <1>3, <1>5
    <3>2. QED
      BY <2>2, <3>1, <1>5
  <2>3. CASE offset \in Nat /\ garbled
    <3>1. offset - 1 \in Nat /\ offset # 0
      BY <2>3, <1>2
    <3>2. HeaderOffsetEvidence(file) =
            IF ~HasStructure(file) \/ SingleColumn(file) THEN None ELSE offset - 1
      BY <2>3, <1>3, <1>5
    <3>3. QED
      BY <2>3, <3>1, <3>2, <1>5, NoneAssumption
  <2>4. QED
    BY <1>1, <2>1, <2>2, <2>3
<1>7. GarbledEvidence(file) # {}
        => /\ HasStructure(file) /\ ~SingleColumn(file)
           /\ offset # None /\ offset # 0
  BY <1>1, <1>2, <1>4
<1>8. QED
  BY <1>6, <1>7 DEF offset

\* No two methods of the detector contradict each other on any file.
THEOREM ReportIsConsistent == \A file : DetectorConsistent(Report(file))
<1> TAKE file
<1> DEFINE offset == FindHeaderOffset(Counts(file))
           r == Report(file)
<1>1. /\ r.primary = Detect(file) /\ r.classes = DetectAll(file)
      /\ r.header_offset = HeaderOffsetEvidence(file)
      /\ r.garbled_row = GarbledEvidence(file)
  BY DEF Report
<1>2. "header_detection" \in DetectAll(file)
        <=> HasStructure(file) /\ ~SingleColumn(file) /\ offset # None /\ offset # 0
  BY DetectAllCases, StructuralCases
<1>3. /\ "no_header" \in DetectAll(file) => offset = 0
      /\ "mixed_delimiter" \in DetectAll(file) => offset = None
  BY DetectAllCases, StructuralCases
<1>4. None # 0
  BY NoneAssumption
<1>5. /\ HeaderOffsetEvidence(file) # None <=> "header_detection" \in DetectAll(file)
      /\ GarbledEvidence(file) # {} => "header_detection" \in DetectAll(file)
  BY <1>2, OffsetEvidenceCases
<1>6. /\ DetectAll(file) = {} <=> Detect(file) = None
      /\ DetectAll(file) # {} => Detect(file) \in DetectAll(file)
  BY PrimaryIsDetected
<1>7. ASSUME "wrong_encoding" \in DetectAll(file), DetectEncoding(file) = None
      PROVE  DetectAll(file) = {"wrong_encoding"}
  <2>1. "wrong_encoding" \notin StructuralClasses(file)
    BY DEF StructuralClasses
  <2>2. file.encoding # "utf-8"
    BY <1>7, <2>1 DEF DetectAll
  <2>3. file.guess = None
    BY <1>7, EncodingAssumption, NoneAssumption DEF DetectEncoding
  <2>4. ~HasStructure(file)
    BY <2>2, <2>3 DEF HasStructure, Decodable
  <2>5. QED
    BY <2>2, <2>4 DEF DetectAll
<1>8. r.encoding = DetectEncoding(file)
  BY DEF Report
<1> HIDE DEF r, offset
<1>9. DetectorConsistent(r)
  BY <1>1, <1>2, <1>3, <1>4, <1>5, <1>6, <1>7, <1>8 DEF DetectorConsistent
<1>10. QED
  BY <1>9 DEF r

\* In a file of three lines or more, rows that all agree with each other are
\* the table of some header; a file without a header offset has two that do
\* not, which is what the evidence method asks for.
LEMMA MixedIsShown ==
  ASSUME NEW file \in Files, "mixed_delimiter" \in DetectAll(file)
  PROVE  MixedEvidence(file) # {} \/ Len(file.lines) = 2
<1> DEFINE counts == Counts(file)
           offsets == {n \in OffsetsSearched(counts) : StartsTable(counts, n)}
<1>1. /\ HasStructure(file) /\ ~SingleColumn(file)
      /\ FindHeaderOffset(counts) = None /\ FindMixedRows(file) # {}
  BY DetectAllCases, StructuralCases
<1> SUFFICES ASSUME Len(file.lines) # 2,
                     \A i, j \in 2 .. Len(file.lines) : counts[i] = counts[j]
              PROVE  FALSE
  BY <1>1 DEF MixedEvidence
<1> HIDE DEF counts, offsets
<1>2. file.lines \in Seq(Lines)
  BY DEF Files
<1>3. Len(file.lines) \in Nat /\ Len(file.lines) >= 3
  <2>1. Len(file.lines) >= 2
    BY <1>1 DEF HasStructure
  <2>2. Len(file.lines) \in Nat
    BY <1>2
  <2>3. \A k \in Nat : k >= 2 /\ k # 2 => k >= 3
    OBVIOUS
  <2>4. QED
    BY <2>1, <2>2, <2>3, Zenon
<1>4. Len(counts) = Len(file.lines)
  BY <1>2, <1>3 DEF Counts, counts
<1>5. {0, 1} \subseteq OffsetsSearched(counts)
  <2>1. {MaxPreamble, Len(counts) - 2} \in SUBSET Nat
    BY <1>3, <1>4, PreambleAssumption
  <2>2. Min({MaxPreamble, Len(counts) - 2}) \in {MaxPreamble, Len(counts) - 2}
    BY <2>1, MinIsLeast
  <2>3. Min({MaxPreamble, Len(counts) - 2}) \in Nat \ {0}
    BY <1>3, <1>4, <2>2, PreambleAssumption
  <2>4. QED
    BY <2>3 DEF OffsetsSearched
<1>6. StartsTable(counts, 0) \/ StartsTable(counts, 1)
  <2>1. CASE counts[1] = counts[2]
    <3>1. \A i \in 1 .. Len(counts) : counts[i] = counts[1]
      BY <1>3, <1>4, <2>1
    <3>2. QED
      BY <3>1 DEF StartsTable
  <2>2. CASE counts[1] # counts[2]
    <3>1. \A i \in 2 .. Len(counts) : counts[i] = counts[2]
      BY <1>3, <1>4
    <3>2. QED
      BY <2>2, <3>1 DEF StartsTable
  <2>3. QED
    BY <2>1, <2>2
<1>7. offsets # {} /\ offsets \in SUBSET Nat
  BY <1>5, <1>6 DEF OffsetsSearched, offsets
<1>8. FindHeaderOffset(counts) = Min(offsets)
  BY <1>7 DEF FindHeaderOffset, offsets
<1>9. Min(offsets) \in Nat
  BY <1>7, MinIsLeast
<1>10. QED
  BY <1>1, <1>8, <1>9, NoneAssumption
-----------------------------------------------------------------------------
(***************************************************************************)
(* Counting.                                                               *)
(***************************************************************************)

\* The separators of a line that are a given character.
Occurrences(line, d) == {i \in DOMAIN line.seps : line.seps[i] = d}

\* Counting fields is counting separators, which are finitely many.
LEMMA FieldsCounted ==
  ASSUME NEW line, NEW n \in Nat, DOMAIN line.seps = 1 .. n, NEW d
  PROVE  /\ IsFiniteSet(Occurrences(line, d))
         /\ FieldCount(line, d) = 1 + Cardinality(Occurrences(line, d))
         /\ FieldCount(line, d) \in Nat \ {0}
<1>1. Occurrences(line, d) \in SUBSET (1 .. n)
  BY DEF Occurrences
<1>2. IsFiniteSet(1 .. n)
  BY FS_Interval
<1>3. IsFiniteSet(Occurrences(line, d))
  BY <1>1, <1>2, FS_Subset
<1>4. Cardinality(Occurrences(line, d)) \in Nat
  BY <1>3, FS_CardinalityType
<1>5. FieldCount(line, d) = 1 + Cardinality(Occurrences(line, d))
  BY DEF FieldCount, Occurrences
<1>6. QED
  BY <1>3, <1>4, <1>5

\* The shape of a line.
LEMMA LineShape ==
  ASSUME NEW line \in Lines
  PROVE  /\ line.seps \in Seq(Delimiters \cup {Invisible, Quoted})
         /\ Len(line.seps) \in Nat
         /\ DOMAIN line.seps = 1 .. Len(line.seps)
<1>1. line.seps \in Seq(Delimiters \cup {Invisible, Quoted})
  BY DEF Lines
<1>2. QED
  BY <1>1, LenProperties

\* The places between i and j, whichever comes first.
LEMMA Between ==
  ASSUME NEW i \in Nat, NEW j \in Nat
  PROVE  /\ i \in Min({i, j}) .. Max({i, j})
         /\ Min({i, i}) .. Max({i, i}) = {i}
<1>1. Min({i, i}) = i /\ Max({i, i}) = i
  BY DEF Min, Max
<1>2. Min({i, j}) \in Nat /\ Min({i, j}) <= i
  BY MinIsLeast
<1>3. \E x \in {i, j} : \A y \in {i, j} : x >= y
  BY i <= j \/ j <= i
<1>4. Max({i, j}) \in {i, j} /\ \A y \in {i, j} : Max({i, j}) >= y
  BY <1>3, Zenon DEF Max
<1>5. QED
  BY <1>1, <1>2, <1>4

\* A row that is written in another delimiter has as many fields as before: the
\* new delimiter separates where the old one did, and any it held is quoted.
LEMMA ReseparatedKeeps ==
  ASSUME NEW line \in Lines, NEW from, NEW to, to # Quoted
  PROVE  LET new == Reseparated(line, from, to)
         IN  /\ new.key = line.key /\ new.words = line.words
             /\ DOMAIN new.seps = DOMAIN line.seps
             /\ Len(new.seps) = Len(line.seps)
             /\ Occurrences(new, to) = Occurrences(line, from)
             /\ FieldCount(new, to) = FieldCount(line, from)
             /\ to \in Delimiters \cup {Invisible} => new \in Lines
<1> DEFINE s == line.seps
           quoted(i) ==
             \E j \in DOMAIN s :
               s[j] = to /\ \A k \in Min({i, j}) .. Max({i, j}) : s[k] # from
           t == [i \in DOMAIN s |-> CASE s[i] = from -> to
                                      [] quoted(i) -> Quoted
                                      [] OTHER -> s[i]]
           new == Reseparated(line, from, to)
<1>1. new = [line EXCEPT !.seps = t]
  BY DEF Reseparated
<1>2. line \in [key : Nat, words : Words, number : BOOLEAN,
                seps : Seq(Delimiters \cup {Invisible, Quoted})]
  BY DEF Lines
<1>3. /\ new.key = line.key /\ new.words = line.words
      /\ new.number = line.number /\ new.seps = t
  BY <1>1, <1>2
<1>4. Len(s) \in Nat /\ DOMAIN s = 1 .. Len(s)
  BY LineShape
<1>5. ASSUME NEW i \in DOMAIN s
      PROVE  t[i] = to <=> s[i] = from
  <2>1. CASE s[i] = from
    <3>1. ~quoted(i)
      <4>1. ASSUME NEW j \in DOMAIN s
            PROVE  i \in Min({i, j}) .. Max({i, j})
        <5>1. i \in Nat /\ j \in Nat
          BY <1>4
        <5>2. QED
          BY <5>1, Between, Zenon
      <4>2. QED
        BY <2>1, <4>1, Zenon
    <3> HIDE DEF quoted
    <3>2. QED
      BY <2>1, <3>1
  <2>2. CASE s[i] # from /\ s[i] = to
    <3>1. quoted(i)
      <4>1. Min({i, i}) .. Max({i, i}) = {i}
        BY <1>4, Between
      <4>2. QED
        BY <2>2, <4>1
    <3> HIDE DEF quoted
    <3>2. t[i] = Quoted
      BY <2>2, <3>1
    <3>3. QED
      BY <2>2, <3>2
  <2>3. CASE s[i] # from /\ s[i] # to
    <3> HIDE DEF quoted
    <3>1. t[i] \in {Quoted, s[i]}
      BY <2>3
    <3>2. QED
      BY <2>3, <3>1
  <2>4. QED
    BY <2>1, <2>2, <2>3
<1>6. DOMAIN t = DOMAIN s /\ Len(t) = Len(s)
  BY <1>4
<1>7. Occurrences(new, to) = Occurrences(line, from)
  BY <1>3, <1>5, <1>6 DEF Occurrences
<1>8. FieldCount(new, to) = FieldCount(line, from)
  BY <1>3, <1>4, <1>6, <1>7, FieldsCounted
<1>9. ASSUME to \in Delimiters \cup {Invisible}
      PROVE  new \in Lines
  <2>1. ASSUME NEW i \in 1 .. Len(s)
        PROVE  t[i] \in Delimiters \cup {Invisible, Quoted}
    <3>1. s[i] \in Delimiters \cup {Invisible, Quoted}
      BY LineShape
    <3>2. t[i] \in {to, Quoted, s[i]}
      <4> HIDE DEF quoted
      <4>1. QED
        BY <1>4
    <3>3. QED
      BY <1>9, <3>1, <3>2
  <2>2. t \in Seq(Delimiters \cup {Invisible, Quoted})
    <3> HIDE DEF quoted
    <3>1. t = [i \in 1 .. Len(s) |-> t[i]]
      BY <1>4
    <3> HIDE DEF t
    <3>2. QED
      BY <1>4, <2>1, <3>1
  <2>3. QED
    BY <1>1, <1>2, <2>2 DEF Lines
<1>10. QED
  BY <1>3, <1>6, <1>7, <1>8, <1>9

\* A header whose every other character is read as the delimiter.
LEMMA NormalizedKeeps ==
  ASSUME NEW line \in Lines, NEW d
  PROVE  LET new == Normalized(line, d)
         IN  /\ new.key = line.key /\ new.words = line.words
             /\ DOMAIN new.seps = DOMAIN line.seps
             /\ Len(new.seps) = Len(line.seps)
             /\ d \in Delimiters => new \in Lines
<1> DEFINE s == line.seps
           t == [i \in DOMAIN s |-> IF s[i] = Quoted THEN Quoted ELSE d]
           new == Normalized(line, d)
<1>1. new = [line EXCEPT !.seps = t]
  BY DEF Normalized
<1>2. line \in [key : Nat, words : Words, number : BOOLEAN,
                seps : Seq(Delimiters \cup {Invisible, Quoted})]
  BY DEF Lines
<1>3. Len(s) \in Nat /\ DOMAIN s = 1 .. Len(s)
  BY LineShape
<1>4. DOMAIN t = DOMAIN s /\ Len(t) = Len(s)
  BY <1>3
<1>5. d \in Delimiters => t \in Seq(Delimiters \cup {Invisible, Quoted})
  BY <1>3
<1>6. QED
  BY <1>1, <1>2, <1>4, <1>5 DEF Lines

\* A field that is split at another character: the fields it was short of are
\* the places of that character inside it.
LEMMA SubsplitKeeps ==
  ASSUME NEW line \in Lines, NEW d, NEW deficit \in Int,
         NEW match \in Subsplits(line, d, deficit)
  PROVE  LET new == Subsplit(line, d, match)
         IN  /\ new.key = line.key /\ new.words = line.words
             /\ DOMAIN new.seps = DOMAIN line.seps
             /\ Len(new.seps) = Len(line.seps)
             /\ FieldCount(new, d) = FieldCount(line, d) + deficit
             /\ d \in Delimiters => new \in Lines
<1> DEFINE s == line.seps
           inside == Inside(line, d, match[1], match[2])
           t == [i \in DOMAIN s |-> IF i \in inside THEN d ELSE s[i]]
           new == Subsplit(line, d, match)
<1>1. /\ match[2] # d
      /\ Cardinality(inside) = deficit
      /\ \A i \in inside : i \in DOMAIN s /\ s[i] = match[2]
  BY DEF Subsplits, Candidates, Inside
<1>2. new = [line EXCEPT !.seps = t]
  BY DEF Subsplit
<1> HIDE DEF inside
<1>3. line \in [key : Nat, words : Words, number : BOOLEAN,
                seps : Seq(Delimiters \cup {Invisible, Quoted})]
  BY DEF Lines
<1>4. PICK n \in Nat : Len(s) = n /\ DOMAIN s = 1 .. n
  BY LineShape
<1>5. DOMAIN t = 1 .. n /\ Len(t) = Len(s)
  BY <1>4
<1>6. new.key = line.key /\ new.words = line.words /\ new.seps = t
  BY <1>2, <1>3
<1>7. Occurrences(new, d) = Occurrences(line, d) \cup inside
  BY <1>1, <1>6 DEF Occurrences
<1>8. Occurrences(line, d) \cap inside = {}
  BY <1>1 DEF Occurrences
<1>9. /\ IsFiniteSet(Occurrences(line, d))
      /\ FieldCount(line, d) = 1 + Cardinality(Occurrences(line, d))
  BY <1>4, FieldsCounted
<1>10. FieldCount(new, d) = 1 + Cardinality(Occurrences(new, d))
  BY <1>5, <1>6, FieldsCounted
<1>11. IsFiniteSet(inside)
  BY <1>1, <1>4, FS_Interval, FS_Subset
<1>12. Cardinality(Occurrences(new, d))
         = Cardinality(Occurrences(line, d)) + deficit
  <2>1. Cardinality(Occurrences(line, d) \cap inside) = 0
    BY <1>8, FS_EmptySet
  <2>2. Cardinality(Occurrences(line, d)) \in Nat
    BY <1>9, FS_CardinalityType
  <2>3. Cardinality(Occurrences(line, d) \cup inside)
          = Cardinality(Occurrences(line, d)) + Cardinality(inside)
              - Cardinality(Occurrences(line, d) \cap inside)
    BY <1>9, <1>11, FS_Union
  <2>4. QED
    BY <1>1, <1>7, <2>1, <2>2, <2>3
<1>13. FieldCount(new, d) = FieldCount(line, d) + deficit
  <2>1. Cardinality(Occurrences(line, d)) \in Nat
    BY <1>9, FS_CardinalityType
  <2>2. QED
    BY <1>9, <1>10, <1>12, <2>1
<1>14. d \in Delimiters => t \in Seq(Delimiters \cup {Invisible, Quoted})
  BY <1>3, <1>4
<1>15. d \in Delimiters => new \in Lines
  BY <1>2, <1>3, <1>14 DEF Lines
<1>16. QED
  BY <1>4, <1>5, <1>6, <1>13, <1>15

\* A resolved row is the row it was, with as many fields as the header.
LEMMA ResolutionKeeps ==
  ASSUME NEW line \in Lines, NEW d \in Delimiters, NEW width \in Int,
         NEW r \in Resolutions(line, d, width)
  PROVE  /\ r.key = line.key /\ r.words = line.words
         /\ DOMAIN r.seps = DOMAIN line.seps
         /\ Len(r.seps) = Len(line.seps)
         /\ FieldCount(r, d) = width
         /\ r \in Lines
<1> DEFINE whole == RowDelimiters(line, d, width)
           deficit == width - FieldCount(line, d)
           split == IF deficit > 0 THEN Subsplits(line, d, deficit) ELSE {}
<1>1. FieldCount(line, d) \in Nat
  BY LineShape, FieldsCounted
<1>2. \/ \E c \in whole : r = Reseparated(line, c, d)
      \/ \E match \in split : r = Subsplit(line, d, match)
  <2>1. Resolutions(line, d, width) =
          CASE Cardinality(whole) = 1 -> {Reseparated(line, c, d) : c \in whole}
            [] Cardinality(whole) # 1 /\ Cardinality(split) = 1
                 -> {Subsplit(line, d, match) : match \in split}
            [] OTHER -> {}
    BY DEF Resolutions
  <2> HIDE DEF whole, split
  <2>2. \/ r \in {Reseparated(line, c, d) : c \in whole}
        \/ r \in {Subsplit(line, d, match) : match \in split}
    BY <2>1
  <2>3. QED
    BY <2>2
<1>3. CASE \E c \in whole : r = Reseparated(line, c, d)
  <2>1. PICK c \in whole : r = Reseparated(line, c, d)
    BY <1>3
  <2>2. FieldCount(line, c) = width
    BY DEF RowDelimiters
  <2>3. d # Quoted
    BY CharacterAssumption
  <2>4. QED
    BY <2>1, <2>2, <2>3, ReseparatedKeeps
<1>4. CASE \E match \in split : r = Subsplit(line, d, match)
  <2>1. PICK match \in Subsplits(line, d, deficit) : r = Subsplit(line, d, match)
    BY <1>4
  <2>2. deficit \in Int /\ FieldCount(line, d) + deficit = width
    BY <1>1
  <2> HIDE DEF deficit
  <2>3. QED
    BY <2>1, <2>2, SubsplitKeeps
<1>5. QED
  BY <1>2, <1>3, <1>4

\* The shape of a delivered file.
LEMMA FileShape ==
  ASSUME NEW file \in Files
  PROVE  /\ Len(file.lines) \in Nat
         /\ DOMAIN file.lines = 1 .. Len(file.lines)
         /\ \A i \in 1 .. Len(file.lines) : file.lines[i] \in Lines
         /\ file.delimiter \in Delimiters /\ file.delimiter # Quoted
         /\ DOMAIN Counts(file) = 1 .. Len(file.lines)
         /\ Len(Counts(file)) = Len(file.lines)
         /\ \A i \in 1 .. Len(file.lines) :
              /\ Counts(file)[i] = FieldCount(file.lines[i], file.delimiter)
              /\ Counts(file)[i] \in Nat \ {0}
<1>1. file.lines \in Seq(Lines)
  BY DEF Files
<1>2. /\ Len(file.lines) \in Nat
      /\ DOMAIN file.lines = 1 .. Len(file.lines)
      /\ \A i \in 1 .. Len(file.lines) : file.lines[i] \in Lines
  BY <1>1
<1>3. file.delimiter \in Delimiters /\ file.delimiter # Quoted
  BY CharacterAssumption DEF Files
<1>4. DOMAIN Counts(file) = 1 .. Len(file.lines)
  BY <1>2 DEF Counts
<1>5. \A i \in 1 .. Len(file.lines) :
        /\ Counts(file)[i] = FieldCount(file.lines[i], file.delimiter)
        /\ Counts(file)[i] \in Nat \ {0}
  <2>1. ASSUME NEW i \in 1 .. Len(file.lines)
        PROVE  FieldCount(file.lines[i], file.delimiter) \in Nat \ {0}
    BY <1>2, LineShape, FieldsCounted
  <2>2. QED
    BY <1>2, <2>1 DEF Counts
<1>6. Len(Counts(file)) = Len(file.lines)
  BY <1>2 DEF Counts
<1>7. QED
  BY <1>2, <1>3, <1>4, <1>5, <1>6

\* The rows to repair are exactly the rows that do not fit, each with what it
\* is and what it would be.
LEMMA MixedRowsShown ==
  ASSUME NEW file \in Files, FindMixedRows(file) # {}
  PROVE  /\ {r.row_number : r \in FindMixedRows(file)} = Disagreeing(file)
         /\ \A r \in FindMixedRows(file) :
              /\ r = RowRepair(r.row_number, r.original_text, r.repaired_text)
              /\ r.row_number \in Disagreeing(file)
              /\ r.original_text = file.lines[r.row_number]
              /\ r.repaired_text \in ResolutionsOf(file, r.row_number)
<1> DEFINE repairs(i) == {RowRepair(i, file.lines[i], t) : t \in ResolutionsOf(file, i)}
<1>1. \A i \in Disagreeing(file) : ResolutionsOf(file, i) # {}
  BY DEF FindMixedRows
<1>2. FindMixedRows(file) = UNION {repairs(i) : i \in Disagreeing(file)}
  BY <1>1 DEF FindMixedRows
<1>3. ASSUME NEW i \in Disagreeing(file), NEW r \in repairs(i)
      PROVE  /\ r = RowRepair(r.row_number, r.original_text, r.repaired_text)
             /\ r.row_number = i
             /\ r.original_text = file.lines[i]
             /\ r.repaired_text \in ResolutionsOf(file, i)
  BY DEF RowRepair
<1>4. ASSUME NEW r \in FindMixedRows(file)
      PROVE  \E i \in Disagreeing(file) : r \in repairs(i)
  BY <1>2
<1>5. ASSUME NEW i \in Disagreeing(file)
      PROVE  \E r \in FindMixedRows(file) : r.row_number = i
  <2>1. PICK t \in ResolutionsOf(file, i) : TRUE
    BY <1>1
  <2>2. RowRepair(i, file.lines[i], t) \in FindMixedRows(file)
    BY <1>2
  <2>3. QED
    BY <2>2 DEF RowRepair
<1> HIDE DEF repairs
<1>6. QED
  BY <1>3, <1>4, <1>5

\* A header that is found starts a table of two lines or more.
LEMMA OffsetFound ==
  ASSUME NEW counts, Len(counts) \in Nat, Len(counts) >= 2,
         FindHeaderOffset(counts) # None
  PROVE  /\ FindHeaderOffset(counts) \in 0 .. Len(counts) - 2
         /\ StartsTable(counts, FindHeaderOffset(counts))
<1> DEFINE offsets == {n \in OffsetsSearched(counts) : StartsTable(counts, n)}
<1>1. offsets # {} /\ FindHeaderOffset(counts) = Min(offsets)
  BY DEF FindHeaderOffset
<1>2. offsets \in SUBSET Nat
  BY DEF OffsetsSearched
<1>3. Min(offsets) \in offsets
  BY <1>1, <1>2, MinIsLeast
<1>4. PICK m \in Nat : m = Len(counts) - 2
  OBVIOUS
<1>5. Min({MaxPreamble, m}) <= m
  BY PreambleAssumption, MinIsLeast
<1>6. Min({MaxPreamble, m}) \in Nat
  BY PreambleAssumption, MinIsLeast
<1>7. OffsetsSearched(counts) \subseteq 0 .. m
  BY <1>4, <1>5, <1>6 DEF OffsetsSearched
<1>8. QED
  BY <1>1, <1>3, <1>4, <1>7

\* The repair of a garbled header is about the line before the table, and makes
\* it as wide.
LEMMA GarbledRowShown ==
  ASSUME NEW file \in Files, GarbledEvidence(file) # {}
  PROVE  LET offset == FindHeaderOffset(Counts(file))
             new == Normalized(file.lines[offset], file.delimiter)
         IN  /\ HasStructure(file) /\ offset \in 1 .. Len(file.lines) - 2
             /\ StartsTable(Counts(file), offset)
             /\ GarbledEvidence(file) = {RowRepair(offset, file.lines[offset], new)}
             /\ FieldCount(new, file.delimiter) = Counts(file)[offset + 1]
             /\ HeaderOffsetEvidence(file) = offset - 1
<1> DEFINE offset == FindHeaderOffset(Counts(file))
<1>1. /\ HasStructure(file) /\ ~SingleColumn(file) /\ offset # None
      /\ GarbledBefore(file, offset)
  BY DEF GarbledEvidence
<1>2. Len(Counts(file)) \in Nat /\ Len(Counts(file)) = Len(file.lines)
  BY FileShape
<1>3. Len(Counts(file)) >= 2
  BY <1>1, <1>2 DEF HasStructure
<1>4. offset \in 0 .. Len(file.lines) - 2 /\ StartsTable(Counts(file), offset)
  BY <1>1, <1>2, <1>3, OffsetFound
<1>5. offset \in 1 .. Len(file.lines) - 2
  BY <1>1, <1>2, <1>4 DEF GarbledBefore
<1>6. FieldCount(Normalized(file.lines[offset], file.delimiter), file.delimiter)
        = Counts(file)[offset + 1]
  BY <1>1 DEF GarbledBefore, ResolvesAsHeader
<1>7. GarbledEvidence(file) =
        {RowRepair(offset, file.lines[offset],
                   Normalized(file.lines[offset], file.delimiter))}
  BY <1>1 DEF GarbledEvidence
<1>8. HeaderOffsetEvidence(file) = offset - 1
  BY <1>1 DEF HeaderOffsetEvidence
<1>9. QED
  BY <1>1, <1>4, <1>5, <1>6, <1>7, <1>8

\* Without a garbled header the offset evidence is where the table starts.
LEMMA OffsetShown ==
  ASSUME NEW file \in Files, GarbledEvidence(file) = {},
         HeaderOffsetEvidence(file) # None
  PROVE  /\ HeaderOffsetEvidence(file) = FindHeaderOffset(Counts(file))
         /\ HeaderOffsetEvidence(file) \in 1 .. Len(file.lines) - 2
         /\ StartsTable(Counts(file), HeaderOffsetEvidence(file))
<1> DEFINE offset == FindHeaderOffset(Counts(file))
<1>1. /\ HasStructure(file) /\ ~SingleColumn(file)
      /\ offset # None /\ offset # 0
  BY OffsetEvidenceCases
<1>2. ~GarbledBefore(file, offset)
  BY <1>1 DEF GarbledEvidence
<1>3. HeaderOffsetEvidence(file) = offset
  BY <1>1, <1>2 DEF HeaderOffsetEvidence
<1>4. Len(Counts(file)) \in Nat /\ Len(Counts(file)) = Len(file.lines)
  BY FileShape
<1>5. Len(Counts(file)) >= 2
  BY <1>1, <1>4 DEF HasStructure
<1>6. offset \in 0 .. Len(file.lines) - 2 /\ StartsTable(Counts(file), offset)
  BY <1>1, <1>4, <1>5, OffsetFound
<1>7. offset \in 1 .. Len(file.lines) - 2
  BY <1>1, <1>4, <1>6
<1>8. QED
  BY <1>3, <1>6, <1>7

\* A row repair is the number of a line, what it is and what it would be
\* (MixedDelimiterRowRepair).
RowsAssumed ==
  RowRepairs = [row_number : Nat, original_text : Lines, repaired_text : Lines]

\* What the detector says of a file is a report the workflow can read.
LEMMA ReportTyped ==
  ASSUME NEW file \in Files, RowsAssumed
  PROVE  Report(file) \in SourceFiles
<1>1. DetectAll(file) \in SUBSET FailureClasses
  BY DetectAllCases
<1>2. Detect(file) \in FailureClasses \cup {None}
  BY <1>1, PrimaryIsDetected
<1>3. DetectEncoding(file) \in Encodings \cup {None}
  BY EncodingAssumption DEF DetectEncoding, Files
<1>4. EvidenceDelimiter(file) \in Delimiters
  BY FileShape, CharacterAssumption DEF EvidenceDelimiter
<1>5. MixedEvidence(file) \in SUBSET RowRepairs
  <2>1. CASE FindMixedRows(file) = {}
    BY <2>1 DEF MixedEvidence
  <2>2. CASE FindMixedRows(file) # {}
    <3>1. ASSUME NEW r \in FindMixedRows(file)
          PROVE  r \in RowRepairs
      <4>1. /\ r = RowRepair(r.row_number, r.original_text, r.repaired_text)
            /\ r.row_number \in Disagreeing(file)
            /\ r.original_text = file.lines[r.row_number]
            /\ r.repaired_text \in ResolutionsOf(file, r.row_number)
        BY <2>2, MixedRowsShown
      <4>2. r.row_number \in 1 .. Len(file.lines) /\ Len(file.lines) \in Nat
        BY <4>1, FileShape DEF Disagreeing
      <4>3. file.lines[r.row_number] \in Lines /\ file.delimiter \in Delimiters
        BY <4>2, FileShape
      <4>4. Counts(file)[1] \in Int
        BY <4>2, FileShape
      <4>5. r.repaired_text \in Lines
        BY <4>1, <4>3, <4>4, ResolutionKeeps DEF ResolutionsOf
      <4>6. QED
        BY <4>1, <4>2, <4>3, <4>5 DEF RowRepair, RowsAssumed
    <3>2. QED
      BY <3>1 DEF MixedEvidence
  <2>3. QED
    BY <2>1, <2>2
<1>6. HeaderOffsetEvidence(file) \in Nat \cup {None}
  <2>1. CASE GarbledEvidence(file) # {}
    BY <2>1, GarbledRowShown, FileShape
  <2>2. CASE GarbledEvidence(file) = {}
    BY <2>2, OffsetShown, FileShape
  <2>3. QED
    BY <2>1, <2>2
<1>7. GarbledEvidence(file) \in SUBSET RowRepairs
  <2>1. CASE GarbledEvidence(file) = {}
    BY <2>1
  <2>2. CASE GarbledEvidence(file) # {}
    <3> DEFINE offset == FindHeaderOffset(Counts(file))
               new == Normalized(file.lines[offset], file.delimiter)
    <3>1. /\ offset \in 1 .. Len(file.lines) - 2
          /\ GarbledEvidence(file) = {RowRepair(offset, file.lines[offset], new)}
      BY <2>2, GarbledRowShown
    <3> HIDE DEF offset
    <3>2. offset \in 1 .. Len(file.lines) /\ offset \in Nat
      BY <3>1, FileShape
    <3>3. file.lines[offset] \in Lines
      BY <3>2, FileShape
    <3>4. new \in Lines
      BY <3>3, FileShape, NormalizedKeeps
    <3>5. QED
      BY <3>1, <3>2, <3>3, <3>4 DEF RowRepair, RowsAssumed
  <2>3. QED
    BY <2>1, <2>2
<1>8. QED
  BY <1>1, <1>2, <1>3, <1>4, <1>5, <1>6, <1>7 DEF Report, SourceFiles

\* Whatever file is delivered, what the detector says of it is what the graph
\* is checked and proved with (CsvRepairWorkflow's SourceAssumption).
THEOREM ReportIsASource ==
  ASSUME RowsAssumed
  PROVE  \A file \in Files :
           Report(file) \in SourceFiles /\ DetectorConsistent(Report(file))
BY ReportTyped, ReportIsConsistent
=============================================================================
