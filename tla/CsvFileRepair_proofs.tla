------------------------ MODULE CsvFileRepair_proofs -------------------------
(***************************************************************************)
(* A repair of a file, whatever its lines, its encoding, its edits and the *)
(* guesses of the LLM.                                                     *)
(***************************************************************************)
EXTENDS CsvFileRepair, CsvFailureDetector_proofs, FunctionTheorems

\* What propose starts from is a consistent report.
DiagnosisFits == stage = "propose" => DetectorConsistent(report)

\* Diagnose leaves one, and no edit of the file changes it.
THEOREM DiagnosisInvariant == Spec => []DiagnosisFits
<1>1. Init => DiagnosisFits
  BY DEF Init, DiagnosisFits
<1>2. DiagnosisFits /\ [Next]_vars => DiagnosisFits'
  <2> SUFFICES ASSUME DiagnosisFits, [Next]_vars
               PROVE  DiagnosisFits'
    OBVIOUS
  <2> USE DEF DiagnosisFits
  <2>1. CASE Diagnose
    <3>1. report' = Report(source)
      BY <2>1 DEF Diagnose
    <3>2. DetectorConsistent(report')
      BY <3>1, ReportIsConsistent, Zenon
    <3>3. QED
      BY <3>2, Zenon
  <2>2. CASE Propose \/ Answer \/ ExecuteWrites \/ ExecuteFails \/ Verify
    BY <2>2 DEF Propose, Answer, ExecuteWrites, ExecuteFails, Verify
  <2>3. CASE EditSource
    BY <2>3 DEF EditSource
  <2>4. CASE OverwriteOutput \/ UNCHANGED vars
    BY <2>4 DEF OverwriteOutput, vars
  <2>5. QED
    BY <2>1, <2>2, <2>3, <2>4 DEF Next
<1>3. QED
  BY <1>1, <1>2, PTL DEF Spec

\* Whatever is delivered or typed in, what propose starts from is consistent.
THEOREM ReportsFit == Spec => []ReportConsistent
<1>1. DiagnosisFits => ReportConsistent
  BY DEF DiagnosisFits, ReportConsistent
<1>2. QED
  BY <1>1, DiagnosisInvariant, PTL

\* What diagnose reported holds for the file until someone edits it.
ReportIsCurrent ==
  edited = "never" =>
    /\ source \in Files
    /\ stage = "propose" => report = Report(source)

\* No mixed file of more than two lines is left to the LLM.
THEOREM MixedAlwaysHasEvidence == Spec => []MixedHasEvidence
<1>1. Init => ReportIsCurrent
  BY InputAssumption DEF Init, ReportIsCurrent
<1>2. ReportIsCurrent /\ [Next]_vars => ReportIsCurrent'
  <2> SUFFICES ASSUME ReportIsCurrent, [Next]_vars
               PROVE  ReportIsCurrent'
    OBVIOUS
  <2> USE DEF ReportIsCurrent, sourceVars
  <2>1. CASE Diagnose
    BY <2>1 DEF Diagnose
  <2>2. CASE Propose \/ Answer \/ ExecuteWrites \/ ExecuteFails \/ Verify
    BY <2>2 DEF Propose, Answer, ExecuteWrites, ExecuteFails, Verify
  <2>3. CASE EditSource
    BY <2>3 DEF EditSource
  <2>4. CASE OverwriteOutput \/ UNCHANGED vars
    BY <2>4 DEF OverwriteOutput, vars
  <2>5. QED
    BY <2>1, <2>2, <2>3, <2>4 DEF Next
<1>3. ReportIsCurrent => MixedHasEvidence
  <2> SUFFICES ASSUME ReportIsCurrent, stage = "propose", edited = "never",
                      "mixed_delimiter" \in report.classes
               PROVE  report.mixed_rows # {} \/ Len(source.lines) = 2
    BY DEF MixedHasEvidence
  <2>1. source \in Files /\ report = Report(source)
    BY DEF ReportIsCurrent
  <2>2. report.classes = DetectAll(source) /\ report.mixed_rows = MixedEvidence(source)
    BY <2>1 DEF Report
  <2>3. QED
    BY <2>1, <2>2, MixedIsShown
<1>4. QED
  BY <1>1, <1>2, <1>3, PTL DEF Spec

-----------------------------------------------------------------------------
\* Classes of one file and evidence of another: as long as no class list holds
\* two failures that claim the same field, no override undoes another.
LEMMA ForceKeepsEvidence ==
  ASSUME NEW raw \in Prescriptions, NEW s,
         "header_detection" \in s.classes
           => s.classes \cap {"mixed_delimiter", "no_header"} = {}
  PROVE  DecidedByEvidence(ForceEvidence(raw, s.classes, s), s)
<1> DEFINE Shaped(r) == r = [delimiter |-> r.delimiter, encoding |-> r.encoding,
                             header_row |-> r.header_row,
                             mixed_delimiter_rows |-> r.mixed_delimiter_rows]
           e == ForceEncoding(raw, s.classes, s)
           m == ForceMixedRows(e, s.classes, s)
           h == ForceHeaderOffset(m, s.classes, s)
           g == ForceGarbledHeader(h, s.classes, s)
           n == ForceNoHeader(g, s.classes, s)
<1>0. Shaped(raw)
  BY DEF Prescriptions
<1>1. /\ Shaped(e)
      /\ "wrong_encoding" \in s.classes /\ s.encoding # None
           => e.encoding = s.encoding
  BY <1>0 DEF ForceEncoding
<1>2. /\ Shaped(m) /\ m.encoding = e.encoding
      /\ "mixed_delimiter" \in s.classes /\ s.mixed_rows # {}
           => /\ m.delimiter = s.delimiter
              /\ m.mixed_delimiter_rows = s.mixed_rows
  BY <1>1 DEF ForceMixedRows
<1>3. /\ Shaped(h) /\ h.encoding = m.encoding /\ h.delimiter = m.delimiter
      /\ h.mixed_delimiter_rows = m.mixed_delimiter_rows
      /\ "header_detection" \in s.classes /\ s.header_offset # None
           => h.header_row = s.header_offset
  BY <1>2 DEF ForceHeaderOffset
<1>4. /\ Shaped(g) /\ g.encoding = h.encoding /\ g.header_row = h.header_row
      /\ "header_detection" \in s.classes /\ s.garbled_row # {}
           => /\ g.delimiter = s.delimiter
              /\ g.mixed_delimiter_rows = s.garbled_row
      /\ "header_detection" \notin s.classes
           => /\ g.delimiter = h.delimiter
              /\ g.mixed_delimiter_rows = h.mixed_delimiter_rows
  BY <1>3 DEF ForceGarbledHeader
<1>5. /\ n.encoding = g.encoding /\ n.delimiter = g.delimiter
      /\ n.mixed_delimiter_rows = g.mixed_delimiter_rows
      /\ "no_header" \in s.classes => n.header_row = None
      /\ "no_header" \notin s.classes => n.header_row = g.header_row
  BY <1>4 DEF ForceNoHeader
<1>6. n = ForceEvidence(raw, s.classes, s)
  BY DEF ForceEvidence
<1> HIDE DEF e, m, h, g, n
<1>7. QED
  BY <1>1, <1>2, <1>3, <1>4, <1>5, <1>6 DEF DecidedByEvidence

\* However the file is edited after it was diagnosed, what the human is asked
\* about carries the evidence propose found for what diagnose had found.
THEOREM EditedFilesKeepEvidence == Spec => []EvidenceStillDecides
<1>1. Init => EvidenceStillDecides
  BY DEF Init, EvidenceStillDecides
<1>2. DiagnosisFits /\ EvidenceStillDecides /\ [Next]_vars
        => EvidenceStillDecides'
  <2> SUFFICES ASSUME DiagnosisFits, EvidenceStillDecides, [Next]_vars
               PROVE  EvidenceStillDecides'
    OBVIOUS
  <2>1. CASE Propose
    <3>1. PICK guess \in Guesses :
            params' = ForceEvidence(guess, report.classes, report')
      BY <2>1 DEF Propose
    <3>2. report'.classes = report.classes
      BY <2>1 DEF Propose, Report
    <3>3. DetectorConsistent(report)
      BY <2>1 DEF Propose, DiagnosisFits
    <3>4. "header_detection" \in report'.classes
            => report'.classes \cap {"mixed_delimiter", "no_header"} = {}
      BY <3>2, <3>3 DEF DetectorConsistent
    <3>5. DecidedByEvidence(ForceEvidence(guess, report'.classes, report'), report')
      BY <3>4, ForceKeepsEvidence, InputAssumption
    <3>6. QED
      BY <3>1, <3>2, <3>5 DEF EvidenceStillDecides
  <2>2. CASE Diagnose
    BY <2>2 DEF Diagnose, EvidenceStillDecides
  <2>3. CASE Answer \/ ExecuteWrites \/ ExecuteFails \/ Verify
    BY <2>3 DEF Answer, ExecuteWrites, ExecuteFails, Verify, EvidenceStillDecides
  <2>4. CASE EditSource
    BY <2>4 DEF EditSource, EvidenceStillDecides
  <2>5. CASE OverwriteOutput \/ UNCHANGED vars
    BY <2>5 DEF OverwriteOutput, vars, EvidenceStillDecides
  <2>6. QED
    BY <2>1, <2>2, <2>3, <2>4, <2>5 DEF Next
<1>3. QED
  BY <1>1, <1>2, DiagnosisInvariant, PTL DEF Spec
-----------------------------------------------------------------------------
(***************************************************************************)
(* What the executors make of a line.                                      *)
(***************************************************************************)

\* The places of some elements of a sequence can be numbered in their order.
LEMMA RanksNumber ==
  ASSUME NEW n \in Nat, NEW V \in SUBSET (1 .. n)
  PROVE  /\ IsFiniteSet(V) /\ Cardinality(V) \in Nat
         /\ LET rank == [i \in V |-> Cardinality({j \in V : j <= i})]
            IN  /\ rank \in [V -> 1 .. Cardinality(V)]
                /\ \A i, k \in V : rank[i] = rank[k] => i = k
                /\ \A m \in 1 .. Cardinality(V) : \E i \in V : rank[i] = m
<1> DEFINE upTo(i) == {j \in V : j <= i}
           rank == [i \in V |-> Cardinality(upTo(i))]
           N == Cardinality(V)
<1>1. IsFiniteSet(V) /\ N \in Nat
  <2>1. IsFiniteSet(1 .. n)
    BY FS_Interval
  <2>2. IsFiniteSet(V)
    BY <2>1, FS_Subset
  <2>3. QED
    BY <2>2, FS_CardinalityType
<1>2. ASSUME NEW i \in V
      PROVE  IsFiniteSet(upTo(i)) /\ Cardinality(upTo(i)) \in 1 .. N
  <2>1. /\ upTo(i) \in SUBSET V /\ upTo(i) # {}
        /\ \A j \in V : j \in upTo(i) <=> j <= i
    <3>1. i \in upTo(i)
      OBVIOUS
    <3>2. QED
      BY <3>1
  <2> HIDE DEF upTo
  <2>2. IsFiniteSet(upTo(i)) /\ Cardinality(upTo(i)) <= N
    BY <1>1, <2>1, FS_Subset
  <2>3. Cardinality(upTo(i)) \in Nat /\ Cardinality(upTo(i)) # 0
    BY <2>1, <2>2, FS_CardinalityType, FS_EmptySet
  <2>4. QED
    BY <1>1, <2>2, <2>3
<1>3. rank \in [V -> 1 .. N]
  BY <1>2
<1>4. ASSUME NEW i \in V, NEW k \in V, i < k
      PROVE  Cardinality(upTo(i)) # Cardinality(upTo(k))
  <2>1. upTo(i) \in SUBSET upTo(k)
    <3>1. \A j \in V : j <= i => j <= k
      BY <1>4
    <3>2. QED
      BY <3>1
  <2>2. k \in upTo(k) /\ k \notin upTo(i)
    BY <1>4
  <2>3. IsFiniteSet(upTo(k))
    BY <1>2
  <2> HIDE DEF upTo
  <2>4. Cardinality(upTo(k)) = Cardinality(upTo(i)) => upTo(k) = upTo(i)
    BY <2>1, <2>3, FS_Subset
  <2>5. QED
    BY <2>2, <2>4
<1>5. \A i, k \in V : rank[i] = rank[k] => i = k
  <2> SUFFICES ASSUME NEW i \in V, NEW k \in V, i # k
               PROVE  rank[i] # rank[k]
    OBVIOUS
  <2>1. i < k \/ k < i
    OBVIOUS
  <2>2. rank[i] = Cardinality(upTo(i)) /\ rank[k] = Cardinality(upTo(k))
    OBVIOUS
  <2> HIDE DEF rank, upTo
  <2>3. QED
    BY <1>4, <2>1, <2>2
<1> HIDE DEF rank
<1>6. rank \in Injection(V, 1 .. N)
  BY <1>3, <1>5, Fun_IsInj
<1>7. IsFiniteSet(1 .. N) /\ Cardinality(1 .. N) = N
  BY <1>1, FS_Interval
<1>8. rank \in Surjection(V, 1 .. N)
  BY <1>6, <1>7, FS_Injection
<1>9. \A m \in 1 .. N : \E i \in V : rank[i] = m
  BY <1>8, Zenon DEF Surjection
<1>10. QED
  BY <1>1, <1>3, <1>5, <1>9 DEF rank

\* Taking separators away leaves the others in their order, and every character
\* as often as it was if none of it is taken.
LEMMA WithoutKeeps ==
  ASSUME NEW line \in Lines, NEW gone
  PROVE  LET new == Without(line, gone)
         IN  /\ new \in Lines
             /\ new.key = line.key /\ new.words = line.words
             /\ new.number = line.number
             /\ \A d : (\A i \in LeftOf(line, gone) : line.seps[i] # d)
                       => d \notin ToSet(new.seps)
             /\ \A d : (\A i \in DOMAIN line.seps : i \in gone => line.seps[i] # d)
                       => FieldCount(new, d) = FieldCount(line, d)
<1> DEFINE s == line.seps
           V == LeftOf(line, gone)
           N == Cardinality(V)
           rank == [i \in V |-> Cardinality({j \in V : j <= i})]
           place(n) == CHOOSE i \in V : Cardinality({j \in V : j <= i}) = n
           t == [n \in 1 .. N |-> s[place(n)]]
           new == Without(line, gone)
<1>1. line \in [key : Nat, words : Words, number : BOOLEAN,
                seps : Seq(Delimiters \cup {Invisible, Quoted})]
  BY DEF Lines
<1>2. new = [line EXCEPT !.seps = t]
  BY DEF Without
<1>3. /\ new.key = line.key /\ new.words = line.words
      /\ new.number = line.number /\ new.seps = t
  BY <1>1, <1>2
<1>4. PICK l \in Nat : Len(s) = l /\ DOMAIN s = 1 .. l
  BY LineShape
<1>5. V \in SUBSET (1 .. l) /\ \A i \in 1 .. l : i \in V <=> i \notin gone
  BY <1>4 DEF LeftOf
<1> HIDE DEF V, new
<1>6. IsFiniteSet(V) /\ N \in Nat
  BY <1>5, RanksNumber
<1>7. /\ rank \in [V -> 1 .. N]
      /\ \A i, k \in V : rank[i] = rank[k] => i = k
      /\ \A n \in 1 .. N : \E i \in V : rank[i] = n
  BY <1>5, RanksNumber
<1>8. \A i \in V : rank[i] = Cardinality({j \in V : j <= i})
  OBVIOUS
<1> HIDE DEF rank, N
<1>9. ASSUME NEW n \in 1 .. N
      PROVE  place(n) \in V /\ rank[place(n)] = n
  <2>1. \E i \in V : Cardinality({j \in V : j <= i}) = n
    BY <1>7, <1>8
  <2>2. place(n) \in V /\ Cardinality({j \in V : j <= place(n)}) = n
    BY <2>1
  <2>3. QED
    BY <2>2, <1>8
<1>10. \A i \in V : place(rank[i]) = i
  BY <1>7, <1>9
<1> HIDE DEF place
<1>11. t \in Seq(Delimiters \cup {Invisible, Quoted}) /\ DOMAIN t = 1 .. N
  <2>1. ASSUME NEW n \in 1 .. N
        PROVE  s[place(n)] \in Delimiters \cup {Invisible, Quoted}
    <3>1. place(n) \in 1 .. l
      BY <1>5, <1>9
    <3>2. \A i \in 1 .. l : s[i] \in Delimiters \cup {Invisible, Quoted}
      BY <1>1, <1>4
    <3>3. QED
      BY <3>1, <3>2
  <2>2. QED
    BY <1>6, <2>1
<1>12. new \in Lines
  BY <1>1, <1>2, <1>11 DEF Lines
<1>13. ASSUME NEW d, \A i \in V : s[i] # d
       PROVE  d \notin ToSet(new.seps)
  <2>1. \A n \in 1 .. N : t[n] # d
    BY <1>9, <1>13
  <2> HIDE DEF t
  <2>2. QED
    BY <1>3, <1>11, <2>1 DEF ToSet
<1>14. ASSUME NEW d, \A i \in DOMAIN s : i \in gone => s[i] # d
       PROVE  FieldCount(new, d) = FieldCount(line, d)
  <2> DEFINE A == Occurrences(line, d)
             B == Occurrences(new, d)
             f == [i \in A |-> rank[i]]
  <2>1. A \subseteq V /\ \A i \in V : i \in A <=> s[i] = d
    BY <1>4, <1>5, <1>14 DEF Occurrences
  <2>2. \A n \in 1 .. N : n \in B <=> s[place(n)] = d
    BY <1>3, <1>11 DEF Occurrences
  <2>3. B \subseteq 1 .. N
    BY <1>3, <1>11 DEF Occurrences
  <2> HIDE DEF A, B, t
  <2>4. f \in [A -> B]
    <3>1. ASSUME NEW i \in A PROVE rank[i] \in B
      <4>1. i \in V /\ rank[i] \in 1 .. N /\ place(rank[i]) = i
        BY <2>1, <1>7, <1>10
      <4>2. QED
        BY <4>1, <2>1, <2>2
    <3>2. QED
      BY <3>1
  <2>5. \A i, k \in A : f[i] = f[k] => i = k
    BY <2>1, <1>7
  <2>6. \A n \in B : \E i \in A : f[i] = n
    <3>1. ASSUME NEW n \in B PROVE place(n) \in A /\ rank[place(n)] = n
      <4>1. n \in 1 .. N /\ s[place(n)] = d
        BY <2>2, <2>3
      <4>2. QED
        BY <4>1, <1>9, <2>1
    <3>2. QED
      BY <3>1
  <2> HIDE DEF f
  <2>7. f \in Bijection(A, B)
    BY <2>4, <2>5, <2>6, Fun_IsBij
  <2>8. IsFiniteSet(A) /\ FieldCount(line, d) = 1 + Cardinality(A)
    BY <1>4, FieldsCounted DEF A
  <2>9. Cardinality(B) = Cardinality(A)
    BY <2>7, <2>8, FS_Bijection DEF ExistsBijection
  <2>10. FieldCount(new, d) = 1 + Cardinality(B)
    BY <1>3, <1>6, <1>11, FieldsCounted DEF B
  <2>11. QED
    BY <2>8, <2>9, <2>10
<1>15. QED
  BY <1>3, <1>12, <1>13, <1>14 DEF V, new

\* Whatever pandas makes of the words of a row, it has the fields it had.
LEMMA TypedKeeps ==
  ASSUME NEW line \in Lines, NEW lost,
         \A i \in DOMAIN line.seps : i \in lost => line.seps[i] # Comma
  PROVE  /\ Typed(line, lost) \in Lines
         /\ Typed(line, lost).key = line.key
         /\ Typed(line, lost).seps = Without(line, lost).seps
         /\ FieldCount(Typed(line, lost), Comma) = FieldCount(line, Comma)
<1> DEFINE left == Without(line, lost)
           new == Typed(line, lost)
<1>1. /\ left \in Lines /\ left.key = line.key
      /\ FieldCount(left, Comma) = FieldCount(line, Comma)
  BY WithoutKeeps
<1>2. new = [left EXCEPT !.words = "typed", !.number = @ /\ 0 \notin lost]
  BY DEF Typed
<1> HIDE DEF left, new
<1>3. left \in [key : Nat, words : Words, number : BOOLEAN,
                seps : Seq(Delimiters \cup {Invisible, Quoted})]
  BY <1>1 DEF Lines
<1>4. "typed" \in Words
  BY DEF Words
<1>5. new \in Lines /\ new.key = left.key /\ new.seps = left.seps
  BY <1>2, <1>3, <1>4 DEF Lines
<1>6. FieldCount(new, Comma) = FieldCount(left, Comma)
  BY <1>5 DEF FieldCount
<1>7. QED
  BY <1>1, <1>5, <1>6 DEF left, new

\* Stripping a header leaves its fields, and nothing invisible.
LEMMA StrippedKeeps ==
  ASSUME NEW line \in Lines
  PROVE  /\ Stripped(line) \in Lines
         /\ Stripped(line).key = line.key
         /\ ~ContainsInvisible(Stripped(line))
         /\ FieldCount(Stripped(line), Comma) = FieldCount(line, Comma)
<1> DEFINE hidden == {i \in DOMAIN line.seps : line.seps[i] = Invisible}
<1>1. Comma # Invisible
  BY CharacterAssumption
<1>2. \A i \in DOMAIN line.seps : i \in hidden => line.seps[i] # Comma
  BY <1>1
<1>3. \A i \in LeftOf(line, hidden) : line.seps[i] # Invisible
  BY DEF LeftOf
<1>4. Stripped(line) = Typed(line, hidden)
  BY DEF Stripped
<1> HIDE DEF hidden
<1>5. /\ Typed(line, hidden) \in Lines
      /\ Typed(line, hidden).key = line.key
      /\ Typed(line, hidden).seps = Without(line, hidden).seps
      /\ FieldCount(Typed(line, hidden), Comma) = FieldCount(line, Comma)
  BY <1>2, TypedKeeps
<1>6. Invisible \notin ToSet(Without(line, hidden).seps)
  BY <1>3, WithoutKeeps
<1>7. QED
  BY <1>4, <1>5, <1>6 DEF ContainsInvisible

-----------------------------------------------------------------------------
(***************************************************************************)
(* What the executors make of a file.                                      *)
(***************************************************************************)

\* The shape of a text.
LEMMA LinesShape ==
  ASSUME NEW lines \in Seq(Lines)
  PROVE  /\ Len(lines) \in Nat /\ DOMAIN lines = 1 .. Len(lines)
         /\ \A i \in 1 .. Len(lines) : lines[i] \in Lines
         /\ \A i \in 1 .. Len(lines) : \A d : FieldCount(lines[i], d) \in Nat \ {0}
<1>1. /\ Len(lines) \in Nat /\ DOMAIN lines = 1 .. Len(lines)
      /\ \A i \in 1 .. Len(lines) : lines[i] \in Lines
  OBVIOUS
<1>2. ASSUME NEW i \in 1 .. Len(lines), NEW d
      PROVE  FieldCount(lines[i], d) \in Nat \ {0}
  BY <1>1, LineShape, FieldsCounted
<1>3. QED
  BY <1>1, <1>2

\* The lines after the first m.
LEMMA RestShape ==
  ASSUME NEW lines \in Seq(Lines), NEW m \in Nat, m < Len(lines)
  PROVE  LET rest == SubSeq(lines, m + 1, Len(lines))
         IN  /\ rest \in Seq(Lines)
             /\ Len(rest) = Len(lines) - m
             /\ \A i \in 1 .. Len(lines) - m :
                  m + i \in 1 .. Len(lines) /\ rest[i] = lines[m + i]
<1>1. PICK n \in Nat : n = Len(lines)
  BY LinesShape
<1>2. m + 1 \in Int /\ m + 1 <= n /\ n - (m + 1) + 1 = n - m
  BY <1>1
<1>3. \A i \in m + 1 .. n : lines[i] \in Lines
  BY <1>1, LinesShape
<1>4. /\ SubSeq(lines, m + 1, n) \in Seq(Lines)
      /\ Len(SubSeq(lines, m + 1, n)) = n - m
      /\ \A i \in 1 .. n - m : SubSeq(lines, m + 1, n)[i] = lines[m + 1 + i - 1]
  BY <1>1, <1>2, <1>3, SubSeqProperties
<1>5. \A i \in 1 .. n - m : m + i \in 1 .. n /\ m + 1 + i - 1 = m + i
  BY <1>1
<1>6. QED
  BY <1>1, <1>4, <1>5

\* All counts are one count exactly when there are lines and they agree.
LEMMA OneCount ==
  ASSUME NEW lines \in Seq(Lines), NEW d
  PROVE  Cardinality(FieldCountsIn(lines, d)) = 1
           <=> /\ 1 <= Len(lines)
               /\ \A i \in 1 .. Len(lines) :
                    FieldCount(lines[i], d) = FieldCount(lines[1], d)
<1> DEFINE counts == FieldCountsIn(lines, d)
<1>1. PICK n \in Nat : n = Len(lines) /\ DOMAIN lines = 1 .. n
  BY LinesShape
<1>2. counts = {FieldCount(lines[i], d) : i \in 1 .. n}
  BY <1>1 DEF FieldCountsIn
<1>3. IsFiniteSet(1 .. n)
  BY FS_Interval
<1>4. IsFiniteSet(counts)
  <2> DEFINE f == [i \in 1 .. n |-> FieldCount(lines[i], d)]
  <2>1. f \in [1 .. n -> counts] /\ \A x \in counts : \E i \in 1 .. n : f[i] = x
    BY <1>2
  <2> HIDE DEF f, counts
  <2>2. f \in Surjection(1 .. n, counts)
    BY <2>1, Fun_IsSurj
  <2>3. QED
    BY <1>3, <2>2, FS_Surjection
<1> HIDE DEF counts
<1>5. Cardinality(counts) = 1 <=> \E x : counts = {x}
  BY <1>4, FS_Singleton
<1>6. (\E x : counts = {x})
        <=> /\ 1 <= n
            /\ \A i \in 1 .. n : FieldCount(lines[i], d) = FieldCount(lines[1], d)
  <2>1. ASSUME NEW x, counts = {x}
        PROVE  /\ 1 <= n
               /\ \A i \in 1 .. n : FieldCount(lines[i], d) = FieldCount(lines[1], d)
    <3>1. \A i \in 1 .. n : FieldCount(lines[i], d) = x
      BY <1>2, <2>1
    <3>2. \E i \in 1 .. n : TRUE
      BY <1>2, <2>1
    <3>3. 1 \in 1 .. n
      BY <3>2
    <3>4. QED
      BY <3>1, <3>3
  <2>2. ASSUME 1 <= n,
               \A i \in 1 .. n : FieldCount(lines[i], d) = FieldCount(lines[1], d)
        PROVE  counts = {FieldCount(lines[1], d)}
    <3>1. 1 \in 1 .. n
      BY <2>2
    <3>2. QED
      BY <1>2, <2>2, <3>1
  <2>3. QED
    BY <2>1, <2>2
<1>7. QED
  BY <1>1, <1>5, <1>6 DEF counts

\* A row is replaced where it is flagged, and stays as it was elsewhere.
LEMMA WithRepairsShape ==
  ASSUME NEW lines \in Seq(Lines), NEW p \in Prescriptions, RowsAssumed
  PROVE  LET new == WithRepairs(lines, p)
         IN  /\ new \in Seq(Lines) /\ Len(new) = Len(lines)
             /\ \A i \in 1 .. Len(lines) \ Flagged(p) : new[i] = lines[i]
             /\ \A i \in 1 .. Len(lines) \cap Flagged(p) :
                  \E r \in p.mixed_delimiter_rows :
                    r.row_number = i /\ new[i] = r.repaired_text
<1> DEFINE new == WithRepairs(lines, p)
<1>1. PICK n \in Nat : /\ n = Len(lines) /\ DOMAIN lines = 1 .. n
                       /\ \A i \in 1 .. n : lines[i] \in Lines
  BY LinesShape
<1>2. p.mixed_delimiter_rows \subseteq RowRepairs
  BY DEF Prescriptions
<1>3. \A r \in p.mixed_delimiter_rows : r.repaired_text \in Lines
  BY <1>2 DEF RowsAssumed
<1>4. \A i \in 1 .. n \ Flagged(p) : new[i] = lines[i]
  BY <1>1 DEF WithRepairs
<1>5. ASSUME NEW i \in 1 .. n, i \in Flagged(p)
      PROVE  \E r \in p.mixed_delimiter_rows :
               r.row_number = i /\ new[i] = r.repaired_text
  <2> DEFINE r == CHOOSE q \in p.mixed_delimiter_rows : q.row_number = i
  <2>1. new[i] = r.repaired_text
    BY <1>1, <1>5 DEF WithRepairs
  <2>2. \E q \in p.mixed_delimiter_rows : q.row_number = i
    BY <1>5 DEF Flagged
  <2>3. r \in p.mixed_delimiter_rows /\ r.row_number = i
    BY <2>2
  <2> HIDE DEF r
  <2>4. QED
    BY <2>1, <2>3
<1>6. new = [i \in 1 .. n |-> new[i]]
  BY <1>1 DEF WithRepairs
<1> HIDE DEF new
<1>7. \A i \in 1 .. n : new[i] \in Lines
  BY <1>1, <1>3, <1>4, <1>5
<1>8. new \in Seq(Lines) /\ Len(new) = n
  BY <1>6, <1>7
<1>9. QED
  BY <1>1, <1>4, <1>5, <1>8 DEF new

\* Where the header is named counts the lines before it.
LEMMA PreambleTyped ==
  ASSUME NEW p \in Prescriptions
  PROVE  /\ Preamble(p) \in Nat
         /\ p.header_row # None => Preamble(p) = p.header_row
         /\ p.delimiter \in Delimiters
BY DEF Prescriptions, HeaderRows, Preamble

\* Separated by commas, the rows of a table are as wide as they were.
LEMMA CommaRowsShape ==
  ASSUME NEW lines \in Seq(Lines), NEW p \in Prescriptions,
         Preamble(p) < Len(lines)
  PROVE  LET rows == CommaRows(lines, p)
             kept == Table(lines, p)
         IN  /\ kept \in Seq(Lines) /\ rows \in Seq(Lines)
             /\ Len(rows) = Len(kept) /\ Len(kept) = Len(lines) - Preamble(p)
             /\ 1 <= Len(kept)
             /\ \A i \in 1 .. Len(kept) :
                  /\ rows[i].key = kept[i].key
                  /\ Len(rows[i].seps) = Len(kept[i].seps)
                  /\ FieldCount(rows[i], Comma) = FieldCount(kept[i], p.delimiter)
<1> DEFINE rows == CommaRows(lines, p)
           kept == Table(lines, p)
           m == Preamble(p)
<1>1. m \in Nat /\ m < Len(lines) /\ Len(lines) \in Nat
  BY PreambleTyped, LinesShape
<1>2. kept \in Seq(Lines) /\ Len(kept) = Len(lines) - m
  BY <1>1, RestShape DEF Table
<1>3. 1 <= Len(kept)
  BY <1>1, <1>2
<1>4. /\ Len(kept) \in Nat /\ DOMAIN kept = 1 .. Len(kept)
      /\ \A i \in 1 .. Len(kept) : kept[i] \in Lines
  BY <1>2, LinesShape
<1>5. rows = [i \in 1 .. Len(kept) |-> Reseparated(kept[i], p.delimiter, Comma)]
  BY <1>4 DEF CommaRows
<1>6. Comma # Quoted /\ Comma \in Delimiters
  BY CharacterAssumption
<1> HIDE DEF rows, kept, m
<1>7. ASSUME NEW i \in 1 .. Len(kept)
      PROVE  /\ rows[i] \in Lines
             /\ rows[i].key = kept[i].key
             /\ Len(rows[i].seps) = Len(kept[i].seps)
             /\ FieldCount(rows[i], Comma) = FieldCount(kept[i], p.delimiter)
  <2>1. rows[i] = Reseparated(kept[i], p.delimiter, Comma)
    BY <1>5
  <2>2. QED
    BY <1>4, <1>6, <2>1, ReseparatedKeeps
<1>8. rows \in Seq(Lines) /\ Len(rows) = Len(kept)
  BY <1>4, <1>5, <1>7
<1>9. QED
  BY <1>2, <1>3, <1>7, <1>8 DEF rows, kept, m

\* pandas' own header is a line as wide as it is asked to be.
LEMMA NumberedShape ==
  ASSUME NEW w \in Nat \ {0}
  PROVE  /\ NumberedColumns(w) \in Lines
         /\ FieldCount(NumberedColumns(w), Comma) = w
<1> DEFINE header == NumberedColumns(w)
<1>1. PICK n \in Nat : n = w - 1 /\ w = 1 + n
  OBVIOUS
<1>2. header = [key |-> 0, words |-> "typed", number |-> TRUE,
                seps |-> [i \in 1 .. n |-> Comma]]
  BY <1>1 DEF NumberedColumns
<1>3. Comma \in Delimiters /\ "typed" \in Words
  BY CharacterAssumption DEF Words
<1>4. header \in Lines
  BY <1>2, <1>3 DEF Lines
<1>5. DOMAIN header.seps = 1 .. n /\ Occurrences(header, Comma) = 1 .. n
  BY <1>2 DEF Occurrences
<1> HIDE DEF header
<1>6. FieldCount(header, Comma) = 1 + Cardinality(1 .. n)
  BY <1>5, FieldsCounted
<1>7. Cardinality(1 .. n) = n
  BY FS_Interval
<1>8. QED
  BY <1>1, <1>4, <1>6, <1>7 DEF header

\* What pandas may write of some rows are as many rows, with the same fields.
LEMMA TypedTableShape ==
  ASSUME NEW rows \in Seq(Lines), NEW table \in TypedTables(rows)
  PROVE  /\ table \in Seq(Lines) /\ Len(table) = Len(rows)
         /\ \A i \in 1 .. Len(rows) :
              /\ table[i].key = rows[i].key
              /\ FieldCount(table[i], Comma) = FieldCount(rows[i], Comma)
<1>1. PICK n \in Nat : /\ n = Len(rows) /\ DOMAIN rows = 1 .. n
                       /\ \A i \in 1 .. n : rows[i] \in Lines
  BY LinesShape
<1>2. PICK lost :
        table = [i \in DOMAIN rows |->
                   Typed(rows[i], {j \in Losable(rows[i]) : <<i, j>> \in lost})]
  BY DEF TypedTables
<1>3. ASSUME NEW i \in 1 .. n
      PROVE  /\ table[i] \in Lines /\ table[i].key = rows[i].key
             /\ FieldCount(table[i], Comma) = FieldCount(rows[i], Comma)
  <2> DEFINE these == {j \in Losable(rows[i]) : <<i, j>> \in lost}
  <2>1. table[i] = Typed(rows[i], these)
    BY <1>1, <1>2
  <2>2. DOMAIN rows[i].seps \subseteq Nat \ {0}
    BY <1>1, LineShape
  <2>3. \A j \in DOMAIN rows[i].seps : j \in these => rows[i].seps[j] # Comma
    BY <2>2 DEF Losable
  <2> HIDE DEF these
  <2>4. QED
    BY <1>1, <2>1, <2>3, TypedKeeps
<1>4. DOMAIN table = 1 .. n /\ table = [i \in 1 .. n |-> table[i]]
  BY <1>1, <1>2
<1>5. table \in Seq(Lines) /\ Len(table) = n
  BY <1>3, <1>4
<1>6. QED
  BY <1>1, <1>3, <1>5

\* What pandas writes of a table that fits: one row more if it numbers the
\* columns, and the rows of the table, all as wide as its header.
LEMMA TableOutputShape ==
  ASSUME NEW lines \in Seq(Lines), NEW p \in Prescriptions, TableFits(lines, p),
         NEW out \in TableOutputs(lines, p)
  PROVE  LET kept == Table(lines, p)
             rows == IF p.header_row = None THEN Tail(out) ELSE out
             w == FieldCount(kept[1], p.delimiter)
         IN  /\ out \in Seq(Lines) /\ rows \in Seq(Lines)
             /\ 1 <= Len(out) /\ Len(rows) = Len(kept)
             /\ \A i \in 1 .. Len(kept) :
                  /\ rows[i].key = kept[i].key
                  /\ FieldCount(rows[i], Comma) = w
                  /\ FieldCount(kept[i], p.delimiter) = w
             /\ \A i \in 1 .. Len(out) : FieldCount(out[i], Comma) = w
<1> DEFINE kept == Table(lines, p)
           plain == CommaRows(lines, p)
           rows == IF p.header_row = None THEN Tail(out) ELSE out
           w == FieldCount(kept[1], p.delimiter)
           Shape ==
             /\ out \in Seq(Lines) /\ rows \in Seq(Lines)
             /\ 1 <= Len(out) /\ Len(rows) = Len(kept)
             /\ \A i \in 1 .. Len(kept) :
                  /\ rows[i].key = kept[i].key
                  /\ FieldCount(rows[i], Comma) = w
                  /\ FieldCount(kept[i], p.delimiter) = w
             /\ \A i \in 1 .. Len(out) : FieldCount(out[i], Comma) = w
<1>1. /\ kept \in Seq(Lines) /\ plain \in Seq(Lines)
      /\ Len(plain) = Len(kept) /\ 1 <= Len(kept)
      /\ \A i \in 1 .. Len(kept) :
           /\ plain[i].key = kept[i].key
           /\ FieldCount(plain[i], Comma) = FieldCount(kept[i], p.delimiter)
  BY CommaRowsShape DEF TableFits
<1>2. PICK table \in TypedTables(plain) :
        out = IF p.header_row = None
              THEN <<NumberedColumns(FieldCount(plain[1], Comma))>> \o table
              ELSE [table EXCEPT ![1] = Stripped(plain[1])]
  BY DEF TableOutputs
<1>3. \A i \in 1 .. Len(kept) : FieldCount(kept[i], p.delimiter) = w
  BY <1>1, OneCount DEF TableFits
<1> HIDE DEF kept, plain, w
<1>4. PICK n \in Nat : n = Len(kept) /\ n >= 1
  BY <1>1, LinesShape
<1>5. \A i \in 1 .. n : /\ plain[i] \in Lines /\ plain[i].key = kept[i].key
                        /\ FieldCount(plain[i], Comma) = w
  BY <1>1, <1>3, <1>4, LinesShape
<1>6. /\ table \in Seq(Lines) /\ Len(table) = n
      /\ \A i \in 1 .. n : /\ table[i].key = kept[i].key
                           /\ FieldCount(table[i], Comma) = w
  <2>1. /\ table \in Seq(Lines) /\ Len(table) = Len(plain)
        /\ \A i \in 1 .. Len(plain) :
             /\ table[i].key = plain[i].key
             /\ FieldCount(table[i], Comma) = FieldCount(plain[i], Comma)
    BY <1>1, TypedTableShape
  <2>2. QED
    BY <1>1, <1>4, <1>5, <2>1
<1>7. ASSUME p.header_row = None PROVE Shape
  <2> DEFINE header == NumberedColumns(w)
  <2>1. w \in Nat \ {0}
    <3>1. 1 \in 1 .. Len(plain) /\ 1 \in 1 .. n
      BY <1>1, <1>4
    <3>2. FieldCount(plain[1], Comma) \in Nat \ {0}
      BY <1>1, <3>1, LinesShape
    <3>3. QED
      BY <1>5, <3>1, <3>2
  <2>2. header \in Lines /\ FieldCount(header, Comma) = w
    BY <2>1, NumberedShape
  <2>3. out = <<header>> \o table
    BY <1>2, <1>4, <1>5, <1>7
  <2> HIDE DEF header
  <2>4. /\ out \in Seq(Lines) /\ Len(out) = n + 1
        /\ out[1] = header /\ \A i \in 1 .. n : out[i + 1] = table[i]
    BY <1>4, <1>6, <2>2, <2>3
  <2>5. \A i \in 1 .. n + 1 : FieldCount(out[i], Comma) = w
    <3>1. ASSUME NEW i \in 1 .. n + 1, i # 1
          PROVE  i - 1 \in 1 .. n /\ out[i] = table[i - 1]
      BY <2>4, <3>1
    <3>2. QED
      BY <1>6, <2>2, <2>4, <3>1
  <2>6. /\ rows \in Seq(Lines) /\ Len(rows) = n
        /\ \A i \in 1 .. n : rows[i] = table[i]
    BY <1>4, <1>7, <2>4, HeadTailProperties
  <2> HIDE DEF rows
  <2>7. \A i \in 1 .. n : /\ rows[i].key = kept[i].key
                         /\ FieldCount(rows[i], Comma) = w
    BY <1>6, <2>6
  <2>8. 1 <= Len(out)
    BY <1>4, <2>4
  <2>9. QED
    BY <1>3, <1>4, <2>4, <2>5, <2>6, <2>7, <2>8
<1>8. ASSUME p.header_row # None PROVE Shape
  <2>1. out = [table EXCEPT ![1] = Stripped(plain[1])] /\ rows = out
    BY <1>2, <1>8
  <2>2. 1 \in 1 .. n
    BY <1>4
  <2>3. /\ Stripped(plain[1]) \in Lines
        /\ Stripped(plain[1]).key = kept[1].key
        /\ FieldCount(Stripped(plain[1]), Comma) = w
    BY <1>5, <2>2, StrippedKeeps
  <2>4. /\ out \in Seq(Lines) /\ Len(out) = n
        /\ out[1] = Stripped(plain[1])
        /\ \A i \in 2 .. n : out[i] = table[i]
    BY <1>4, <1>6, <2>1, <2>2, <2>3
  <2>5. \A i \in 1 .. n : i = 1 \/ i \in 2 .. n
    OBVIOUS
  <2> HIDE DEF rows
  <2>6. \A i \in 1 .. n : out[i].key = kept[i].key /\ FieldCount(out[i], Comma) = w
    BY <1>6, <2>3, <2>4, <2>5
  <2>7. QED
    BY <1>3, <1>4, <2>1, <2>4, <2>6
<1>9. QED
  BY <1>7, <1>8 DEF kept, rows, w

\* The row executor writes the lines from the header on, each as it was or as
\* it was to be.
LEMMA RowOutputShape ==
  ASSUME NEW lines \in Seq(Lines), NEW p \in Prescriptions, RowsAssumed,
         Preamble(p) < Len(lines)
  PROVE  LET out == RowOutput(lines, p)
             m == Preamble(p)
             n == Len(lines) - m
         IN  /\ out \in Seq(Lines) /\ Len(out) = n /\ 1 <= n
             /\ \A i \in 1 .. n :
                  /\ m + i \in 1 .. Len(lines)
                  /\ out[i] = WithRepairs(lines, p)[m + i]
<1> DEFINE new == WithRepairs(lines, p)
           m == Preamble(p)
<1>1. new \in Seq(Lines) /\ Len(new) = Len(lines)
  BY WithRepairsShape
<1>2. m \in Nat /\ m < Len(lines) /\ Len(lines) \in Nat
  BY PreambleTyped, LinesShape
<1>3. RowOutput(lines, p) = SubSeq(new, m + 1, Len(new))
  BY <1>1 DEF RowOutput
<1> HIDE DEF new, m
<1>4. /\ SubSeq(new, m + 1, Len(new)) \in Seq(Lines)
      /\ Len(SubSeq(new, m + 1, Len(new))) = Len(lines) - m
      /\ \A i \in 1 .. Len(lines) - m :
           /\ m + i \in 1 .. Len(lines)
           /\ SubSeq(new, m + 1, Len(new))[i] = new[m + i]
  BY <1>1, <1>2, RestShape
<1>5. 1 <= Len(lines) - m
  BY <1>2
<1>6. QED
  BY <1>3, <1>4, <1>5 DEF new, m

\* What is written is a text.
LEMMA RepairedTyped ==
  ASSUME NEW lines \in Seq(Lines), NEW p \in Prescriptions, RowsAssumed,
         Fits(lines, p)
  PROVE  Repaired(lines, p) \subseteq Seq(Lines)
<1>1. CASE ByRows(p)
  BY <1>1, RowOutputShape DEF Fits, Repaired, RowsFit
<1>2. CASE ~ByRows(p)
  BY <1>2, TableOutputShape DEF Fits, Repaired
<1>3. QED
  BY <1>1, <1>2

\* What a text may be read as, if at all, is a text.
LEMMA ReadingsTyped ==
  ASSUME NEW lines \in Seq(Lines), NEW decoded, NEW encoding
  PROVE  Readings(lines, decoded, encoding) \subseteq Seq(Lines) \cup {None}
<1>1. Garbage \in Seq(Lines)
  <2>1. [key |-> 0, words |-> "misread", number |-> FALSE, seps |-> <<>>] \in Lines
    BY DEF Lines, Words
  <2>2. QED
    BY <2>1 DEF Garbage
<1>2. Misspelled(lines) \in Seq(Lines)
  <2>1. PICK n \in Nat : /\ n = Len(lines) /\ DOMAIN lines = 1 .. n
                         /\ \A i \in 1 .. n : lines[i] \in Lines
    BY LinesShape
  <2>2. ASSUME NEW line \in Lines PROVE [line EXCEPT !.words = "misread"] \in Lines
    BY DEF Lines, Words
  <2>3. QED
    BY <2>1, <2>2 DEF Misspelled
<1>3. QED
  BY <1>1, <1>2 DEF Readings

\* Evidence is forced into a prescription and leaves one.
LEMMA ForcedTyped ==
  ASSUME NEW raw \in Prescriptions, NEW classes, NEW s \in SourceFiles
  PROVE  ForceEvidence(raw, classes, s) \in Prescriptions
<1> USE DEF Prescriptions, SourceFiles, HeaderRows
<1>1. ForceEncoding(raw, classes, s) \in Prescriptions
  BY DEF ForceEncoding
<1>2. ASSUME NEW r \in Prescriptions
      PROVE  ForceMixedRows(r, classes, s) \in Prescriptions
  BY <1>2 DEF ForceMixedRows
<1>3. ASSUME NEW r \in Prescriptions
      PROVE  ForceHeaderOffset(r, classes, s) \in Prescriptions
  BY <1>3 DEF ForceHeaderOffset
<1>4. ASSUME NEW r \in Prescriptions
      PROVE  ForceGarbledHeader(r, classes, s) \in Prescriptions
  BY <1>4 DEF ForceGarbledHeader
<1>5. ASSUME NEW r \in Prescriptions
      PROVE  ForceNoHeader(r, classes, s) \in Prescriptions
  BY <1>5 DEF ForceNoHeader
<1> HIDE DEF Prescriptions, SourceFiles, HeaderRows
<1>6. QED
  BY <1>1, <1>2, <1>3, <1>4, <1>5 DEF ForceEvidence

\* An edited file is a file.
LEMMA EditTyped ==
  ASSUME NEW file \in Files, NEW lines \in Edits(file.lines), NEW d \in Sniffs(lines)
  PROVE  [file EXCEPT !.lines = lines, !.delimiter = d] \in Files
<1>1. d \in Sniffable
  BY CharacterAssumption DEF Sniffs
<1>2. file.lines \in Seq(Lines)
  BY DEF Files
<1>3. PICK n \in Nat : /\ n = Len(file.lines) /\ DOMAIN file.lines = 1 .. n
                       /\ \A i \in 1 .. n : file.lines[i] \in Lines
  BY <1>2, LinesShape
<1>4. ASSUME NEW a \in Int, NEW b \in Int, 1 <= a, b <= n
      PROVE  SubSeq(file.lines, a, b) \in Seq(Lines)
  <2>1. \A i \in a .. b : file.lines[i] \in Lines
    BY <1>3, <1>4
  <2>2. QED
    BY <1>4, <2>1, SubSeqProperties
<1>5. ASSUME \E i \in 1 .. n : lines = RemoveAt(file.lines, i)
      PROVE  lines \in Seq(Lines)
  <2>1. PICK i \in 1 .. n : lines = RemoveAt(file.lines, i)
    BY <1>5
  <2>2. SubSeq(file.lines, 1, i - 1) \in Seq(Lines)
    BY <1>4
  <2>3. SubSeq(file.lines, i + 1, n) \in Seq(Lines)
    BY <1>4
  <2>4. QED
    BY <1>3, <2>1, <2>2, <2>3 DEF RemoveAt
<1>6. ASSUME \E i \in 1 .. n + 1, l \in FixedLines :
               lines = InsertAt(file.lines, i, l)
      PROVE  lines \in Seq(Lines)
  <2>1. PICK i \in 1 .. n + 1, l \in FixedLines : lines = InsertAt(file.lines, i, l)
    BY <1>6
  <2>2. SubSeq(file.lines, 1, i - 1) \in Seq(Lines)
    BY <1>4
  <2>3. SubSeq(file.lines, i, n) \in Seq(Lines)
    BY <1>4
  <2>4. <<l>> \in Seq(Lines)
    BY InputAssumption
  <2>5. QED
    BY <1>3, <2>1, <2>2, <2>3, <2>4 DEF InsertAt
<1>7. lines \in Seq(Lines)
  BY <1>3, <1>5, <1>6 DEF Edits
<1>8. QED
  BY <1>1, <1>7 DEF Files

-----------------------------------------------------------------------------
(***************************************************************************)
(* Type correctness.                                                       *)
(***************************************************************************)

\* Once the file is diagnosed there is a report to propose from.
Diagnosed == stage # "diagnose" => report \in SourceFiles

\* Well-typed states with a report where it is needed lead to such states.
LEMMA TypeStep ==
  ASSUME RowsAssumed, TypeOK, Diagnosed, [Next]_vars
  PROVE  TypeOK' /\ Diagnosed'
<1>0. ASSUME NEW file \in Files
      PROVE  Report(file) \in SourceFiles
  BY ReportTyped
<1> USE DEF TypeOK, Diagnosed, sourceVars, outputVars, Stages
<1>1. CASE Diagnose
  <2>1. report' \in SourceFiles
    BY <1>0, <1>1 DEF Diagnose
  <2>2. QED
    BY <1>1, <2>1 DEF Diagnose
<1>2. CASE Propose
  <2>1. report \in SourceFiles /\ source \in Files
    BY <1>2 DEF Propose
  <2>2. report' = [Report(source) EXCEPT !.primary = report.primary,
                                         !.classes = report.classes]
    BY <1>2 DEF Propose
  <2>3. report' \in SourceFiles
    <3>1. Report(source) \in SourceFiles
      BY <1>0, <2>1
    <3>2. QED
      BY <2>1, <2>2, <3>1 DEF SourceFiles
  <2>4. PICK guess \in Prescriptions :
          params' = ForceEvidence(guess, report.classes, report')
    BY <1>2, InputAssumption DEF Propose
  <2>5. params' \in Prescriptions
    BY <2>3, <2>4, ForcedTyped
  <2>6. QED
    BY <1>2, <2>3, <2>5 DEF Propose
<1>3. CASE Answer
  BY <1>3 DEF Answer
<1>4. CASE ExecuteWrites
  <2>1. params \in Prescriptions /\ source.lines \in Seq(Lines)
    BY <1>4 DEF ExecuteWrites, Files
  <2>2. PICK lines \in ReadingsOfSource(params.encoding) \ {None} :
          Fits(lines, params) /\ output' \in Repaired(lines, params)
    BY <1>4 DEF ExecuteWrites
  <2>3. lines \in Seq(Lines)
    BY <2>1, <2>2, ReadingsTyped DEF ReadingsOfSource
  <2>4. output' \in Seq(Lines)
    BY <2>1, <2>2, <2>3, RepairedTyped
  <2>5. QED
    BY <1>4, <2>4 DEF ExecuteWrites
<1>5. CASE ExecuteFails
  BY <1>5 DEF ExecuteFails
<1>6. CASE Verify
  <2>1. verdict' \in {"passed", "failed"}
    BY <1>6 DEF Verify
  <2>2. QED
    BY <1>6, <2>1 DEF Verify
<1>7. CASE EditSource
  <2>1. PICK lines \in Edits(source.lines) :
          \E d \in Sniffs(lines) :
            source' = [source EXCEPT !.lines = lines, !.delimiter = d]
    BY <1>7, Zenon DEF EditSource
  <2>2. source' \in Files
    BY <2>1, EditTyped
  <2>3. QED
    BY <1>7, <2>2 DEF EditSource
<1>8. CASE OverwriteOutput
  <2>1. output' \in Seq(Lines)
    BY <1>8, InputAssumption DEF OverwriteOutput
  <2>2. QED
    BY <1>8, <2>1 DEF OverwriteOutput
<1>9. CASE UNCHANGED vars
  BY <1>9 DEF vars
<1>10. QED
  BY <1>1, <1>2, <1>3, <1>4, <1>5, <1>6, <1>7, <1>8, <1>9 DEF Next

\* Every reachable state is well typed.
THEOREM TypeCorrect ==
  ASSUME RowsAssumed
  PROVE  Spec => []TypeOK
<1>1. Init => TypeOK /\ Diagnosed
  BY InputAssumption DEF Init, TypeOK, Diagnosed, Stages
<1>2. TypeOK /\ Diagnosed /\ [Next]_vars => (TypeOK /\ Diagnosed)'
  BY TypeStep
<1>3. QED
  BY <1>1, <1>2, PTL DEF Spec

-----------------------------------------------------------------------------
(***************************************************************************)
(* Verified files.                                                         *)
(***************************************************************************)

\* What the detector is asked about the output.
OutputFile(lines, d) ==
  [lines |-> lines, encoding |-> "utf-8", guess |-> None, doubtful |-> FALSE,
   delimiter |-> d]

\* A comma-separated table of two columns or more is what the detector calls
\* healthy.
LEMMA TablesAreHealthy ==
  ASSUME NEW lines \in Seq(Lines), TableVerifies(lines), NEW d \in Sniffs(lines)
  PROVE  DetectAll(OutputFile(lines, d)) \subseteq {"no_header"}
<1> DEFINE file == OutputFile(lines, d)
           counts == Counts(file)
           w == FieldCount(lines[1], Comma)
<1>1. PICK n \in Nat : n = Len(lines) /\ DOMAIN lines = 1 .. n
  BY LinesShape
<1>2. 1 <= n /\ \A i \in 1 .. n : FieldCount(lines[i], Comma) = w
  BY <1>1, OneCount DEF TableVerifies
<1>3. w \in Nat /\ w >= 2 /\ ~ContainsInvisible(lines[1])
  BY <1>1, <1>2, LinesShape DEF TableVerifies
<1>4. d = Comma
  <2>1. Cardinality(FieldCountsIn(lines, Comma)) = 1
    BY DEF TableVerifies
  <2>2. w \in FieldCountsIn(lines, Comma)
    BY <1>1, <1>2 DEF FieldCountsIn
  <2>3. FieldCountsIn(lines, Comma) # {1}
    BY <1>3, <2>2
  <2>4. Sniffs(lines) = {Comma}
    BY <2>1, <2>3 DEF Sniffs, FieldCountsIn
  <2>5. QED
    BY <2>4
<1>5. /\ file.lines = lines /\ file.encoding = "utf-8" /\ file.delimiter = Comma
  BY <1>4 DEF OutputFile
<1>6. counts = [i \in 1 .. n |-> w] /\ Len(counts) = n
  <2>1. counts = [i \in DOMAIN lines |-> FieldCount(lines[i], Comma)]
    BY <1>5 DEF Counts
  <2>2. QED
    BY <1>1, <1>2, <2>1
<1> HIDE DEF file, w, counts
<1>7. CASE n = 1
  BY <1>1, <1>5, <1>7 DEF DetectAll, HasStructure, file
<1>8. CASE n >= 2
  <2>1. ~SingleColumn(file)
    BY <1>1, <1>2, <1>3, <1>5, <1>6 DEF SingleColumn, counts
  <2>2. 0 \in OffsetsSearched(counts)
    <3>1. PICK m \in Nat : m = Len(counts) - 2
      BY <1>6, <1>8
    <3>2. Min({MaxPreamble, m}) \in Nat
      BY PreambleAssumption, MinIsLeast
    <3>3. QED
      BY <3>1, <3>2 DEF OffsetsSearched
  <2>3. StartsTable(counts, 0)
    <3>1. \A i \in 0 + 1 .. n : counts[i] = counts[0 + 1]
      BY <1>2, <1>6
    <3>2. QED
      BY <1>6, <3>1 DEF StartsTable
  <2>4. FindHeaderOffset(counts) = 0
    <3> DEFINE offsets == {k \in OffsetsSearched(counts) : StartsTable(counts, k)}
    <3>1. 0 \in offsets /\ offsets \in SUBSET Nat
      BY <2>2, <2>3 DEF OffsetsSearched
    <3>2. FindHeaderOffset(counts) = Min(offsets)
      BY <3>1 DEF FindHeaderOffset
    <3> HIDE DEF offsets
    <3>3. Min(offsets) \in Nat /\ Min(offsets) <= 0
      BY <3>1, MinIsLeast
    <3>4. QED
      BY <3>2, <3>3
  <2>5. StructuralClasses(file) \subseteq {"no_header"}
    <3>1. 0 # None
      BY NoneAssumption
    <3>2. FindHeaderOffset(Counts(file)) = 0 /\ ~ContainsInvisible(file.lines[1])
      BY <1>3, <1>5, <2>4 DEF counts
    <3>3. QED
      BY <2>1, <3>1, <3>2 DEF StructuralClasses
  <2>6. DetectAll(file) \subseteq StructuralClasses(file)
    BY <1>5 DEF DetectAll
  <2>7. QED
    BY <2>5, <2>6 DEF file
<1>9. QED
  BY <1>2, <1>7, <1>8

\* What passed the verification of the whole-file executor is the output as it
\* is now.
VerdictIsCurrent ==
  verdict = "passed" =>
    /\ stage = "done"
    /\ ~ByRows(params) => output \in Seq(Lines) /\ TableVerifies(output)

\* A verified repair of a whole file is a file the detector finds healthy.
THEOREM VerifiedFilesAreHealthy ==
  ASSUME RowsAssumed
  PROVE  Spec => []VerifiedIsHealthy
<1>1. Init => VerdictIsCurrent
  BY DEF Init, VerdictIsCurrent
<1>2. TypeOK /\ VerdictIsCurrent /\ [Next]_vars => VerdictIsCurrent'
  <2> SUFFICES ASSUME TypeOK, VerdictIsCurrent, [Next]_vars
               PROVE  VerdictIsCurrent'
    OBVIOUS
  <2> USE DEF VerdictIsCurrent, sourceVars, outputVars
  \* There is no verdict before verify, and none is given elsewhere.
  <2>1. CASE \/ Diagnose \/ Propose \/ Answer \/ ExecuteWrites \/ ExecuteFails
             \/ OverwriteOutput
    <3>1. stage # "done" /\ verdict' = verdict
      BY <2>1 DEF Diagnose, Propose, Answer, ExecuteWrites, ExecuteFails,
         OverwriteOutput
    <3>2. QED
      BY <3>1
  \* The file the verdict is about is not the one that is edited.
  <2>2. CASE EditSource \/ UNCHANGED vars
    BY <2>2 DEF EditSource, vars
  \* The whole-file executor reads the output as it wrote it, in UTF-8.
  <2>3. CASE Verify
    <3>1. stage' = "done" /\ output' = output /\ output \in Seq(Lines)
      BY <2>3 DEF Verify, TypeOK
    <3> SUFFICES ASSUME verdict' = "passed", ~ByRows(params)
                 PROVE  output \in Seq(Lines) /\ TableVerifies(output)
      BY <2>3, <3>1 DEF Verify, ByRows
    <3>2. Readings(output, "utf-8", "utf-8") = {output}
      BY DEF Readings
    <3>3. TableVerifies(output)
      BY <2>3, <3>2 DEF Verify
    <3>4. QED
      BY <3>1, <3>3
  <2>4. QED
    BY <2>1, <2>2, <2>3 DEF Next
<1>3. VerdictIsCurrent => VerifiedIsHealthy
  <2> SUFFICES ASSUME VerdictIsCurrent, verdict = "passed", ~ByRows(params),
                      NEW d \in Sniffs(output)
               PROVE  DetectAll(OutputFile(output, d)) \subseteq {"no_header"}
    BY Zenon DEF VerifiedIsHealthy, OutputFile
  <2>1. output \in Seq(Lines) /\ TableVerifies(output)
    BY DEF VerdictIsCurrent
  <2>2. QED
    BY <2>1, TablesAreHealthy
<1>4. QED
  BY <1>1, <1>2, <1>3, TypeCorrect, PTL DEF Spec

-----------------------------------------------------------------------------
(***************************************************************************)
(* Repairs made from evidence.                                             *)
(***************************************************************************)

\* An informed prescription reads the file as it is, finds its table where the
\* detector does, and replaces the rows it names.
LEMMA WhenInformed ==
  ASSUME source \in Files, Informed
  PROVE  /\ ReadingsOfSource(params.encoding) = {source.lines}
         /\ source.lines \in Seq(Lines) /\ source.lines # None
         /\ params.delimiter = source.delimiter
         /\ "mixed_delimiter" \in DetectAll(source) =>
              /\ params.header_row = 0
              /\ params.mixed_delimiter_rows = MixedEvidence(source)
         /\ "mixed_delimiter" \notin DetectAll(source) =>
              params.mixed_delimiter_rows = GarbledEvidence(source)
         /\ HeaderOffsetEvidence(source) # None =>
              /\ "mixed_delimiter" \notin DetectAll(source)
              /\ params.header_row = HeaderOffsetEvidence(source)
         /\ HeaderOffsetEvidence(source) = None =>
              params.header_row \in {0, None}
<1>1. source.lines \in Seq(Lines) /\ source.lines # None
  BY NoneAssumption DEF Files
<1>2. /\ params.encoding = DecodedAs(source)
      /\ params.delimiter = source.delimiter
      /\ report = Report(source)
      /\ params.header_row = CASE report.header_offset # None -> report.header_offset
                               [] "no_header" \in report.classes -> None
                               [] OTHER -> 0
      /\ params.mixed_delimiter_rows =
           IF "mixed_delimiter" \in report.classes THEN report.mixed_rows
           ELSE report.garbled_row
  BY Zenon DEF Informed
<1>3. ReadingsOfSource(params.encoding) = {source.lines}
  BY <1>2 DEF ReadingsOfSource, Readings
<1>4. /\ report.classes = DetectAll(source)
      /\ report.mixed_rows = MixedEvidence(source)
      /\ report.garbled_row = GarbledEvidence(source)
      /\ report.header_offset = HeaderOffsetEvidence(source)
  BY <1>2 DEF Report
<1>5. DetectorConsistent(report)
  BY <1>2, ReportIsConsistent, Zenon
<1>6. /\ "mixed_delimiter" \in report.classes => "no_header" \notin report.classes
      /\ "header_detection" \in report.classes =>
           /\ "mixed_delimiter" \notin report.classes
           /\ "no_header" \notin report.classes
      /\ "header_detection" \in report.classes <=> report.header_offset # None
  BY <1>5 DEF DetectorConsistent
<1>7. report.header_offset # None => params.header_row = report.header_offset
  BY <1>2, <1>6
<1>8. report.header_offset = None =>
        /\ params.header_row \in {0, None}
        /\ "no_header" \notin report.classes => params.header_row = 0
  BY <1>2
<1>9. QED
  BY <1>1, <1>2, <1>3, <1>4, <1>6, <1>7, <1>8

\* What a repair of rows makes of the lines: from the header on they are w
\* fields wide, and no line before it is; each has its words.
RowsRepaired(w) ==
  /\ Preamble(params) < Len(source.lines)
  /\ \A i \in 1 .. Len(source.lines) :
       LET new == WithRepairs(source.lines, params)[i]
           old == source.lines[i]
       IN  /\ new.key = old.key /\ new.words = old.words
           /\ Len(new.seps) = Len(old.seps)
           /\ i > Preamble(params) => FieldCount(new, params.delimiter) = w
           /\ i <= Preamble(params) => FieldCount(old, params.delimiter) # w

\* Rows in another delimiter become as wide as the header.
LEMMA MixedRepaired ==
  ASSUME RowsAssumed, source \in Files, params \in Prescriptions, Informed,
         ByRows(params), "mixed_delimiter" \in DetectAll(source)
  PROVE  RowsRepaired(Counts(source)[1])
<1> DEFINE lines == source.lines
           d == source.delimiter
           w == Counts(source)[1]
           new == WithRepairs(lines, params)
<1>1. /\ lines \in Seq(Lines) /\ params.delimiter = d /\ d \in Delimiters
      /\ params.header_row = 0
      /\ params.mixed_delimiter_rows = MixedEvidence(source)
  BY WhenInformed, FileShape
<1>2. FindMixedRows(source) # {} /\ MixedEvidence(source) = FindMixedRows(source)
      /\ HasStructure(source)
  BY <1>1 DEF ByRows, MixedEvidence
<1>3. Flagged(params) = Disagreeing(source)
  BY <1>1, <1>2, MixedRowsShown DEF Flagged
<1>4. PICK n \in Nat : /\ n = Len(lines) /\ n >= 2
                       /\ \A i \in 1 .. n :
                            /\ lines[i] \in Lines
                            /\ Counts(source)[i] = FieldCount(lines[i], d)
                            /\ Counts(source)[i] \in Nat
  BY <1>2, FileShape DEF HasStructure
<1>5. Preamble(params) = 0
  BY <1>1, NoneAssumption DEF Preamble
<1>6. ASSUME NEW i \in 1 .. n
      PROVE  /\ new[i].key = lines[i].key /\ new[i].words = lines[i].words
             /\ Len(new[i].seps) = Len(lines[i].seps)
             /\ FieldCount(new[i], d) = w
  <2>1. CASE i \in Disagreeing(source)
    <3>1. PICK r \in params.mixed_delimiter_rows :
            r.row_number = i /\ new[i] = r.repaired_text
      BY <1>1, <1>3, <1>4, <2>1, WithRepairsShape
    <3>2. new[i] \in Resolutions(lines[i], d, w)
      BY <1>1, <1>2, <3>1, MixedRowsShown DEF ResolutionsOf
    <3>3. w \in Int /\ lines[i] \in Lines
      BY <1>4
    <3> HIDE DEF new, w, lines, d
    <3>4. QED
      BY <1>1, <3>2, <3>3, ResolutionKeeps
  <2>2. CASE i \notin Disagreeing(source)
    <3>1. new[i] = lines[i]
      BY <1>1, <1>3, <1>4, <2>2, WithRepairsShape
    <3>2. Counts(source)[i] = w
      BY <1>4, <2>2 DEF Disagreeing
    <3>3. QED
      BY <1>4, <3>1, <3>2
  <2>3. QED
    BY <2>1, <2>2
<1> HIDE DEF new, w, d
<1>7. QED
  BY <1>1, <1>4, <1>5, <1>6 DEF RowsRepaired, new, w

\* A garbled header becomes as wide as its table.
LEMMA GarbledRepaired ==
  ASSUME RowsAssumed, source \in Files, params \in Prescriptions, Informed,
         ByRows(params), "mixed_delimiter" \notin DetectAll(source)
  PROVE  RowsRepaired(Counts(source)[FindHeaderOffset(Counts(source)) + 1])
<1> DEFINE lines == source.lines
           d == source.delimiter
           h == FindHeaderOffset(Counts(source))
           w == Counts(source)[h + 1]
           new == WithRepairs(lines, params)
           header == Normalized(lines[h], d)
<1>1. /\ lines \in Seq(Lines) /\ params.delimiter = d /\ d \in Delimiters
      /\ params.mixed_delimiter_rows = GarbledEvidence(source)
  BY WhenInformed, FileShape
<1>2. GarbledEvidence(source) # {}
  BY <1>1 DEF ByRows
<1>3. /\ h \in 1 .. Len(lines) - 2
      /\ StartsTable(Counts(source), h)
      /\ GarbledEvidence(source) = {RowRepair(h, lines[h], header)}
      /\ FieldCount(header, d) = w
      /\ HeaderOffsetEvidence(source) = h - 1
  BY <1>2, GarbledRowShown
<1>4. PICK n \in Nat : /\ n = Len(lines) /\ n = Len(Counts(source))
                       /\ \A i \in 1 .. n :
                            /\ lines[i] \in Lines
                            /\ Counts(source)[i] = FieldCount(lines[i], d)
                            /\ Counts(source)[i] \in Nat
  BY FileShape
<1>5. /\ \A i \in 1 .. Len(lines) : i \notin Flagged(params) => new[i] = lines[i]
      /\ \A i \in 1 .. Len(lines) : i \in Flagged(params) =>
            \E r \in params.mixed_delimiter_rows :
              r.row_number = i /\ new[i] = r.repaired_text
  BY <1>1, WithRepairsShape
<1> HIDE DEF h, w, new, header, lines, d
<1>6. h \in Nat /\ h \in 1 .. n /\ h < n /\ h - 1 \in Nat
  BY <1>3, <1>4
<1>7. params.header_row = h - 1
  BY <1>3, <1>6, WhenInformed, NoneAssumption
<1>8. Preamble(params) = h - 1
  BY <1>6, <1>7, NoneAssumption DEF Preamble
<1>9. \A r \in params.mixed_delimiter_rows :
        r.row_number = h /\ r.repaired_text = header
  BY <1>1, <1>3 DEF RowRepair
<1>10. Flagged(params) = {h}
  BY <1>1, <1>3, <1>9 DEF Flagged
<1>11. /\ \A i \in h + 1 .. n : Counts(source)[i] = w
       /\ \A i \in 1 .. h : Counts(source)[i] # w
  BY <1>3, <1>4 DEF StartsTable, w
<1>12. ASSUME NEW i \in 1 .. n
       PROVE  /\ new[i].key = lines[i].key /\ new[i].words = lines[i].words
              /\ Len(new[i].seps) = Len(lines[i].seps)
              /\ i > h - 1 => FieldCount(new[i], d) = w
              /\ i <= h - 1 => FieldCount(lines[i], d) # w
  <2>1. CASE i = h
    <3>1. PICK r \in params.mixed_delimiter_rows :
            r.row_number = i /\ new[i] = r.repaired_text
      <4>1. i \in 1 .. Len(lines) /\ i \in Flagged(params)
        BY <1>4, <1>10, <2>1
      <4>2. QED
        BY <1>5, <4>1, Zenon
    <3>2. new[i] = header
      BY <1>9, <3>1
    <3>3. lines[h] \in Lines
      BY <1>4, <1>6
    <3>4. /\ header.key = lines[h].key /\ header.words = lines[h].words
          /\ Len(header.seps) = Len(lines[h].seps)
      BY <3>3, NormalizedKeeps DEF header
    <3>5. QED
      BY <1>3, <1>6, <2>1, <3>2, <3>4
  <2>2. CASE i # h
    <3>1. new[i] = lines[i]
      BY <1>4, <1>5, <1>10, <2>2
    <3>2. i > h - 1 => i \in h + 1 .. n
      BY <1>6, <2>2
    <3>3. i <= h - 1 => i \in 1 .. h
      BY <1>6
    <3>4. QED
      BY <1>4, <1>11, <3>1, <3>2, <3>3
  <2>3. QED
    BY <2>1, <2>2
<1>13. h - 1 < n
  BY <1>6
<1>14. QED
  BY <1>1, <1>4, <1>8, <1>12, <1>13 DEF RowsRepaired, new, w, lines, h

\* Evidence about rows always repairs every row.
LEMMA RowsAreRepaired ==
  ASSUME RowsAssumed, source \in Files, params \in Prescriptions, Informed,
         ByRows(params)
  PROVE  \E w \in Nat : RowsRepaired(w)
<1>1. PICK w : RowsRepaired(w)
  BY MixedRepaired, GarbledRepaired
<1> DEFINE last == WithRepairs(source.lines, params)[Len(source.lines)]
<1>2. source.lines \in Seq(Lines)
  BY DEF Files
<1>3. /\ Len(source.lines) \in Nat /\ Preamble(params) \in Nat
      /\ Preamble(params) < Len(source.lines)
  BY <1>1, <1>2, LinesShape, PreambleTyped DEF RowsRepaired
<1>4. Len(source.lines) \in 1 .. Len(source.lines)
  BY <1>3
<1>5. FieldCount(last, params.delimiter) = w
  BY <1>1, <1>3, <1>4 DEF RowsRepaired
<1>6. /\ WithRepairs(source.lines, params) \in Seq(Lines)
      /\ Len(WithRepairs(source.lines, params)) = Len(source.lines)
  BY <1>2, WithRepairsShape
<1>7. FieldCount(last, params.delimiter) \in Nat
  BY <1>4, <1>6, LinesShape
<1>8. QED
  BY <1>1, <1>5, <1>7

\* Where a prescription for the whole file says the table starts, it does.
LEMMA TableStarts ==
  ASSUME source \in Files, params \in Prescriptions, Informed, ~ByRows(params),
         Preamble(params) > 0 \/ Fixable
  PROVE  /\ Preamble(params) \in 0 .. Len(source.lines) - 2
         /\ StartsTable(Counts(source), Preamble(params))
<1> DEFINE h == FindHeaderOffset(Counts(source))
           m == Preamble(params)
<1>1. PICK n \in Nat : n = Len(source.lines) /\ n = Len(Counts(source))
  BY FileShape
<1>2. params.mixed_delimiter_rows = {}
  BY DEF ByRows
<1>3. CASE HeaderOffsetEvidence(source) # None
  <2>1. GarbledEvidence(source) = {}
    BY <1>2, <1>3, WhenInformed
  <2>2. /\ HeaderOffsetEvidence(source) \in 1 .. Len(source.lines) - 2
        /\ StartsTable(Counts(source), HeaderOffsetEvidence(source))
    BY <1>3, <2>1, OffsetShown
  <2>3. m = HeaderOffsetEvidence(source)
    BY <1>3, WhenInformed DEF Preamble
  <2> HIDE DEF m
  <2>4. m \in 0 .. Len(source.lines) - 2
    BY <1>1, <2>2, <2>3
  <2>5. QED
    BY <2>2, <2>3, <2>4 DEF m
<1>4. CASE HeaderOffsetEvidence(source) = None
  <2>1. m = 0 /\ Fixable
    BY <1>4, WhenInformed DEF Preamble
  <2>2. /\ HasStructure(source)
        /\ "engine_selection" \notin DetectAll(source)
        /\ "single_column_malformation" \notin DetectAll(source)
        /\ "mixed_delimiter" \in DetectAll(source) => MixedEvidence(source) # {}
    BY <2>1 DEF Fixable, Informed, Report
  <2>3. "mixed_delimiter" \notin DetectAll(source)
    BY <1>2, <2>2, WhenInformed
  <2>4. StructuralClasses(source) \subseteq DetectAll(source)
    BY <2>2 DEF DetectAll
  <2>5. ~SingleColumn(source) /\ h # None
    <3>1. ~SingleColumn(source)
      BY <2>2, <2>4 DEF StructuralClasses
    <3>2. h = None /\ FindMixedRows(source) # {} =>
            "mixed_delimiter" \in StructuralClasses(source)
      BY <3>1 DEF StructuralClasses
    <3>3. h = None /\ FindMixedRows(source) = {} =>
            "engine_selection" \in StructuralClasses(source)
      BY <3>1, NoneAssumption DEF StructuralClasses
    <3>4. QED
      BY <2>2, <2>3, <2>4, <3>1, <3>2, <3>3
  <2>6. h = 0
    BY <1>4, <2>2, <2>5, OffsetEvidenceCases
  <2>7. n >= 2
    BY <1>1, <2>2 DEF HasStructure
  <2>8. StartsTable(Counts(source), 0)
    BY <1>1, <2>5, <2>6, <2>7, OffsetFound
  <2>9. QED
    BY <1>1, <2>1, <2>7, <2>8
<1>5. QED
  BY <1>3, <1>4

\* A prescription made from evidence fits the file.
LEMMA InformedFits ==
  ASSUME RowsAssumed, source \in Files, params \in Prescriptions, Informed, Fixable
  PROVE  Fits(source.lines, params)
<1> DEFINE lines == source.lines
           m == Preamble(params)
           d == params.delimiter
<1>1. PICK n \in Nat : /\ n = Len(lines) /\ n = Len(Counts(source))
                       /\ lines \in Seq(Lines)
                       /\ \A i \in 1 .. n :
                            Counts(source)[i] = FieldCount(lines[i], source.delimiter)
  BY FileShape DEF Files
<1>2. m \in Nat /\ d = source.delimiter
  BY PreambleTyped, WhenInformed
<1>3. CASE ByRows(params)
  <2> DEFINE new == WithRepairs(lines, params)
  <2>1. PICK w \in Nat : RowsRepaired(w)
    BY <1>3, RowsAreRepaired
  <2>2. m < n /\ \A i \in 1 .. n : i > m => FieldCount(new[i], d) = w
    BY <1>1, <2>1 DEF RowsRepaired
  <2>3. \A i \in 1 .. n \ Flagged(params) : new[i] = lines[i]
    <3>1. \A i \in 1 .. Len(lines) \ Flagged(params) : new[i] = lines[i]
      BY <1>1, WithRepairsShape
    <3>2. QED
      BY <1>1, <3>1
  <2>4. m + 1 \in 1 .. n /\ m + 1 > m
    BY <1>2, <2>2
  <2>5. \A i \in m + 1 .. n : i \in 1 .. n /\ i > m
    BY <1>2
  <2> HIDE DEF new, m, d, lines
  <2>6. \A i \in (m + 1 .. n) \ Flagged(params) :
          FieldCount(lines[i], d) = FieldCount(new[m + 1], d)
    BY <2>2, <2>3, <2>4, <2>5
  <2>7. RowsFit(lines, params)
    BY <1>1, <2>2, <2>6 DEF RowsFit, new, m, d
  <2>8. QED
    BY <1>3, <2>7 DEF Fits, lines
<1>4. CASE ~ByRows(params)
  <2> DEFINE kept == Table(lines, params)
  <2>1. m \in 0 .. n - 2 /\ StartsTable(Counts(source), m)
    BY <1>1, <1>4, TableStarts
  <2>2. m < n /\ n - m >= 1
    BY <1>1, <1>2, <2>1
  <2>3. /\ kept \in Seq(Lines) /\ Len(kept) = n - m
        /\ \A i \in 1 .. n - m : m + i \in 1 .. n /\ kept[i] = lines[m + i]
    <3>1. m < Len(lines)
      BY <1>1, <2>2
    <3> HIDE DEF m
    <3>2. /\ SubSeq(lines, m + 1, Len(lines)) \in Seq(Lines)
          /\ Len(SubSeq(lines, m + 1, Len(lines))) = Len(lines) - m
          /\ \A i \in 1 .. Len(lines) - m :
               /\ m + i \in 1 .. Len(lines)
               /\ SubSeq(lines, m + 1, Len(lines))[i] = lines[m + i]
      BY <1>1, <1>2, <3>1, RestShape
    <3>3. kept = SubSeq(lines, m + 1, Len(lines))
      BY DEF Table, m
    <3>4. QED
      BY <1>1, <3>2, <3>3
  <2>4. \A i \in m + 1 .. n : Counts(source)[i] = Counts(source)[m + 1]
    BY <1>1, <2>1 DEF StartsTable
  <2> HIDE DEF kept, m, d
  <2>5. \A i \in 1 .. n - m : m + i \in m + 1 .. n
    BY <1>2
  <2>6. \A i \in 1 .. n - m : FieldCount(kept[i], d) = Counts(source)[m + 1]
    BY <1>1, <1>2, <2>3, <2>4, <2>5
  <2>7. 1 \in 1 .. n - m /\ n - m \in 1 .. n - m
    BY <1>2, <2>2
  <2>8. Cardinality(FieldCountsIn(kept, d)) = 1
    BY <2>2, <2>3, <2>6, <2>7, OneCount
  <2>9. kept[n - m] = Last(lines) /\ FieldCount(Last(lines), d) >= 2
    <3>1. m + (n - m) = n
      BY <1>2
    <3>2. Last(lines) = lines[n]
      BY <1>1 DEF Last
    <3>3. FieldCount(Last(lines), d) >= 2
      BY <1>2, <1>4 DEF Fixable
    <3>4. QED
      BY <2>3, <2>7, <3>1, <3>2, <3>3
  <2>10. FieldCount(kept[1], d) >= 2
    BY <2>6, <2>7, <2>9
  <2>11. TableFits(lines, params)
    BY <1>1, <2>2, <2>8, <2>10 DEF TableFits, kept, m, d
  <2>12. QED
    BY <1>4, <2>11 DEF Fits
<1>5. QED
  BY <1>3, <1>4

\* What execute left is about the source and the prescription as they are now.
ResultIsCurrent ==
  /\ result # "none" => stage \in {"verify", "done"}
  /\ result = "failed" =>
       \E lines \in Readings(source.lines, DecodedAs(source), params.encoding) :
         lines # None => ~Fits(lines, params)
  /\ result = "written" /\ ~foreign =>
       \E lines \in Readings(source.lines, DecodedAs(source), params.encoding) :
         /\ lines # None /\ Fits(lines, params)
         /\ output \in Repaired(lines, params)

\* Nothing changes the source or the prescription once execute has run.
LEMMA ResultStep ==
  ASSUME ResultIsCurrent, [Next]_vars
  PROVE  ResultIsCurrent'
<1> USE DEF ResultIsCurrent, sourceVars, outputVars
<1>1. CASE Diagnose \/ Propose \/ Answer
  <2>1. result = "none" /\ result' = "none"
    BY <1>1 DEF Diagnose, Propose, Answer
  <2>2. QED
    BY <2>1
<1>2. CASE ExecuteWrites
  <2>1. \E lines \in ReadingsOfSource(params.encoding) \ {None} :
          Fits(lines, params) /\ output' \in Repaired(lines, params)
    BY <1>2 DEF ExecuteWrites
  <2>2. /\ result' = "written" /\ stage' = "verify"
        /\ source' = source /\ params' = params
    BY <1>2 DEF ExecuteWrites
  <2>3. QED
    BY <2>1, <2>2 DEF ReadingsOfSource
<1>3. CASE ExecuteFails
  <2>1. \E lines \in ReadingsOfSource(params.encoding) :
          lines # None => ~Fits(lines, params)
    BY <1>3 DEF ExecuteFails
  <2>2. /\ result' = "failed" /\ stage' = "done"
        /\ source' = source /\ params' = params
    BY <1>3 DEF ExecuteFails
  <2>3. QED
    BY <2>1, <2>2 DEF ReadingsOfSource
<1>4. CASE Verify
  <2>1. /\ stage' = "done" /\ source' = source /\ params' = params
        /\ result' = result /\ output' = output /\ foreign' = foreign
    BY <1>4 DEF Verify
  <2>2. QED
    BY <2>1
<1>5. CASE EditSource
  <2>1. result = "none" /\ result' = result
    BY <1>5 DEF EditSource
  <2>2. QED
    BY <2>1
<1>6. CASE OverwriteOutput
  <2>1. /\ stage' = stage /\ source' = source /\ params' = params
        /\ result' = result /\ foreign'
    BY <1>6 DEF OverwriteOutput
  <2>2. QED
    BY <2>1
<1>7. CASE UNCHANGED vars
  <2>1. /\ stage' = stage /\ source' = source /\ params' = params
        /\ result' = result /\ output' = output /\ foreign' = foreign
    BY <1>7 DEF vars
  <2>2. QED
    BY <2>1
<1>8. QED
  BY <1>1, <1>2, <1>3, <1>4, <1>5, <1>6, <1>7 DEF Next

\* Whatever is edited or overwritten and when, what execute reported is true of
\* the source and the prescription it is put next to.
THEOREM ResultInvariant == Spec => []ResultIsCurrent
<1>1. Init => ResultIsCurrent
  BY DEF Init, ResultIsCurrent
<1>2. QED
  BY <1>1, ResultStep, PTL DEF Spec

\* Carried out as diagnosed, a prescription is never refused.
THEOREM EvidenceAlwaysRepairs ==
  ASSUME RowsAssumed
  PROVE  Spec => []EvidenceRepairs
<1>1. TypeOK /\ ResultIsCurrent => EvidenceRepairs
  <2> SUFFICES ASSUME TypeOK, ResultIsCurrent, Informed, Fixable, result = "failed"
               PROVE  FALSE
    BY DEF EvidenceRepairs
  <2>1. source \in Files /\ params \in Prescriptions
    BY DEF TypeOK, Informed
  <2>2. /\ ReadingsOfSource(params.encoding) = {source.lines}
        /\ source.lines # None
    BY <2>1, WhenInformed
  <2>3. ~Fits(source.lines, params)
    BY <2>2 DEF ResultIsCurrent, ReadingsOfSource
  <2>4. QED
    BY <2>1, <2>3, InformedFits
<1>2. QED
  BY <1>1, TypeCorrect, ResultInvariant, PTL

\* What a repair of rows writes, if it was made from evidence.
LEMMA RowsOutputSurvives ==
  ASSUME RowsAssumed, source \in Files, params \in Prescriptions, Informed,
         ByRows(params), output = RowOutput(source.lines, params)
  PROVE  LET kept == Table(source.lines, params)
             counts == FieldCountsIn(output, params.delimiter)
         IN  /\ params.header_row # None
             /\ [i \in DOMAIN output |-> output[i].key]
                  = [i \in DOMAIN kept |-> kept[i].key]
             /\ \A i \in DOMAIN output : /\ output[i].words = kept[i].words
                                        /\ Len(output[i].seps) = Len(kept[i].seps)
             /\ Cardinality(counts) = 1
             /\ \A i \in 1 .. Preamble(params), w \in counts :
                  FieldCount(source.lines[i], params.delimiter) # w
<1> DEFINE lines == source.lines
           m == Preamble(params)
           d == params.delimiter
           new == WithRepairs(lines, params)
           kept == Table(lines, params)
<1>1. PICK n \in Nat : n = Len(lines) /\ lines \in Seq(Lines)
  BY LinesShape DEF Files
<1>2. PICK w \in Nat : RowsRepaired(w)
  BY RowsAreRepaired
<1>3. /\ m \in Nat /\ m < n
      /\ \A i \in 1 .. n :
           /\ new[i].key = lines[i].key /\ new[i].words = lines[i].words
           /\ Len(new[i].seps) = Len(lines[i].seps)
           /\ i > m => FieldCount(new[i], d) = w
           /\ i <= m => FieldCount(lines[i], d) # w
  BY <1>1, <1>2, PreambleTyped DEF RowsRepaired
<1>4. /\ output \in Seq(Lines) /\ Len(output) = n - m
      /\ \A i \in 1 .. n - m : m + i \in 1 .. n /\ output[i] = new[m + i]
  <2>1. m < Len(lines)
    BY <1>1, <1>3
  <2>2. LET out == RowOutput(lines, params)
            k == Len(lines) - m
        IN  /\ out \in Seq(Lines) /\ Len(out) = k
            /\ \A i \in 1 .. k : m + i \in 1 .. Len(lines) /\ out[i] = new[m + i]
    BY <1>1, <2>1, RowOutputShape
  <2> HIDE DEF m, new, lines
  <2>3. QED
    BY <1>1, <2>2 DEF lines
<1>5. /\ kept \in Seq(Lines) /\ Len(kept) = n - m
      /\ \A i \in 1 .. n - m : kept[i] = lines[m + i]
  <2>1. m < Len(lines) /\ kept = SubSeq(lines, m + 1, Len(lines))
    BY <1>1, <1>3 DEF Table
  <2> HIDE DEF m, kept, lines
  <2>2. QED
    BY <1>1, <1>3, <2>1, RestShape
<1>6. params.header_row # None
  <2>1. CASE "mixed_delimiter" \in DetectAll(source)
    BY <2>1, WhenInformed, NoneAssumption
  <2>2. CASE "mixed_delimiter" \notin DetectAll(source)
    <3>1. HeaderOffsetEvidence(source) # None
      BY <2>2, WhenInformed, OffsetEvidenceCases DEF ByRows
    <3>2. QED
      BY <3>1, WhenInformed
  <2>3. QED
    BY <2>1, <2>2
<1> HIDE DEF kept, m, d, new, lines
<1>7. DOMAIN output = 1 .. n - m /\ DOMAIN kept = 1 .. n - m
  BY <1>4, <1>5, LinesShape
<1>8. \A i \in 1 .. n - m : /\ output[i].key = kept[i].key
                            /\ output[i].words = kept[i].words
                            /\ Len(output[i].seps) = Len(kept[i].seps)
                            /\ FieldCount(output[i], d) = w
  <2>1. \A i \in 1 .. n - m : m + i > m
    BY <1>3
  <2>2. QED
    BY <1>3, <1>4, <1>5, <2>1
<1>9. 1 \in 1 .. n - m
  BY <1>3
<1>10. Cardinality(FieldCountsIn(output, d)) = 1
  BY <1>4, <1>8, <1>9, OneCount
<1>11. \A x \in FieldCountsIn(output, d) : x = w
  BY <1>7, <1>8 DEF FieldCountsIn
<1>12. \A i \in 1 .. m : FieldCount(lines[i], d) # w
  BY <1>3
<1>13. [i \in DOMAIN output |-> output[i].key] = [i \in DOMAIN kept |-> kept[i].key]
  BY <1>7, <1>8
<1>14. QED
  BY <1>6, <1>7, <1>8, <1>10, <1>11, <1>12, <1>13 DEF kept, m, d, lines

\* What a repair of the whole file writes, if it was made from evidence.
LEMMA TableOutputSurvives ==
  ASSUME source \in Files, params \in Prescriptions, Informed, ~ByRows(params),
         TableFits(source.lines, params),
         output \in TableOutputs(source.lines, params)
  PROVE  LET kept == Table(source.lines, params)
             rows == IF params.header_row = None THEN Tail(output) ELSE output
             counts == FieldCountsIn(output, Comma)
         IN  /\ [i \in DOMAIN rows |-> rows[i].key]
                  = [i \in DOMAIN kept |-> kept[i].key]
             /\ \A i \in DOMAIN rows :
                  FieldCount(rows[i], Comma) = FieldCount(kept[i], params.delimiter)
             /\ Cardinality(counts) = 1
             /\ \A i \in 1 .. Preamble(params), w \in counts :
                  FieldCount(source.lines[i], params.delimiter) # w
<1> DEFINE lines == source.lines
           m == Preamble(params)
           d == params.delimiter
           kept == Table(lines, params)
           rows == IF params.header_row = None THEN Tail(output) ELSE output
           w == FieldCount(kept[1], d)
<1>1. PICK n \in Nat : n = Len(lines) /\ n = Len(Counts(source)) /\ lines \in Seq(Lines)
  BY FileShape DEF Files
<1>2. /\ output \in Seq(Lines) /\ rows \in Seq(Lines)
      /\ 1 <= Len(output) /\ Len(rows) = Len(kept)
      /\ \A i \in 1 .. Len(kept) :
           /\ rows[i].key = kept[i].key
           /\ FieldCount(rows[i], Comma) = w /\ FieldCount(kept[i], d) = w
      /\ \A i \in 1 .. Len(output) : FieldCount(output[i], Comma) = w
  BY <1>1, TableOutputShape
<1>3. m \in Nat /\ m < n /\ d = source.delimiter
  BY <1>1, PreambleTyped, WhenInformed DEF TableFits
<1>4. /\ kept \in Seq(Lines) /\ Len(kept) = n - m
      /\ \A i \in 1 .. n - m : m + i \in 1 .. n /\ kept[i] = lines[m + i]
  <2>1. m < Len(lines) /\ kept = SubSeq(lines, m + 1, Len(lines))
    BY <1>1, <1>3 DEF Table
  <2> HIDE DEF m, kept, lines
  <2>2. QED
    BY <1>1, <1>3, <2>1, RestShape
<1> HIDE DEF rows, kept, m, d
<1>5. ASSUME NEW i \in 1 .. m
      PROVE  FieldCount(lines[i], d) # w
  <2>1. m > 0
    BY <1>3
  <2>2. StartsTable(Counts(source), m)
    BY <2>1, TableStarts DEF m
  <2>3. Counts(source)[i] # Counts(source)[m + 1]
    BY <2>2 DEF StartsTable
  <2>4. i \in 1 .. n /\ m + 1 \in 1 .. n /\ 1 \in 1 .. n - m
    BY <1>3
  <2>5. /\ Counts(source)[i] = FieldCount(lines[i], d)
        /\ Counts(source)[m + 1] = FieldCount(lines[m + 1], d)
    BY <1>1, <1>3, <2>4, FileShape
  <2>6. kept[1] = lines[m + 1]
    BY <1>4, <2>4
  <2>7. QED
    BY <2>3, <2>5, <2>6
<1> HIDE DEF w
<1>6. DOMAIN rows = 1 .. Len(kept) /\ DOMAIN kept = 1 .. Len(kept)
  BY <1>2, <1>4, LinesShape
<1>7. [i \in DOMAIN rows |-> rows[i].key] = [i \in DOMAIN kept |-> kept[i].key]
  BY <1>2, <1>6
<1>8. DOMAIN output = 1 .. Len(output) /\ 1 \in 1 .. Len(output)
  BY <1>2, LinesShape
<1>9. Cardinality(FieldCountsIn(output, Comma)) = 1
  BY <1>2, <1>8, OneCount
<1>10. \A x \in FieldCountsIn(output, Comma) : x = w
  BY <1>2, <1>8 DEF FieldCountsIn
<1>11. QED
  BY <1>2, <1>5, <1>6, <1>7, <1>9, <1>10 DEF rows, kept, m, d

\* A repair made from evidence loses no row: single rows keep their words and
\* places, a whole file its rows, in order, and their fields.
THEOREM RowsAlwaysSurvive ==
  ASSUME RowsAssumed
  PROVE  Spec => []RowsSurvive
<1>1. TypeOK /\ ResultIsCurrent => RowsSurvive
  <2> SUFFICES ASSUME TypeOK, ResultIsCurrent, Informed,
                      result = "written", ~foreign
               PROVE  RowsSurvive
    BY DEF RowsSurvive
  <2>1. source \in Files /\ params \in Prescriptions
    BY DEF TypeOK, Informed
  <2>2. ReadingsOfSource(params.encoding) = {source.lines}
    BY <2>1, WhenInformed
  <2>3. /\ Fits(source.lines, params)
        /\ output \in Repaired(source.lines, params)
    BY <2>2 DEF ResultIsCurrent, ReadingsOfSource
  <2>4. CASE ByRows(params)
    <3>1. output = RowOutput(source.lines, params)
      BY <2>3, <2>4 DEF Repaired
    <3>2. QED
      BY <2>1, <2>4, <3>1, RowsOutputSurvives DEF RowsSurvive
  <2>5. CASE ~ByRows(params)
    <3>1. /\ TableFits(source.lines, params)
          /\ output \in TableOutputs(source.lines, params)
      BY <2>3, <2>5 DEF Fits, Repaired
    <3>2. QED
      BY <2>1, <2>5, <3>1, TableOutputSurvives DEF RowsSurvive
  <2>6. QED
    BY <2>4, <2>5
<1>2. QED
  BY <1>1, TypeCorrect, ResultInvariant, PTL
=============================================================================
