--------------------------- MODULE CsvRowsProofs ---------------------------
(***************************************************************************)
(* Proofs about CsvRows, for files of any length and width, any limit on   *)
(* their rows, any number of examples, any columns asked for, and any trim *)
(* that leaves the empty string alone.  First the report: ReportInv counts *)
(* what has been read.  Then the transform: TransformInv relates what has  *)
(* been written to the rows read, numbered by Rank, and to the report.     *)
(***************************************************************************)
EXTENDS CsvRows, SequenceTheorems, FiniteSetTheorems, TLAPS

-----------------------------------------------------------------------------
(* Counting.                                                               *)

LEMMA MinIs ==
  ASSUME NEW a \in Nat, NEW b \in Nat
  PROVE  Min({a, b}) = IF a <= b THEN a ELSE b
BY DEF Min

\* A row more to count, or not.
LEMMA CountsOneMore ==
  ASSUME NEW S, IsFiniteSet(S), NEW x, x \notin S, NEW T, NEW more \in BOOLEAN,
         T = IF more THEN S \cup {x} ELSE S
  PROVE  IsFiniteSet(T) /\ Cardinality(T) = Cardinality(S) + OneIf(more)
<1>1. Cardinality(S) \in Nat
  BY FS_CardinalityType
<1>2. CASE more
  BY <1>2, FS_AddElement DEF OneIf
<1>3. CASE ~more
  BY <1>1, <1>3 DEF OneIf
<1> QED BY <1>2, <1>3

\* The cells of one row are as many as their columns.
LEMMA CellsOfRow ==
  ASSUME NEW r, NEW C, IsFiniteSet(C), NEW T, T = {r} \X C
  PROVE  IsFiniteSet(T) /\ Cardinality(T) = Cardinality(C)
<1> DEFINE f == [c \in C |-> <<r, c>>]
<1>1. f \in [C -> T]
  BY DEF f
<1>2. \A c, d \in C : f[c] = f[d] => c = d
  OBVIOUS
<1>3. \A t \in T : \E c \in C : f[c] = t
  OBVIOUS
<1> HIDE DEF f
<1>4. f \in Bijection(C, T)
  BY <1>1, <1>2, <1>3 DEF Bijection, Injection, Surjection, IsInjective
<1>5. ExistsBijection(C, T)
  BY <1>4 DEF ExistsBijection
<1> QED BY <1>5, FS_Bijection

\* A sequence with one entry more.
LEMMA AppendedIs ==
  ASSUME NEW S, NEW s \in Seq(S), NEW x \in S
  PROVE  /\ Append(s, x) \in Seq(S) /\ Len(s) \in Nat /\ Len(Append(s, x)) = Len(s) + 1
         /\ \A y : y \in ToSet(Append(s, x)) <=> y \in ToSet(s) \/ y = x
         /\ \A i \in 1..Len(s) : Append(s, x)[i] = s[i]
         /\ Append(s, x)[Len(s) + 1] = x
<1> DEFINE t == Append(s, x)
<1>1. /\ t \in Seq(S) /\ Len(s) \in Nat /\ Len(t) = Len(s) + 1
      /\ DOMAIN s = 1..Len(s) /\ DOMAIN t = 1..Len(t)
      /\ \A i \in 1..Len(s) : t[i] = s[i]
      /\ t[Len(s) + 1] = x
  BY AppendProperties, LenProperties
<1> HIDE DEF t
<1>2. DOMAIN t = DOMAIN s \cup {Len(s) + 1} /\ \A i \in DOMAIN s : t[i] = s[i]
  BY <1>1
<1>3. \A y : y \in ToSet(t) <=> y \in ToSet(s) \/ y = x
  BY <1>1, <1>2 DEF ToSet
<1> QED BY <1>1, <1>3 DEF t

\* The lines of a file, and how wide they are.
LEMMA LineIs ==
  ASSUME file \in Seq(Seq(STRING) \ {<<>>}), NEW i \in 1..Len(file)
  PROVE  /\ file[i] \in Seq(STRING) /\ Len(file[i]) \in Nat \ {0}
         /\ DOMAIN file[i] = 1..Len(file[i])
<1>1. file[i] \in Seq(STRING) \ {<<>>}
  BY ElementOfSeq
<1> QED BY <1>1, LenProperties, EmptySeq

-----------------------------------------------------------------------------
(* One more row.                                                           *)

\* The sets behind the counters grow by the row read.
LEMMA RowsGrow ==
  ASSUME ReportInv, Validating, InspectRow, NEW r, r = read + 1
  PROVE  /\ r \in 1..Len(file) /\ read \in Nat /\ file' = file /\ options' = options /\ read' = r
         /\ r \notin Rows /\ IsFiniteSet(Rows) /\ Rows' = Rows \cup {r}
         /\ Uneven' = IF Len(file[r]) # Len(file[1]) THEN Uneven \cup {r} ELSE Uneven
         /\ BlankRows' = IF Blank(file[r]) = DOMAIN file[r] THEN BlankRows \cup {r} ELSE BlankRows
         /\ \A name : BlankUnder(name)' =
              BlankUnder(name) \cup ({r} \X {c \in DOMAIN file[1] : /\ c \in Blank(file[r])
                                                                    /\ trim(file[1][c]) = name})
<1>1. /\ r \in 1..Len(file) /\ read \in Nat /\ file' = file /\ options' = options /\ read' = r
  <2>1. Len(file) \in Nat /\ read \in 0..Len(file)
    BY LenProperties DEF ReportInv, ReportSoFar
  <2>2. read < Len(file) /\ read' = read + 1 /\ file' = file /\ options' = options
    BY DEF InspectRow, Reading
  <2> QED BY <2>1, <2>2
<1>2. r \notin Rows
  BY <1>1 DEF Rows
<1>3. IsFiniteSet(Rows)
  <2>1. IsFiniteSet(1..read)
    BY <1>1, FS_Interval
  <2>2. Rows \in SUBSET (1..read)
    BY DEF Rows
  <2> QED BY <2>1, <2>2, FS_Subset
<1>4. Rows' = Rows \cup {r}
  <2>1. options.hasHeader => r > 1
    BY <1>1 DEF InspectRow
  <2> QED BY <1>1, <2>1 DEF Rows
<1>5. Uneven' = IF Len(file[r]) # Len(file[1]) THEN Uneven \cup {r} ELSE Uneven
  BY <1>1, <1>4 DEF Uneven
<1>6. BlankRows' = IF Blank(file[r]) = DOMAIN file[r] THEN BlankRows \cup {r} ELSE BlankRows
  BY <1>1, <1>4 DEF BlankRows
<1>7. ASSUME NEW name
      PROVE  BlankUnder(name)' =
              BlankUnder(name) \cup ({r} \X {c \in DOMAIN file[1] : /\ c \in Blank(file[r])
                                                                    /\ trim(file[1][c]) = name})
  BY <1>1, <1>4 DEF BlankUnder
<1> QED BY <1>1, <1>2, <1>3, <1>4, <1>5, <1>6, <1>7

\* `inspect`, counter by counter.
LEMMA CountedIs ==
  ASSUME ReportInv, Validating, NEW row \in Seq(STRING), NEW r \in Nat
  PROVE  LET width == IF report.columnCount = 0 THEN Len(row) ELSE report.columnCount
             odd == Len(row) # width
             c == Counted(row, r)
             named(name) == {i \in Blank(row) : i \in DOMAIN report.columns
                                                /\ report.columns[i] = name}
         IN  /\ c = [field \in ReportFields |-> c[field]]
             /\ c.rows = report.rows + 1
             /\ c.columns = report.columns
             /\ c.columnCount = width
             /\ c.inconsistentRows = report.inconsistentRows + OneIf(odd)
             /\ c.inconsistentExamples =
                  IF odd /\ Len(report.inconsistentExamples) < MaxExamples
                    THEN Append(report.inconsistentExamples, r) ELSE report.inconsistentExamples
             /\ c.emptyRows = report.emptyRows + OneIf(Blank(row) = DOMAIN row)
             /\ DOMAIN c.emptyByColumn = DOMAIN report.emptyByColumn
             /\ \A name \in DOMAIN report.emptyByColumn :
                  c.emptyByColumn[name] = report.emptyByColumn[name] + Cardinality(named(name))
<1>1. report = [field \in ReportFields |-> report[field]]
  BY DEF ReportInv, ReportSoFar
<1>2. ReportFields = {"rows", "columns", "columnCount", "inconsistentRows",
                      "inconsistentExamples", "emptyByColumn", "emptyRows"}
  BY DEF ReportFields, emptyReport
<1> QED BY <1>1, <1>2 DEF Counted

\* A row is a row, empty or not, even or not.
LEMMA RowKinds ==
  ASSUME NEW i \in 1..Len(file), file \in Seq(Seq(STRING) \ {<<>>})
  PROVE  Blank(file[i]) \subseteq DOMAIN file[i] /\ IsFiniteSet(Blank(file[i]))
<1>1. Len(file[i]) \in Nat /\ DOMAIN file[i] = 1..Len(file[i])
  BY LineIs
<1>2. Blank(file[i]) \in SUBSET (1..Len(file[i])) /\ IsFiniteSet(1..Len(file[i]))
  <2>1. Blank(file[i]) \in SUBSET (1..Len(file[i]))
    BY <1>1 DEF Blank
  <2>2. \A n \in Nat : IsFiniteSet(1..n)
    BY FS_Interval
  <2> QED BY <1>1, <2>1, <2>2
<1> DEFINE cells == Blank(file[i])
<1> HIDE DEF cells
<1>3. cells \in SUBSET (1..Len(file[i])) => IsFiniteSet(cells)
  BY <1>2, FS_Subset
<1> QED BY <1>1, <1>2, <1>3 DEF cells

LEMMA RowIsCounted ==
  ASSUME ReportInv, Validating, InspectRow, report' = Counted(Line, read + 1)
  PROVE  ReportSoFar'
<1>0. ReportSoFar
  BY DEF ReportInv
<1> DEFINE r == read + 1
           row == file[r]
           c == Counted(row, r)
           names == report.columns
           examples == report.inconsistentExamples
<1>1. /\ r \in 1..Len(file) /\ read \in Nat /\ file' = file /\ options' = options /\ read' = r
      /\ r \notin Rows /\ IsFiniteSet(Rows) /\ Rows' = Rows \cup {r}
      /\ Uneven' = IF Len(row) # Len(file[1]) THEN Uneven \cup {r} ELSE Uneven
      /\ BlankRows' = IF Blank(row) = DOMAIN row THEN BlankRows \cup {r} ELSE BlankRows
      /\ \A name : BlankUnder(name)' =
           BlankUnder(name) \cup ({r} \X {i \in DOMAIN file[1] : /\ i \in Blank(row)
                                                                 /\ trim(file[1][i]) = name})
  BY RowsGrow
<1>2. /\ Len(file) \in Nat /\ 1 \in 1..Len(file)
      /\ row \in Seq(STRING) /\ Len(row) \in Nat \ {0} /\ DOMAIN row = 1..Len(row)
      /\ Len(file[1]) \in Nat \ {0} /\ DOMAIN file[1] = 1..Len(file[1])
      /\ IsFiniteSet(Blank(row))
  <2>1. Len(file) \in Nat /\ 1 \in 1..Len(file)
    BY <1>1, LenProperties DEF ReportInv
  <2> QED BY <1>1, <2>1, LineIs, RowKinds DEF ReportInv
<1>3. report' = c
  BY DEF Line
<1>4. (read = 0 => r = 1) /\ (read # 0 => read > 0)
  BY <1>1
\* The width the row is compared with is that of the first line.
<1>5. /\ report.columnCount = 0 <=> read = 0
      /\ report.columnCount # 0 => report.columnCount = Len(file[1])
  BY <1>0, <1>2 DEF ReportSoFar
<1>6. PICK odd \in BOOLEAN : odd = (Len(row) # Len(file[1]))
  BY Zenon
<1>7. /\ report' = [field \in ReportFields |-> report'[field]]
      /\ report'.rows = report.rows + 1
      /\ report'.columns = names
      /\ report'.columnCount = Len(file[1])
      /\ report'.inconsistentRows = report.inconsistentRows + OneIf(odd)
      /\ report'.inconsistentExamples =
           IF odd /\ Len(examples) < MaxExamples THEN Append(examples, r) ELSE examples
      /\ report'.emptyRows = report.emptyRows + OneIf(Blank(row) = DOMAIN row)
      /\ DOMAIN report'.emptyByColumn = DOMAIN report.emptyByColumn
      /\ \A name \in DOMAIN report.emptyByColumn :
           report'.emptyByColumn[name] = report.emptyByColumn[name]
             + Cardinality({i \in Blank(row) : i \in DOMAIN names /\ names[i] = name})
  <2> DEFINE width == IF report.columnCount = 0 THEN Len(row) ELSE report.columnCount
  <2>1. width = Len(file[1])
    BY <1>4, <1>5
  <2>2. OneIf(Len(row) # width) = OneIf(odd)
    BY <1>6, <2>1, Zenon
  <2>3. (Len(row) # width) = odd
    BY <1>6, <2>1, Zenon
  <2> HIDE DEF width, c, row, r
  <2>4. r \in Nat /\ row \in Seq(STRING)
    BY <1>1, <1>2
  <2>5. /\ c = [field \in ReportFields |-> c[field]]
        /\ c.rows = report.rows + 1
        /\ c.columns = report.columns
        /\ c.columnCount = width
        /\ c.inconsistentRows = report.inconsistentRows + OneIf(Len(row) # width)
        /\ c.inconsistentExamples =
             IF Len(row) # width /\ Len(report.inconsistentExamples) < MaxExamples
               THEN Append(report.inconsistentExamples, r) ELSE report.inconsistentExamples
        /\ c.emptyRows = report.emptyRows + OneIf(Blank(row) = DOMAIN row)
        /\ DOMAIN c.emptyByColumn = DOMAIN report.emptyByColumn
        /\ \A name \in DOMAIN report.emptyByColumn :
             c.emptyByColumn[name] = report.emptyByColumn[name]
               + Cardinality({i \in Blank(row) : i \in DOMAIN report.columns
                                                 /\ report.columns[i] = name})
    BY <2>4, CountedIs DEF c, width
  <2> QED BY <1>3, <2>1, <2>2, <2>3, <2>5
<1>8. /\ read' \in 0..Len(file') /\ read' > 0
      /\ report'.columnCount = Len(file'[1])
  BY <1>1, <1>2, <1>7
<1>9. report'.columns = IF read' > 0 /\ options'.hasHeader
                          THEN [i \in DOMAIN file'[1] |-> trim(file'[1][i])] ELSE <<>>
  <2>1. read > 0 \/ ~options.hasHeader
    BY DEF InspectRow
  <2> QED BY <1>0, <1>1, <1>7, <1>8, <2>1 DEF ReportSoFar
<1>10. DOMAIN report'.emptyByColumn = ToSet(report'.columns)
  BY <1>0, <1>7 DEF ReportSoFar
<1>11. RowsAreCounted'
  <2>1. Cardinality(Rows') = Cardinality(Rows) + 1
    BY <1>1, FS_AddElement
  <2> QED BY <1>0, <1>7, <2>1 DEF ReportSoFar, RowsAreCounted
<1>12. /\ IsFiniteSet(Uneven) /\ r \notin Uneven /\ Uneven \subseteq 1..read
       /\ Cardinality(Uneven) \in Nat
  <2>1. Uneven \in SUBSET Rows /\ Uneven \subseteq 1..read
    BY DEF Uneven, Rows
  <2> QED BY <1>1, <2>1, FS_Subset, FS_CardinalityType
<1>13. Cardinality(Uneven') = Cardinality(Uneven) + OneIf(odd)
  BY <1>1, <1>6, <1>12, CountsOneMore
<1>14. /\ report'.inconsistentExamples \in Seq(Nat)
       /\ \/ Uneven' \subseteq ToSet(report'.inconsistentExamples)
          \/ Len(report'.inconsistentExamples) = MaxExamples
       /\ UnevenRowsAreCounted'
  <2>0. /\ examples \in Seq(Nat) /\ Len(examples) \in Nat /\ MaxExamples \in Nat
        /\ Uneven \subseteq ToSet(examples) \/ Len(examples) = MaxExamples
        /\ report.inconsistentRows = Cardinality(Uneven)
        /\ ToSet(examples) \subseteq Uneven
        /\ Len(examples) = IF MaxExamples <= Cardinality(Uneven)
                              THEN MaxExamples ELSE Cardinality(Uneven)
        /\ \A i \in Uneven \ ToSet(examples) : \A j \in ToSet(examples) : j < i
    BY <1>0, <1>12, CsvAssumption, MinIs, LenProperties DEF ReportSoFar, UnevenRowsAreCounted
  <2> DEFINE examples1 == report'.inconsistentExamples
  <2>1. SUFFICES /\ examples1 \in Seq(Nat)
                 /\ Uneven' \subseteq ToSet(examples1) \/ Len(examples1) = MaxExamples
                 /\ ToSet(examples1) \subseteq Uneven'
                 /\ Len(examples1) = IF MaxExamples <= Cardinality(Uneven')
                                       THEN MaxExamples ELSE Cardinality(Uneven')
                 /\ \A i \in Uneven' \ ToSet(examples1) : \A j \in ToSet(examples1) : j < i
    <3>1. report'.inconsistentRows = Cardinality(Uneven') /\ Cardinality(Uneven') \in Nat
      BY <1>7, <1>12, <1>13, <2>0 DEF OneIf
    <3> QED BY <2>0, <3>1, MinIs DEF UnevenRowsAreCounted
  <2>2. CASE ~odd
    <3>1. Uneven' = Uneven /\ examples1 = examples
      BY <1>1, <1>6, <1>7, <2>2
    <3> QED BY <2>0, <3>1
  <2>3. CASE odd /\ Len(examples) < MaxExamples
    <3>1. /\ Uneven' = Uneven \cup {r} /\ examples1 = Append(examples, r)
          /\ Cardinality(Uneven') = Cardinality(Uneven) + 1
      BY <1>1, <1>6, <1>7, <1>13, <2>3 DEF OneIf
    <3>2. /\ examples1 \in Seq(Nat) /\ Len(examples1) = Len(examples) + 1
          /\ ToSet(examples1) = ToSet(examples) \cup {r}
      <4>1. r \in Nat /\ examples \in Seq(Nat)
        BY <1>1, <2>0
      <4>2. examples1 = Append(examples, r)
        BY <3>1
      <4> HIDE DEF examples, examples1, r
      <4>3. examples1 \in Seq(Nat)
        BY <4>1, <4>2, AppendedIs
      <4>4. Len(examples1) = Len(examples) + 1
        BY <4>1, <4>2, AppendedIs
      <4>5. ToSet(examples1) = ToSet(examples) \cup {r}
        <5>1. \A y : y \in ToSet(examples1) <=> y \in ToSet(examples) \/ y = r
          BY <4>1, <4>2, AppendedIs
        <5> QED BY <5>1
      <4> QED BY <4>3, <4>4, <4>5
    <3>3. Uneven \subseteq ToSet(examples) /\ Len(examples) = Cardinality(Uneven)
      BY <2>0, <2>3
    <3>4. Uneven' = ToSet(examples1)
      <4>1. Uneven = ToSet(examples)
        BY <2>0, <3>3
      <4> HIDE DEF examples, examples1, r
      <4> QED BY <3>1, <3>2, <4>1, Zenon
    <3>5. Len(examples1) = Cardinality(Uneven') /\ Len(examples1) <= MaxExamples
          /\ Len(examples1) \in Nat
      BY <1>12, <2>0, <2>3, <3>1, <3>2, <3>3
    <3> HIDE DEF examples, examples1
    <3> QED BY <2>0, <3>2, <3>4, <3>5
  <2>4. CASE odd /\ ~(Len(examples) < MaxExamples)
    <3>1. /\ Uneven' = Uneven \cup {r} /\ examples1 = examples
          /\ Cardinality(Uneven') = Cardinality(Uneven) + 1
      BY <1>1, <1>6, <1>7, <1>13, <2>4 DEF OneIf
    <3>2. Len(examples) = MaxExamples /\ MaxExamples <= Cardinality(Uneven')
      BY <1>12, <2>0, <2>4, <3>1
    <3>3. \A j \in ToSet(examples) : j < r
      <4>1. \A j \in 1..read : j < r
        BY <1>1
      <4>2. \A j \in ToSet(examples) : j \in 1..read
        BY <1>12, <2>0
      <4> QED BY <4>1, <4>2
    <3> QED BY <2>0, <3>1, <3>2, <3>3
  <2> QED BY <2>2, <2>3, <2>4
<1>15. BlanksAreCounted'
  <2>1. report'.emptyRows = Cardinality(BlankRows')
    <3>1. PICK blank \in BOOLEAN : blank = (Blank(row) = DOMAIN row)
      BY Zenon
    <3>2. report'.emptyRows = report.emptyRows + OneIf(blank)
      BY <1>7, <3>1, Zenon
    <3>3. BlankRows \in SUBSET Rows /\ r \notin BlankRows
      BY <1>1 DEF BlankRows
    <3>4. BlankRows' = IF blank THEN BlankRows \cup {r} ELSE BlankRows
      BY <1>1, <3>1
    <3>5. Cardinality(BlankRows') = Cardinality(BlankRows) + OneIf(blank)
      BY <1>1, <3>3, <3>4, FS_Subset, CountsOneMore
    <3> QED BY <1>0, <3>2, <3>5 DEF ReportSoFar, BlanksAreCounted
  <2>2. ASSUME NEW name \in DOMAIN report'.emptyByColumn
        PROVE  report'.emptyByColumn[name] = Cardinality(BlankUnder(name)')
    <3> DEFINE C == {i \in DOMAIN file[1] : i \in Blank(row) /\ trim(file[1][i]) = name}
               N == {i \in Blank(row) : i \in DOMAIN names /\ names[i] = name}
               T == {r} \X C
               S == BlankUnder(name)
    <3>1. name \in DOMAIN report.emptyByColumn /\ name \in ToSet(names)
      BY <1>0, <1>7 DEF ReportSoFar
    <3>2. names = [i \in DOMAIN file[1] |-> trim(file[1][i])]
      <4>1. names # <<>>
        BY <3>1 DEF ToSet
      <4> QED BY <1>0, <4>1 DEF ReportSoFar
    <3>3. N = C
      BY <3>2
    <3>4. IsFiniteSet(C)
      <4>1. C \in SUBSET Blank(row)
        OBVIOUS
      <4> QED BY <1>2, <4>1, FS_Subset
    <3>5. IsFiniteSet(T) /\ Cardinality(T) = Cardinality(C)
      <4> HIDE DEF C
      <4> QED BY <3>4, CellsOfRow
    <3>6. IsFiniteSet(S)
      <4>1. IsFiniteSet(Rows \X DOMAIN file[1])
        <5>1. IsFiniteSet(DOMAIN file[1])
          <6>1. \A n \in Nat : IsFiniteSet(1..n)
            BY FS_Interval
          <6> QED BY <1>2, <6>1
        <5> QED BY <1>1, <5>1, FS_Product
      <4>2. S \in SUBSET (Rows \X DOMAIN file[1])
        BY DEF BlankUnder
      <4> QED BY <4>1, <4>2, FS_Subset
    <3>7. S \cap T = {}
      BY <1>1 DEF BlankUnder
    <3>8. BlankUnder(name)' = S \cup T
      BY <1>1
    <3>9. Cardinality(S \cup T) = Cardinality(S) + Cardinality(C)
      <4> HIDE DEF S, T, C
      <4>1. Cardinality(S) \in Nat /\ Cardinality(C) \in Nat /\ Cardinality(S \cap T) = 0
        BY <3>4, <3>6, <3>7, FS_CardinalityType, FS_EmptySet
      <4>2. Cardinality(S \cup T) = Cardinality(S) + Cardinality(T) - Cardinality(S \cap T)
        BY <3>5, <3>6, FS_Union
      <4> QED BY <3>5, <4>1, <4>2
    <3>10. report'.emptyByColumn[name] = Cardinality(S) + Cardinality(N)
      <4>1. report.emptyByColumn[name] = Cardinality(S)
        BY <1>0, <3>1 DEF ReportSoFar, BlanksAreCounted
      <4> HIDE DEF S, N
      <4> QED BY <1>7, <3>1, <4>1 DEF N
    <3> HIDE DEF S, T, C, N
    <3> QED BY <3>3, <3>8, <3>9, <3>10
  <2> QED BY <2>1, <2>2 DEF BlanksAreCounted
<1> QED
  BY <1>7, <1>8, <1>9, <1>10, <1>11, <1>14, <1>15 DEF ReportSoFar

-----------------------------------------------------------------------------
(* The invariant.                                                          *)

\* Nothing is counted of a file that is not read yet, nor of its header.
LEMMA NothingIsCounted ==
  ASSUME file \in Seq(Seq(STRING) \ {<<>>}), options.hasHeader \in BOOLEAN,
         read \in 0..Len(file), read = 0 \/ (read = 1 /\ options.hasHeader),
         report = [field \in ReportFields |-> report[field]],
         report.rows = 0, report.inconsistentRows = 0, report.emptyRows = 0,
         report.inconsistentExamples = <<>>,
         \A name \in DOMAIN report.emptyByColumn : report.emptyByColumn[name] = 0
  PROVE  /\ Uneven \subseteq ToSet(report.inconsistentExamples)
         /\ report.inconsistentExamples \in Seq(Nat)
         /\ RowsAreCounted /\ UnevenRowsAreCounted /\ BlanksAreCounted
<1>1. Rows = {}
  BY DEF Rows
<1>2. Uneven = {} /\ BlankRows = {} /\ \A name : BlankUnder(name) = {}
  BY <1>1 DEF Uneven, BlankRows, BlankUnder
<1>3. Cardinality({}) = 0
  BY FS_EmptySet
<1>4. /\ report.inconsistentExamples \in Seq(Nat) /\ Len(report.inconsistentExamples) = 0
      /\ ToSet(report.inconsistentExamples) = {}
  <2>1. <<>> \in Seq(Nat) /\ Len(<<>>) = 0 /\ DOMAIN <<>> = {}
    BY EmptySeq
  <2> QED BY <2>1 DEF ToSet
<1>5. Min({MaxExamples, 0}) = 0
  <2>1. MaxExamples \in Nat /\ 0 \in Nat
    BY CsvAssumption
  <2>2. Min({MaxExamples, 0}) = IF MaxExamples <= 0 THEN MaxExamples ELSE 0
    BY <2>1, MinIs
  <2> QED BY <2>1, <2>2
<1> QED
  BY <1>1, <1>2, <1>3, <1>4, <1>5
     DEF RowsAreCounted, UnevenRowsAreCounted, BlanksAreCounted

LEMMA ReportInvInit == Init => ReportInv
<1> SUFFICES ASSUME Init PROVE ReportInv
  OBVIOUS
<1>1. /\ file \in Seq(Seq(STRING) \ {<<>>}) /\ options.hasHeader \in BOOLEAN
      /\ status = [op \in CsvOps |-> status[op]]
  BY CsvAssumption DEF Init, Option
<1>2. /\ read = 0 /\ read \in 0..Len(file)
      /\ report = [field \in ReportFields |-> report[field]]
      /\ report.rows = 0 /\ report.inconsistentRows = 0 /\ report.emptyRows = 0
      /\ report.columnCount = 0 /\ report.columns = <<>>
      /\ report.inconsistentExamples = <<>> /\ report.emptyByColumn = <<>>
  BY <1>1, LenProperties DEF Init, ReportFields, emptyReport
<1>3. DOMAIN report.emptyByColumn = {} /\ ToSet(report.columns) = {}
  BY <1>2, EmptySeq DEF ToSet
<1>4. /\ Uneven \subseteq ToSet(report.inconsistentExamples)
      /\ report.inconsistentExamples \in Seq(Nat)
      /\ RowsAreCounted /\ UnevenRowsAreCounted /\ BlanksAreCounted
  BY <1>1, <1>2, <1>3, NothingIsCounted
<1>5. ~(read > 0)
  BY <1>2
<1>6. ReportSoFar
  BY <1>2, <1>3, <1>4, <1>5 DEF ReportSoFar
<1> QED BY <1>1, <1>6, Zenon DEF ReportInv

\* The header row gives the report its names and its width.
LEMMA HeaderIsInspected ==
  ASSUME ReportInv, Validating, InspectHeader
  PROVE  ReportSoFar'
<1> DEFINE names == [i \in DOMAIN file[1] |-> trim(file[1][i])]
<1>1. /\ file' = file /\ options' = options /\ read = 0 /\ read' = 1 /\ options.hasHeader
      /\ file \in Seq(Seq(STRING) \ {<<>>}) /\ read' \in 0..Len(file)
      /\ Line = file[1]
  BY LenProperties DEF InspectHeader, Reading, Line, ReportInv
<1>2. report' = [report EXCEPT !.columns = names, !.columnCount = Len(file[1]),
                               !.emptyByColumn = [name \in ToSet(names) |-> 0]]
  BY <1>1 DEF InspectHeader
<1>3. report = [field \in ReportFields |-> report[field]]
  BY DEF ReportInv, ReportSoFar
<1>4. ReportFields = {"rows", "columns", "columnCount", "inconsistentRows",
                      "inconsistentExamples", "emptyByColumn", "emptyRows"}
  BY DEF ReportFields, emptyReport
<1> HIDE DEF names
<1>5. /\ report' = [field \in ReportFields |-> report'[field]]
      /\ report'.columns = names /\ report'.columnCount = Len(file[1])
      /\ report'.emptyByColumn = [name \in ToSet(names) |-> 0]
      /\ report'.rows = report.rows /\ report'.inconsistentRows = report.inconsistentRows
      /\ report'.inconsistentExamples = report.inconsistentExamples
      /\ report'.emptyRows = report.emptyRows
  BY <1>2, <1>3, <1>4
\* None of the first line's counters has moved.
<1>6. /\ Rows = {} /\ Rows' = {}
      /\ Uneven = {} /\ Uneven' = {}
      /\ BlankRows = {} /\ BlankRows' = {}
      /\ \A name : BlankUnder(name)' = {}
  <2>1. Rows = {} /\ Rows' = {}
    BY <1>1 DEF Rows
  <2> QED BY <2>1 DEF Uneven, BlankRows, BlankUnder
<1>7. Cardinality({}) = 0 /\ Cardinality({}) \in Nat
  BY FS_EmptySet
<1>8. RowsAreCounted' /\ UnevenRowsAreCounted'
  <2>1. /\ report.rows = 0
        /\ report.inconsistentRows = 0 /\ ToSet(report.inconsistentExamples) = {}
        /\ Len(report.inconsistentExamples) = Min({MaxExamples, 0})
    BY <1>6, <1>7 DEF ReportInv, ReportSoFar, RowsAreCounted, UnevenRowsAreCounted
  <2> QED BY <1>5, <1>6, <1>7, <2>1 DEF RowsAreCounted, UnevenRowsAreCounted
<1>9. BlanksAreCounted'
  BY <1>5, <1>6, <1>7 DEF ReportInv, ReportSoFar, BlanksAreCounted
<1>10. report'.inconsistentExamples \in Seq(Nat) /\ Uneven' \subseteq ToSet(report'.inconsistentExamples)
  BY <1>5, <1>6 DEF ReportInv, ReportSoFar
<1>11. report'.columns = [i \in DOMAIN file'[1] |-> trim(file'[1][i])]
  BY <1>1, <1>5 DEF names
<1> QED
  BY <1>1, <1>5, <1>8, <1>9, <1>10, <1>11 DEF ReportSoFar

\* Before and after csv.transform is asked for, status is about both operations.
LEMMA StatusIs ==
  ASSUME ReportInv, NEW op \in CsvOps, NEW verdict, EndsAs(op, verdict)
  PROVE  /\ status' = [o \in CsvOps |-> status'[o]]
         /\ status'[op] = verdict
         /\ \A o \in CsvOps \ {op} : status'[o] = status[o]
BY DEF ReportInv, EndsAs

\* Once csv.transform is asked for, no step is about the report.
LEMMA TransformLeavesReport ==
  ASSUME ReportInv,
         SkipLine \/ TakeHeader \/ Ragged \/ TooManyRows \/ PassArray \/ NoSuchColumn
           \/ Reshape \/ TransformEnds
  PROVE  ReportInv'
<1>1. /\ file' = file /\ options' = options
      /\ status["csv.transform"] = "reading"
      /\ \/ status' = status
         \/ EndsAs("csv.transform", "invalid") \/ EndsAs("csv.transform", "ended")
  <2>1. CASE SkipLine
    BY <2>1 DEF SkipLine, Reading
  <2>2. CASE TakeHeader
    BY <2>2 DEF TakeHeader, NextRow, Reading
  <2>3. CASE Ragged
    BY <2>3 DEF Ragged, NextRow, Reading
  <2>4. CASE TooManyRows
    BY <2>4 DEF TooManyRows, Reshaping, NextRow, Reading
  <2>5. CASE PassArray
    BY <2>5 DEF PassArray, Reshaping, NextRow, Reading
  <2>6. CASE NoSuchColumn
    BY <2>6 DEF NoSuchColumn, Reshaping, NextRow, Reading
  <2>7. CASE Reshape
    BY <2>7 DEF Reshape, Reshaping, NextRow, Reading
  <2>8. CASE TransformEnds
    BY <2>8 DEF TransformEnds
  <2> QED BY <2>1, <2>2, <2>3, <2>4, <2>5, <2>6, <2>7, <2>8
<1>2. /\ status' = [op \in CsvOps |-> status'[op]]
      /\ status'["csv.transform"] \in {"reading", "invalid", "ended"}
  BY <1>1, StatusIs DEF ReportInv, CsvOps
<1> QED BY <1>1, <1>2 DEF ReportInv, Validating

\* A report of the same lines says the same.
LEMMA ReportStands ==
  ASSUME ReportSoFar, file' = file, options' = options, read' = read, report' = report
  PROVE  ReportSoFar'
<1>1. Rows' = Rows
  BY DEF Rows
<1>2. Uneven' = Uneven /\ BlankRows' = BlankRows
  BY <1>1 DEF Uneven, BlankRows
<1>3. \A name : BlankUnder(name)' = BlankUnder(name)
  BY <1>1 DEF BlankUnder
<1>4. RowsAreCounted' /\ UnevenRowsAreCounted' /\ BlanksAreCounted'
  BY <1>1, <1>2, <1>3 DEF ReportSoFar, RowsAreCounted, UnevenRowsAreCounted, BlanksAreCounted
<1> QED BY <1>2, <1>4 DEF ReportSoFar

LEMMA ReportInvStep == ReportInv /\ [Next]_vars => ReportInv'
<1> SUFFICES ASSUME ReportInv, [Next]_vars PROVE ReportInv'
  OBVIOUS
<1>1. CASE InspectHeader
  <2>1. file' = file /\ options' = options /\ status' = status
    BY <1>1 DEF InspectHeader
  <2>2. Validating' => ReportSoFar'
    BY <1>1, <2>1, HeaderIsInspected DEF Validating
  <2> QED BY <2>1, <2>2 DEF ReportInv
<1>2. CASE InspectRow
  <2>1. file' = file /\ options' = options
    BY <1>2 DEF InspectRow
  <2>2. CASE report.rows = MaxRows
    <3>1. EndsAs("csv.validate", "invalid")
      BY <1>2, <2>2 DEF InspectRow
    <3> QED BY <2>1, <3>1, StatusIs DEF ReportInv, Validating, CsvOps
  <2>3. CASE report.rows # MaxRows
    <3>1. report' = Counted(Line, read + 1) /\ status' = status
      BY <1>2, <2>3 DEF InspectRow
    <3>2. Validating' => ReportSoFar'
      BY <1>2, <3>1, RowIsCounted DEF Validating
    <3> QED BY <2>1, <3>1, <3>2 DEF ReportInv
  <2> QED BY <2>2, <2>3
<1>3. CASE ValidateEnds
  <2>1. /\ EndsAs("csv.validate", "ended") /\ status["csv.validate"] = "reading"
        /\ file' = file /\ options' = options /\ read' = read /\ report' = report
    BY <1>3 DEF ValidateEnds
  <2>2. Validating' => Validating
    BY <2>1, StatusIs DEF Validating, CsvOps
  <2>3. ReportSoFar => ReportSoFar'
    BY <2>1, ReportStands
  <2> QED BY <2>1, <2>2, <2>3, StatusIs DEF ReportInv, CsvOps
<1>4. CASE Ask
  <2>1. EndsAs("csv.transform", "reading") /\ file' = file /\ options'.hasHeader = options.hasHeader
    BY <1>4 DEF Ask
  <2> QED BY <2>1, StatusIs DEF ReportInv, Validating, CsvOps
<1>5. CASE UNCHANGED vars
  <2>1. ReportSoFar => ReportSoFar'
    BY <1>5, ReportStands DEF vars
  <2> QED BY <1>5, <2>1 DEF vars, ReportInv, Validating
<1> QED BY <1>1, <1>2, <1>3, <1>4, <1>5, TransformLeavesReport DEF Next

\* What the report says of the lines read so far is kept by every row.
THEOREM ReportInvHolds == Spec => []ReportInv
BY ReportInvInit, ReportInvStep, PTL DEF Spec

\* The report of csv.validate counts the rows of the file, its uneven rows, its
\* blank rows and the blanks under each name, each once (validateCsv).
THEOREM ReportsAreExact == Spec => []ReportIsExact
<1>1. ReportInv => ReportIsExact
  BY DEF ReportInv, ReportSoFar, ReportIsExact
<1> QED BY <1>1, ReportInvHolds, PTL

-----------------------------------------------------------------------------
(* The members of a set in their order.                                    *)


\* Every set of numbers that is not empty has a least one.
LEMMA LeastNat ==
  ASSUME NEW T, T \subseteq Nat, T # {}
  PROVE  \E m \in T : \A n \in T : m <= n
<1>1. IsWellFoundedOn(OpToRel(<, Nat), Nat)
  BY NatLessThanWellFounded, Zenon
<1>2. PICK m \in T : \A n \in T : <<n, m>> \notin OpToRel(<, Nat)
  BY <1>1, WFMin
<1>3. \A n \in T : ~(n < m)
  BY <1>2 DEF OpToRel
<1> QED BY <1>3

\* The members of a set are numbered without a gap.
LEMMA RankIs ==
  ASSUME NEW S, S \subseteq Nat, IsFiniteSet(S)
  PROVE  /\ Cardinality(S) \in Nat
         /\ \A i \in S : Rank(i, S) \in 1..Cardinality(S)
         /\ \A i, j \in S : Rank(i, S) = Rank(j, S) => i = j
         /\ \A k \in 1..Cardinality(S) : \E i \in S : Rank(i, S) = k
<1> DEFINE upTo(i) == {j \in S : j <= i}
           n == Cardinality(S)
<1>1. n \in Nat
  BY FS_CardinalityType
<1>2. ASSUME NEW i \in S
      PROVE  IsFiniteSet(upTo(i)) /\ Rank(i, S) = Cardinality(upTo(i)) /\ Rank(i, S) \in 1..n
  <2>1. upTo(i) \in SUBSET S /\ i \in upTo(i)
    OBVIOUS
  <2> HIDE DEF upTo
  <2>2. IsFiniteSet(upTo(i)) /\ Cardinality(upTo(i)) <= n
    BY <2>1, FS_Subset
  <2>3. Cardinality(upTo(i)) \in Nat /\ Cardinality(upTo(i)) # 0
    BY <2>1, <2>2, FS_CardinalityType, FS_EmptySet
  <2>4. Rank(i, S) = Cardinality(upTo(i))
    BY DEF Rank, upTo
  <2> QED BY <1>1, <2>2, <2>3, <2>4
<1>3. ASSUME NEW i \in S, NEW j \in S, i < j
      PROVE  Rank(i, S) # Rank(j, S)
  <2>1. upTo(i) \in SUBSET upTo(j) /\ j \in upTo(j) /\ j \notin upTo(i)
    <3>1. i \in Nat /\ j \in Nat /\ \A k \in S : k \in Nat
      OBVIOUS
    <3>2. \A k \in S : k <= i => k <= j
      BY <1>3, <3>1
    <3>3. j <= j /\ ~(j <= i)
      BY <1>3, <3>1
    <3> QED BY <3>2, <3>3
  <2> HIDE DEF upTo
  <2>2. Cardinality(upTo(j)) = Cardinality(upTo(i)) => upTo(i) = upTo(j)
    BY <1>2, <2>1, FS_Subset
  <2>3. Rank(i, S) = Cardinality(upTo(i)) /\ Rank(j, S) = Cardinality(upTo(j))
    BY <1>2
  <2> QED BY <2>1, <2>2, <2>3
<1>4. \A i, j \in S : Rank(i, S) = Rank(j, S) => i = j
  BY <1>3
<1> DEFINE f == [i \in S |-> Rank(i, S)]
<1>5. f \in Injection(S, 1..n)
  BY <1>2, <1>4 DEF Injection, IsInjective
<1>6. IsFiniteSet(1..n) /\ Cardinality(1..n) = n
  BY <1>1, FS_Interval
<1>7. f \in Surjection(S, 1..n)
  <2> HIDE DEF f, n
  <2>1. Cardinality(S) = Cardinality(1..n) => f \in Surjection(S, 1..n)
    BY <1>5, <1>6, FS_Injection
  <2> QED BY <1>6, <2>1 DEF n
<1>8. \A k \in 1..n : \E i \in S : Rank(i, S) = k
  BY <1>7 DEF Surjection
<1> QED BY <1>1, <1>2, <1>4, <1>8

LEMMA EntriesAre ==
  ASSUME NEW seq, NEW S, S \subseteq Nat, IsFiniteSet(S)
  PROVE  /\ Entries(seq, S) = <<>> <=> S = {}
         /\ ToSet(Entries(seq, S)) = {seq[i] : i \in S}
<1> DEFINE n == Cardinality(S)
           at(k) == CHOOSE i \in S : Rank(i, S) = k
           e == Entries(seq, S)
<1>1. /\ n \in Nat
      /\ \A i \in S : Rank(i, S) \in 1..n /\ at(Rank(i, S)) = i
      /\ \A k \in 1..n : at(k) \in S
  BY RankIs
<1>2. e = [k \in 1..n |-> seq[at(k)]]
  BY DEF Entries
<1> HIDE DEF at, e
<1>3. ToSet(e) = {seq[i] : i \in S}
  <2>1. \A x \in ToSet(e) : x \in {seq[i] : i \in S}
    BY <1>1, <1>2 DEF ToSet
  <2>2. \A i \in S : seq[i] \in ToSet(e)
    BY <1>1, <1>2 DEF ToSet
  <2> QED BY <2>1, <2>2
<1>4. S = {} => n = 0
  BY FS_EmptySet
<1>5. e = <<>> => S = {}
  <2>1. e = <<>> => DOMAIN e = {}
    OBVIOUS
  <2> QED BY <1>1, <1>2, <2>1
<1>6. S = {} => e = <<>>
  <2>1. S = {} => e = [k \in 1..0 |-> seq[at(k)]]
    BY <1>2, <1>4
  <2>2. 1..0 = {}
    OBVIOUS
  <2> QED BY <2>1, <2>2
<1> QED BY <1>3, <1>5, <1>6 DEF e

\* One more, beyond the others, is numbered last.
LEMMA RankGrows ==
  ASSUME NEW S, S \subseteq Nat, IsFiniteSet(S), NEW r \in Nat, \A i \in S : i < r
  PROVE  /\ IsFiniteSet(S \cup {r}) /\ Cardinality(S \cup {r}) = Cardinality(S) + 1
         /\ Rank(r, S \cup {r}) = Cardinality(S) + 1
         /\ \A i \in S : Rank(i, S \cup {r}) = Rank(i, S)
<1>1. r \notin S /\ \A i \in S : i <= r
  OBVIOUS
<1>2. IsFiniteSet(S \cup {r}) /\ Cardinality(S \cup {r}) = Cardinality(S) + 1
  BY <1>1, FS_AddElement
<1>3. Rank(r, S \cup {r}) = Cardinality(S \cup {r})
  <2>1. \A j \in S \cup {r} : j <= r
    BY <1>1
  <2>2. {j \in S \cup {r} : j <= r} = S \cup {r}
    BY <2>1
  <2> QED BY <2>2 DEF Rank
<1>4. ASSUME NEW i \in S PROVE Rank(i, S \cup {r}) = Rank(i, S)
  <2>1. ~(r <= i)
    BY <1>1
  <2>2. {j \in S \cup {r} : j <= i} = {j \in S : j <= i}
    BY <2>1
  <2> QED BY <2>2 DEF Rank
<1> QED BY <1>2, <1>3, <1>4

\* A sequence of whatever, with one entry more.
LEMMA AnyAppended ==
  ASSUME NEW s, Len(s) \in Nat, s = [i \in 1..Len(s) |-> s[i]], NEW x
  PROVE  /\ Len(Append(s, x)) = Len(s) + 1
         /\ Append(s, x) = [i \in 1..Len(Append(s, x)) |-> Append(s, x)[i]]
         /\ \A i \in 1..Len(s) : Append(s, x)[i] = s[i]
         /\ Append(s, x)[Len(s) + 1] = x
<1> DEFINE n == Len(s)
           S == {s[i] : i \in 1..n} \cup {x}
<1>1. s \in Seq(S) /\ x \in S
  <2>1. s \in [1..n -> S] /\ x \in S
    OBVIOUS
  <2> HIDE DEF S
  <2> QED BY <2>1, SeqDef
<1> HIDE DEF S
<1>2. /\ Append(s, x) \in Seq(S) /\ Len(Append(s, x)) = Len(s) + 1
      /\ \A i \in 1..Len(s) : Append(s, x)[i] = s[i]
      /\ Append(s, x)[Len(s) + 1] = x
  BY <1>1, AppendedIs
<1>3. Append(s, x) \in [1..Len(Append(s, x)) -> S]
  BY <1>2, LenProperties
<1> QED BY <1>2, <1>3

\* What the parser makes of a line is as long as the line.
LEMMA ParsedIs ==
  ASSUME NEW row \in Seq(STRING)
  PROVE  /\ Parsed(row) = [i \in 1..Len(row) |-> IF options.trim THEN trim(row[i]) ELSE row[i]]
         /\ Len(Parsed(row)) = Len(row) /\ Len(row) \in Nat
         /\ DOMAIN Parsed(row) = 1..Len(row)
         /\ \E S : Parsed(row) \in Seq(S)
<1> DEFINE p == Parsed(row)
           S == {p[i] : i \in 1..Len(row)}
<1>1. Len(row) \in Nat /\ DOMAIN row = 1..Len(row)
  BY LenProperties
<1>2. p = [i \in 1..Len(row) |-> IF options.trim THEN trim(row[i]) ELSE row[i]]
  BY <1>1 DEF Parsed
<1>3. DOMAIN p = 1..Len(row) /\ p = [i \in 1..Len(row) |-> p[i]]
  BY <1>2
<1> HIDE DEF p
<1>4. p \in [1..Len(row) -> S]
  BY <1>3
<1> HIDE DEF S
<1>5. p \in Seq(S)
  BY <1>1, <1>4, SeqDef
<1>6. Len(p) = Len(row)
  <2>1. Len(p) \in Nat /\ DOMAIN p = 1..Len(p)
    BY <1>5, LenProperties
  <2>2. \A m, n \in Nat : 1..m = 1..n => m = n
    <3>1. SUFFICES ASSUME NEW m \in Nat, NEW n \in Nat, 1..m = 1..n, m < n PROVE FALSE
      OBVIOUS
    <3>2. n \in 1..n /\ n \notin 1..m
      BY <3>1
    <3> QED BY <3>1, <3>2
  <2> QED BY <1>1, <1>3, <2>1, <2>2
<1> QED BY <1>1, <1>2, <1>3, <1>5, <1>6 DEF p

-----------------------------------------------------------------------------
(* One more line of csv.transform.                                         *)

OutIsWhole == Len(out) \in Nat /\ out = [i \in 1..Len(out) |-> out[i]]

\* The names of a row, each of them once.
LEMMA AvailableIs ==
  ASSUME NEW n \in Nat, DOMAIN head = 1..n
  PROVE  /\ ToSet(Available) = ToSet(head)
         /\ Available = <<>> => n = 0
<1> DEFINE firsts == {i \in 1..n : \A j \in 1..n : head[j] = head[i] => i <= j}
<1>1. IsFiniteSet(1..n)
  BY FS_Interval
<1>2. firsts \in SUBSET (1..n) /\ firsts \subseteq Nat
  OBVIOUS
<1>3. Available = Entries(head, firsts)
  BY DEF Available
<1>4. ASSUME NEW c \in 1..n
      PROVE  \E i \in firsts : head[i] = head[c]
  <2> DEFINE same == {i \in 1..n : head[i] = head[c]}
  <2>1. same \subseteq Nat /\ same # {}
    OBVIOUS
  <2>2. PICK i \in same : \A j \in same : i <= j
    <3> HIDE DEF same
    <3> QED BY <2>1, LeastNat
  <2> QED BY <2>2
<1> HIDE DEF firsts
<1>5. IsFiniteSet(firsts)
  BY <1>1, <1>2, FS_Subset
<1>6. /\ Available = <<>> <=> firsts = {}
      /\ ToSet(Available) = {head[i] : i \in firsts}
  BY <1>2, <1>3, <1>5, EntriesAre
<1>7. ToSet(head) = {head[i] : i \in 1..n}
  BY DEF ToSet
<1>8. ToSet(Available) = ToSet(head)
  BY <1>2, <1>4, <1>6, <1>7
<1>9. firsts = {} => n = 0
  <2>1. n # 0 => 1 \in 1..n
    OBVIOUS
  <2> QED BY <1>4, <2>1
<1> QED BY <1>6, <1>8, <1>9

\* The names reshape selects when the first row comes.
LEMMA SelectedAre ==
  ASSUME options \in Option, NEW n \in Nat, DOMAIN head = 1..n, tally.selected = <<>>
  PROVE  ToSet(Selected) = {name \in ToSet(head) : AskedFor(name)}
<1>1. ToSet(Available) = ToSet(head)
  BY AvailableIs
<1>2. CASE options.columns = <<>>
  BY <1>1, <1>2 DEF Selected, AskedFor
<1>3. CASE options.columns # <<>>
  <2> DEFINE asked == options.columns
             found == {i \in DOMAIN asked : asked[i] \in ToSet(Available)}
  <2>1. asked \in Seq(STRING)
    <3>1. options.columns \in Columns
      BY DEF Option
    <3> QED BY <3>1, CsvAssumption
  <2>2. Len(asked) \in Nat /\ DOMAIN asked = 1..Len(asked)
    BY <2>1, LenProperties
  <2>3. IsFiniteSet(1..Len(asked)) /\ found \in SUBSET (1..Len(asked)) /\ found \subseteq Nat
    <3>1. found \in SUBSET (1..Len(asked))
      BY <2>2
    <3>2. PICK m \in Nat : m = Len(asked)
      BY <2>2
    <3> HIDE DEF found, asked
    <3>3. IsFiniteSet(1..m) /\ 1..m \subseteq Nat
      BY FS_Interval
    <3> QED BY <3>1, <3>2, <3>3
  <2>4. Selected = Entries(asked, found)
    BY <1>3 DEF Selected
  <2>5. ToSet(Selected) = {asked[i] : i \in found}
    <3> HIDE DEF found, asked
    <3>1. IsFiniteSet(found)
      BY <2>3, FS_Subset
    <3> QED BY <2>3, <2>4, <3>1, EntriesAre
  <2>6. {asked[i] : i \in found} = {name \in ToSet(head) : name \in ToSet(asked)}
    BY <1>1 DEF ToSet
  <2> QED BY <1>3, <2>5, <2>6 DEF AskedFor
<1> QED BY <1>2, <1>3

LEMMA LineAt ==
  ASSUME ReportInv, TransformInv, Reading("csv.transform")
  PROVE  /\ ParserSoFar /\ Transforming /\ ~Ended
         /\ Len(file) \in Nat /\ read \in Nat /\ read + 1 \in 1..Len(file)
         /\ Line = file[read + 1] /\ Line \in Seq(STRING) /\ Len(Line) \in Nat \ {0}
<1>1. ParserSoFar /\ Transforming /\ ~Ended
  BY DEF TransformInv, Reading, Transforming, Ended
<1>2. Len(file) \in Nat
  BY LenProperties DEF ReportInv
<1>3. read \in Nat /\ read + 1 \in 1..Len(file)
  BY <1>1, <1>2 DEF ParserSoFar, Reading
<1> QED BY <1>1, <1>2, <1>3, LineIs DEF Line, ReportInv

LEMMA RowsAreNumbers ==
  ASSUME read \in Nat
  PROVE  /\ Parses \subseteq Nat /\ Body \subseteq Nat /\ KeptRows \subseteq Nat
         /\ Parses \subseteq 1..read /\ Body \subseteq Parses /\ KeptRows \subseteq Body
         /\ IsFiniteSet(Parses) /\ IsFiniteSet(Body) /\ IsFiniteSet(KeptRows)
         /\ Cardinality(Body) \in Nat /\ Cardinality(KeptRows) \in Nat
<1>1. Parses \subseteq 1..read /\ Body \subseteq Parses /\ KeptRows \subseteq Body
  BY DEF Parses, Body, KeptRows
<1>2. IsFiniteSet(1..read) /\ 1..read \subseteq Nat
  BY FS_Interval
<1>3. /\ Parses \in SUBSET (1..read) /\ Body \in SUBSET (1..read) /\ KeptRows \in SUBSET (1..read)
  BY <1>1
<1> QED BY <1>1, <1>2, <1>3, FS_Subset, FS_CardinalityType

\* The head is a sequence of names once there is one.
LEMMA HeadIs ==
  ASSUME ReportInv, ParserSoFar, head # <<>>
  PROVE  Len(head) \in Nat /\ DOMAIN head = 1..Len(head)
<1>1. Parses # {} /\ Parses \subseteq Nat
  <2>1. read \in Nat
    BY LenProperties DEF ParserSoFar, ReportInv
  <2> QED BY <2>1, RowsAreNumbers DEF ParserSoFar
<1>2. PICK i \in Parses : \A j \in Parses : i <= j
  BY <1>1, LeastNat
<1>3. head = Parsed(file[i])
  BY <1>2 DEF ParserSoFar
<1>4. i \in 1..Len(file)
  BY <1>2, LenProperties DEF Parses, ParserSoFar, ReportInv
<1>5. file[i] \in Seq(STRING)
  BY <1>4, LineIs DEF ReportInv
<1> QED BY <1>3, <1>5, ParsedIs

LEMMA ParsesGrow ==
  ASSUME read \in Nat, file' = file, options' = options, read' = read + 1
  PROVE  /\ Skipped(file[read + 1]) => Parses' = Parses /\ Body' = Body
         /\ ~Skipped(file[read + 1]) =>
              /\ Parses' = Parses \cup {read + 1}
              /\ Body' = IF options.hasHeader /\ Parses = {} THEN Body ELSE Body \cup {read + 1}
<1> DEFINE r == read + 1
<1>1. 1..read' = (1..read) \cup {r} /\ r \notin 1..read /\ \A i \in 1..read : i < r
  OBVIOUS
<1>2. \A i : Skipped(file[i])' <=> Skipped(file[i])
  BY DEF Skipped, Parsed
<1> HIDE DEF r
<1>3. Parses' = {i \in 1..read' : ~Skipped(file[i])}
  BY <1>2 DEF Parses
<1>4. Body' = {i \in Parses' : options.hasHeader => \E j \in Parses' : j < i}
  BY DEF Body
<1>5. Parses' = IF Skipped(file[r]) THEN Parses ELSE Parses \cup {r}
  BY <1>1, <1>3 DEF Parses
<1>6. Parses \subseteq 1..read
  BY DEF Parses
<1>7. CASE Skipped(file[r])
  <2>1. Parses' = Parses
    BY <1>5, <1>7
  <2> QED BY <1>4, <1>7, <2>1 DEF Body, r
<1>8. CASE ~Skipped(file[r])
  <2>1. Parses' = Parses \cup {r}
    BY <1>5, <1>8
  <2>2. \A i \in Parses : (\E j \in Parses \cup {r} : j < i) <=> \E j \in Parses : j < i
    BY <1>1, <1>6
  <2>3. (\E j \in Parses \cup {r} : j < r) <=> Parses # {}
    <3>1. ~(r < r)
      BY DEF r
    <3>2. \A j \in Parses : j < r
      BY <1>1, <1>6
    <3> QED BY <3>1, <3>2
  <2>4. Body' = IF options.hasHeader /\ Parses = {} THEN Body ELSE Body \cup {r}
    BY <1>4, <2>1, <2>2, <2>3 DEF Body
  <2> QED BY <1>8, <2>1, <2>4 DEF r
<1> QED BY <1>7, <1>8

LEMMA ReportIsOfAllStays ==
  ASSUME ReportIsOfAll, file' = file, report' = report, options'.hasHeader = options.hasHeader
  PROVE  ReportIsOfAll'
<1>1. AllRows' = AllRows
  BY DEF AllRows
<1> QED BY <1>1 DEF ReportIsOfAll

\* While it reads on, only what it has made of the lines can change.
LEMMA ReadsOn ==
  ASSUME ReportInv, TransformInv, Reading("csv.transform"),
         UNCHANGED <<file, options, report, status>>,
         ParserSoFar', OutputSoFar', OutIsWhole'
  PROVE  TransformInv'
<1>1. status'["csv.transform"] = "reading" /\ status["csv.transform"] = "reading"
  BY DEF Reading
<1>2. (status["csv.validate"] = "ended" => ReportIsOfAll)'
  BY ReportIsOfAllStays DEF TransformInv
<1>3. ReportPredictsTransform' /\ ~Validating'
  BY <1>1 DEF ReportPredictsTransform, Validating
<1> QED BY <1>1, <1>2, <1>3 DEF TransformInv, OutIsWhole

\* Why a transform is refused.
LEMMA Refused ==
  ASSUME ReportInv, TransformInv, Reading("csv.transform"),
         UNCHANGED <<file, options, report, out>>, EndsAs("csv.transform", "invalid"),
         \/ status["csv.validate"] = "invalid" \/ report.inconsistentRows > 0
         \/ options.trim /\ (Skipped(file[1]) => "" \notin ToSet(options.columns))
              => options.columns # <<>> /\ ToSet(options.columns) \cap ToSet(report.columns) = {}
  PROVE  TransformInv'
<1>1. /\ status'["csv.transform"] = "invalid" /\ status["csv.transform"] = "reading"
      /\ status'["csv.validate"] = status["csv.validate"]
  BY StatusIs DEF Reading, CsvOps
<1>2. (status["csv.validate"] = "ended" => ReportIsOfAll)'
  BY <1>1, ReportIsOfAllStays DEF TransformInv
<1>3. (Skipped(file[1]) <=> Skipped(file[1])')
  BY DEF Skipped, Parsed
<1>4. ReportPredictsTransform'
  BY <1>1, <1>3 DEF ReportPredictsTransform
<1>5. ~Validating' /\ ~Transforming' /\ OutputSoFar'
  BY <1>1 DEF Validating, Transforming, OutputSoFar
<1> QED BY <1>1, <1>2, <1>4, <1>5 DEF TransformInv

\* What depends on the header and the options alone.
LEMMA SameHead ==
  ASSUME file' = file, options' = options, head' = head
  PROVE  /\ Available' = Available
         /\ \A i : Parsed(file[i])' = Parsed(file[i])
         /\ \A row, name : Named(row, name)' = Named(row, name)
         /\ {n \in ToSet(head) : AskedFor(n)}' = {n \in ToSet(head) : AskedFor(n)}
<1>1. {n \in ToSet(head) : AskedFor(n)}' = {n \in ToSet(head) : AskedFor(n)}
  BY DEF AskedFor
<1> QED BY <1>1 DEF Available, Entries, Rank, Parsed, Named

LEMMA LineSkipped ==
  ASSUME ReportInv, TransformInv, SkipLine
  PROVE  TransformInv'
<1>1. /\ Reading("csv.transform") /\ Skipped(Line) /\ read' = read + 1
      /\ UNCHANGED <<file, options, status, report, head, tally, out>>
  BY DEF SkipLine
<1>2. /\ ParserSoFar /\ ~Ended /\ Len(file) \in Nat /\ read \in Nat
      /\ read + 1 \in 1..Len(file) /\ Line = file[read + 1]
  BY <1>1, LineAt
<1>3. Parses' = Parses /\ Body' = Body
  BY <1>1, <1>2, ParsesGrow
<1>4. /\ Available' = Available
      /\ \A i : Parsed(file[i])' = Parsed(file[i])
      /\ \A row, name : Named(row, name)' = Named(row, name)
      /\ {n \in ToSet(head) : AskedFor(n)}' = {n \in ToSet(head) : AskedFor(n)}
  BY <1>1, SameHead
<1>5. KeptRows' = KeptRows
  BY <1>1, <1>3, <1>4 DEF KeptRows
<1>6. ParserSoFar'
  BY <1>1, <1>2, <1>3, <1>4 DEF ParserSoFar, Ended
<1>7. \A i : Written(Parsed(file[i]))' = Written(Parsed(file[i]))
  BY <1>1, <1>4 DEF Written, Selected
<1>8. OutputSoFar'
  BY <1>1, <1>3, <1>4, <1>5, <1>7 DEF TransformInv, Cut, OutputSoFar, Transforming, Rank
<1>9. OutIsWhole'
  BY <1>1 DEF TransformInv, OutIsWhole
<1> QED BY <1>1, <1>6, <1>8, <1>9, ReadsOn

\* The first row the parser does not skip makes the head, and the others are as wide.
LEMMA NextRowParsed ==
  ASSUME ReportInv, TransformInv, Reading("csv.transform"), ~Skipped(Line),
         file' = file, options' = options, status' = status, read' = read + 1,
         head' = IF head = <<>> THEN Parsed(Line) ELSE head,
         head # <<>> => Len(Line) = Len(head)
  PROVE  /\ Parses' = Parses \cup {read + 1}
         /\ Body' = IF options.hasHeader /\ Parses = {} THEN Body ELSE Body \cup {read + 1}
         /\ read' \in 0..Len(file') /\ ~Ended'
         /\ head' = <<>> <=> Parses' = {}
         /\ \A i \in Parses' : /\ Len(file'[i]) = Len(head')
                               /\ (\A j \in Parses' : i <= j) => head' = Parsed(file[i])'
<1> DEFINE r == read + 1
<1>1. /\ ParserSoFar /\ ~Ended /\ Len(file) \in Nat /\ read \in Nat
      /\ r \in 1..Len(file) /\ Line = file[r] /\ Line \in Seq(STRING) /\ Len(Line) \in Nat \ {0}
  BY LineAt
<1>2. /\ Parses' = Parses \cup {r}
      /\ Body' = IF options.hasHeader /\ Parses = {} THEN Body ELSE Body \cup {r}
  BY <1>1, ParsesGrow
<1>3. /\ Len(Parsed(Line)) = Len(Line)
      /\ head = <<>> <=> Parses = {}
      /\ \A i \in Parses : /\ Len(file[i]) = Len(head)
                           /\ (\A j \in Parses : i <= j) => head = Parsed(file[i])
  BY <1>1, ParsedIs DEF ParserSoFar
<1>4. head' # <<>> /\ Len(head') = Len(Line)
  BY <1>1, <1>3, EmptySeq
<1>5. \A i : Parsed(file[i])' = Parsed(file[i])
  BY DEF Parsed
<1>6. Parses \subseteq Nat /\ \A i \in Parses : i < r
  BY <1>1 DEF Parses
<1>7. \A i \in Parses' : Len(file'[i]) = Len(head')
  BY <1>1, <1>2, <1>3, <1>4
<1>8. ASSUME NEW i \in Parses', \A j \in Parses' : i <= j
      PROVE  head' = Parsed(file[i])'
  <2>1. CASE Parses = {}
    <3>1. i = r /\ head' = Parsed(Line)
      BY <1>2, <1>3, <1>8, <2>1
    <3> QED BY <1>1, <1>5, <3>1
  <2>2. CASE Parses # {}
    <3>1. PICK j \in Parses : TRUE
      BY <2>2
    <3>2. i <= j /\ j < r
      BY <1>2, <1>6, <1>8, <3>1
    <3>3. i # r
      BY <1>1, <1>6, <3>2
    <3>4. i \in Parses /\ \A k \in Parses : i <= k
      BY <1>2, <1>8, <3>3
    <3> QED BY <1>3, <1>5, <2>2, <3>4
  <2> QED BY <2>1, <2>2
<1>9. read' \in 0..Len(file') /\ ~Ended'
  BY <1>1 DEF Ended
<1>10. Parses' # {}
  BY <1>2
<1> QED BY <1>2, <1>4, <1>7, <1>8, <1>9, <1>10

LEMMA HeaderTaken ==
  ASSUME ReportInv, TransformInv, TakeHeader
  PROVE  TransformInv'
<1>1. /\ Reading("csv.transform") /\ ~Skipped(Line) /\ options.hasHeader
      /\ head = <<>> /\ head' = Parsed(Line) /\ read' = read + 1
      /\ UNCHANGED <<file, options, status, report, tally, out>>
  BY DEF TakeHeader, NextRow
<1>2. /\ ParserSoFar /\ Transforming /\ ~Ended /\ read \in Nat /\ Parses = {}
  BY <1>1, LineAt DEF ParserSoFar
<1>3. /\ Body' = Body
      /\ read' \in 0..Len(file') /\ ~Ended'
      /\ head' = <<>> <=> Parses' = {}
      /\ \A i \in Parses' : /\ Len(file'[i]) = Len(head')
                            /\ (\A j \in Parses' : i <= j) => head' = Parsed(file[i])'
  BY <1>1, <1>2, NextRowParsed
<1>4. Body = {} /\ KeptRows = {} /\ KeptRows' = {}
  <2>1. Body = {}
    BY <1>2 DEF Body
  <2> QED BY <1>3, <2>1 DEF KeptRows
<1>5. tally.selected = <<>>
  BY <1>2, <1>4 DEF ParserSoFar
<1>6. ParserSoFar'
  BY <1>1, <1>2, <1>3, <1>4, <1>5 DEF ParserSoFar
<1>7. OutputSoFar'
  BY <1>1, <1>2, <1>3, <1>4 DEF TransformInv, OutputSoFar
<1>8. OutIsWhole'
  BY <1>1 DEF TransformInv, OutIsWhole
<1> QED BY <1>1, <1>6, <1>7, <1>8, ReadsOn

LEMMA ArrayPassed ==
  ASSUME ReportInv, TransformInv, PassArray
  PROVE  TransformInv'
<1>r. PICK r : r = read + 1
  OBVIOUS
<1> DEFINE row == Parsed(Line)
           w == Cut(row)
<1>1. /\ Reading("csv.transform") /\ ~Skipped(Line) /\ ~options.hasHeader
      /\ head # <<>> => Len(Line) = Len(head)
      /\ head' = IF head = <<>> THEN Parsed(Line) ELSE head
      /\ read' = r
      /\ UNCHANGED <<file, options, status, report>>
      /\ tally' = [tally EXCEPT !.seen = @ + 1, !.kept = @ + 1]
      /\ out' = Append(out, w)
  BY <1>r DEF PassArray, Reshaping, NextRow
<1>2. /\ ParserSoFar /\ Transforming /\ read \in Nat /\ Len(file) \in Nat
      /\ r \in 1..Len(file) /\ Line = file[r] /\ Line \in Seq(STRING) /\ Len(Line) \in Nat \ {0}
  BY <1>r, <1>1, LineAt
<1>3. /\ Parses' = Parses \cup {r} /\ Body' = Body \cup {r}
      /\ read' \in 0..Len(file') /\ ~Ended'
      /\ head' = <<>> <=> Parses' = {}
      /\ \A i \in Parses' : /\ Len(file'[i]) = Len(head')
                            /\ (\A j \in Parses' : i <= j) => head' = Parsed(file[i])'
  BY <1>r, <1>1, NextRowParsed
<1>4. /\ Body \subseteq Nat /\ IsFiniteSet(Body) /\ Cardinality(Body) \in Nat
      /\ r \in Nat /\ \A i \in Body : i < r
  <2>1. Body \subseteq 1..read
    BY DEF Parses, Body
  <2> QED BY <1>r, <1>2, <2>1, RowsAreNumbers
<1>5. KeptRows = Body /\ KeptRows' = Body \cup {r}
  BY <1>1, <1>3 DEF KeptRows
<1> DEFINE Grown == Body \cup {r}
<1>6. /\ Cardinality(Grown) = Cardinality(Body) + 1
      /\ Rank(r, Grown) = Cardinality(Body) + 1
      /\ \A i \in Body : Rank(i, Grown) = Rank(i, Body)
      /\ \A i \in Body : Rank(i, Body) \in 1..Cardinality(Body)
  BY <1>4, RankGrows, RankIs
<1>7. /\ tally.seen = Cardinality(Body) /\ tally.kept + tally.dropped = tally.seen
      /\ tally.kept = Cardinality(Body) /\ Len(out) = tally.kept
      /\ \A i \in Body : out[Rank(i, Body)] = Cut(Parsed(file[i]))
  BY <1>1, <1>2, <1>5 DEF TransformInv, OutputSoFar
<1>8. /\ tally = [count \in DOMAIN emptyTally |-> tally[count]] /\ tally.dropped \in Nat
      /\ tally.selected = <<>>
  BY <1>1, <1>2 DEF ParserSoFar
<1>9. /\ tally' = [count \in DOMAIN emptyTally |-> tally'[count]]
      /\ tally'.seen = tally.seen + 1 /\ tally'.kept = tally.kept + 1
      /\ tally'.dropped = tally.dropped /\ tally'.selected = tally.selected
  BY <1>1, <1>8 DEF emptyTally
<1>10. /\ Len(out') = Len(out) + 1
       /\ \A i \in 1..Len(out) : out'[i] = out[i]
       /\ out'[Len(out) + 1] = w
       /\ OutIsWhole'
  <2> HIDE DEF w
  <2>1. Len(out) \in Nat /\ out = [i \in 1..Len(out) |-> out[i]]
    BY DEF TransformInv
  <2> QED BY <1>1, <2>1, AnyAppended DEF OutIsWhole
<1>11. \A i : Cut(Parsed(file[i]))' = Cut(Parsed(file[i]))
  BY <1>1 DEF Cut, Parsed
<1>12. ParserSoFar'
  BY <1>1, <1>2, <1>3, <1>8, <1>9 DEF ParserSoFar
<1>13. \A i \in KeptRows' : out'[Rank(i, KeptRows)'] = Cut(Parsed(file[i]))'
  <2>1. \A i : Rank(i, KeptRows)' = Rank(i, Grown)
    BY <1>5 DEF Rank
  <2>2. out'[Rank(r, KeptRows)'] = Cut(Parsed(file[r]))'
    <3>1. out'[Rank(r, KeptRows)'] = w
      <4> HIDE DEF w, Grown
      <4> QED BY <1>6, <1>7, <1>10, <2>1
    <3>2. Cut(Parsed(file[r])) = w
      BY <1>2
    <3> QED BY <1>11, <3>1, <3>2
  <2>3. ASSUME NEW i \in Body PROVE out'[Rank(i, KeptRows)'] = Cut(Parsed(file[i]))'
    <3>1. Rank(i, KeptRows)' = Rank(i, Body) /\ Rank(i, Body) \in 1..Len(out)
      BY <1>6, <1>7, <2>1
    <3>2. out'[Rank(i, KeptRows)'] = out[Rank(i, Body)]
      <4> HIDE DEF w, Grown
      <4> QED BY <1>10, <3>1
    <3> QED BY <1>7, <1>11, <3>2
  <2> QED BY <1>5, <2>2, <2>3
<1>14. /\ tally'.seen = Cardinality(Body') /\ tally'.kept + tally'.dropped = tally'.seen
       /\ tally'.kept = Cardinality(KeptRows') /\ Len(out') = tally'.kept
  <2> QED BY <1>3, <1>4, <1>5, <1>6, <1>7, <1>8, <1>9, <1>10
<1>15. OutputSoFar'
  BY <1>1, <1>13, <1>14 DEF OutputSoFar
<1> QED BY <1>1, <1>10, <1>12, <1>15, ReadsOn

LEMMA RowReshaped ==
  ASSUME ReportInv, TransformInv, Reshape
  PROVE  TransformInv'
<1>r. PICK r : r = read + 1
  OBVIOUS
<1> DEFINE row == Parsed(Line)
<1>0. PICK dropped \in BOOLEAN : dropped = Dropped(row)
  BY Zenon DEF Dropped
<1>1. /\ Reading("csv.transform") /\ ~Skipped(Line) /\ options.hasHeader
      /\ head # <<>> /\ head' = head /\ Len(Line) = Len(head)
      /\ read' = r
      /\ UNCHANGED <<file, options, status, report>>
      /\ Selected # <<>>
      /\ tally' = [seen |-> tally.seen + 1, kept |-> tally.kept + OneIf(~dropped),
                   dropped |-> tally.dropped + OneIf(dropped), selected |-> Selected]
      /\ out' = IF dropped THEN out ELSE Append(out, Written(row))
  BY <1>r, <1>0 DEF Reshape, Reshaping, NextRow, OneIf
<1>2. /\ ParserSoFar /\ Transforming /\ read \in Nat /\ Len(file) \in Nat
      /\ r \in 1..Len(file) /\ Line = file[r] /\ Line \in Seq(STRING)
  BY <1>r, <1>1, LineAt
<1>3. /\ Body' = Body \cup {r}
      /\ read' \in 0..Len(file') /\ ~Ended'
      /\ head' = <<>> <=> Parses' = {}
      /\ \A i \in Parses' : /\ Len(file'[i]) = Len(head')
                            /\ (\A j \in Parses' : i <= j) => head' = Parsed(file[i])'
  <2>1. Parses # {}
    BY <1>1, <1>2 DEF ParserSoFar
  <2> QED BY <1>r, <1>1, <2>1, NextRowParsed
<1>4. /\ Body \subseteq Nat /\ IsFiniteSet(Body) /\ Cardinality(Body) \in Nat
      /\ KeptRows \subseteq Body /\ IsFiniteSet(KeptRows) /\ Cardinality(KeptRows) \in Nat
      /\ r \in Nat /\ \A i \in Body : i < r
  <2>1. Body \subseteq 1..read
    BY DEF Parses, Body
  <2> QED BY <1>r, <1>2, <2>1, RowsAreNumbers
<1>5. /\ tally.seen = Cardinality(Body) /\ tally.kept + tally.dropped = tally.seen
      /\ tally.kept = Cardinality(KeptRows) /\ Len(out) = tally.kept
      /\ \A i \in KeptRows : out[Rank(i, KeptRows)] = Written(Parsed(file[i]))
      /\ tally.dropped \in Nat
      /\ tally.selected # <<>> <=> Body # {}
      /\ tally.selected # <<>> => /\ options.columns = <<>> => tally.selected = Available
                                 /\ ToSet(tally.selected) = {n \in ToSet(head) : AskedFor(n)}
  BY <1>1, <1>2 DEF TransformInv, OutputSoFar, ParserSoFar
<1>6. /\ tally' = [count \in DOMAIN emptyTally |-> tally'[count]]
      /\ tally'.seen = tally.seen + 1 /\ tally'.kept = tally.kept + OneIf(~dropped)
      /\ tally'.dropped = tally.dropped + OneIf(dropped) /\ tally'.selected = Selected
  BY <1>1 DEF emptyTally
<1>7. /\ Available' = Available
      /\ \A i : Parsed(file[i])' = Parsed(file[i])
      /\ \A values, name : Named(values, name)' = Named(values, name)
  BY <1>1, SameHead
<1>8. Selected' = Selected /\ \A values : Written(values)' = Written(values)
  <2>1. Selected' = Selected
    BY <1>1, <1>6 DEF Selected
  <2> QED BY <1>1, <1>7, <2>1 DEF Written
\* The first row has decided the columns for those before.
<1>9. Body # {} => Selected = tally.selected
  BY <1>5 DEF Selected
<1>10. KeptRows' = IF dropped THEN KeptRows ELSE KeptRows \cup {r}
  <2>1. \A i : i \in KeptRows' <=> /\ i \in Body \cup {r}
                               /\ \/ ~options.dropEmptyRows
                                  \/ \E n \in ToSet(Selected) : Named(Parsed(file[i]), n) # ""
    <3>1. /\ options' = options /\ options.hasHeader
          /\ Body' = Body \cup {r} /\ tally'.selected = Selected
      BY <1>1, <1>3, <1>6
    <3>2. \A i, n : Named(Parsed(file[i]), n)' = Named(Parsed(file[i]), n)
      BY <1>1 DEF Named, Parsed
    <3> QED BY <3>1, <3>2 DEF KeptRows
  <2>2. \A i : i \in KeptRows <=> /\ i \in Body
                              /\ \/ ~options.dropEmptyRows
                                 \/ \E n \in ToSet(Selected) : Named(Parsed(file[i]), n) # ""
    BY <1>1, <1>9 DEF KeptRows
  <2>3. dropped <=> ~(\/ ~options.dropEmptyRows
                      \/ \E n \in ToSet(Selected) : Named(Parsed(file[r]), n) # "")
    BY <1>0, <1>2 DEF Dropped, ToSet
  <2> HIDE DEF row
  <2> QED BY <2>1, <2>2, <2>3
<1>11. Len(out) \in Nat /\ out = [i \in 1..Len(out) |-> out[i]]
  BY DEF TransformInv
<1>12. Cardinality(Body') = Cardinality(Body) + 1
  BY <1>3, <1>4, RankGrows
<1>13. ParserSoFar'
  <2>1. Body' # {}
    BY <1>3
  <2>2. options.columns = <<>> => Selected = Available
    BY <1>5 DEF Selected
  <2>3. ToSet(Selected) = {n \in ToSet(head) : AskedFor(n)}
    <3>1. CASE tally.selected # <<>>
      BY <1>5, <3>1 DEF Selected
    <3>2. CASE tally.selected = <<>>
      <4>1. Len(head) \in Nat /\ DOMAIN head = 1..Len(head)
        BY <1>1, <1>2, HeadIs
      <4> QED BY <1>1, <3>2, <4>1, SelectedAre DEF TransformInv
    <3> QED BY <3>1, <3>2
  <2>4. {n \in ToSet(head) : AskedFor(n)}' = {n \in ToSet(head) : AskedFor(n)}
    BY <1>1 DEF AskedFor
  <2> QED BY <1>1, <1>2, <1>3, <1>4, <1>5, <1>6, <1>7, <2>1, <2>2, <2>3, <2>4 DEF ParserSoFar, OneIf
<1>14. CASE dropped
  <2>1. KeptRows' = KeptRows /\ out' = out
    BY <1>1, <1>10, <1>14
  <2>2. \A i \in KeptRows' : out'[Rank(i, KeptRows)'] = Written(Parsed(file[i]))'
    <3>1. ASSUME NEW i \in KeptRows PROVE out'[Rank(i, KeptRows)'] = Written(Parsed(file[i]))'
      <4>1. Rank(i, KeptRows)' = Rank(i, KeptRows)
        BY <2>1 DEF Rank
      <4>2. Written(Parsed(file[i]))' = Written(Parsed(file[i]))
        BY <1>1, <1>7, <1>8 DEF Written
      <4> QED BY <1>5, <2>1, <4>1, <4>2
    <3> QED BY <2>1, <3>1
  <2>3. /\ tally'.seen = Cardinality(Body') /\ tally'.kept + tally'.dropped = tally'.seen
        /\ tally'.kept = Cardinality(KeptRows') /\ Len(out') = tally'.kept
    BY <1>4, <1>5, <1>6, <1>12, <1>14, <2>1 DEF OneIf
  <2>4. OutputSoFar'
    BY <1>1, <2>2, <2>3 DEF OutputSoFar
  <2>5. OutIsWhole'
    BY <1>11, <2>1 DEF OutIsWhole
  <2> QED BY <1>1, <1>13, <2>4, <2>5, ReadsOn
<1>15. CASE ~dropped
  <2> DEFINE Grown == KeptRows \cup {r}
             w == Written(row)
  <2>1. KeptRows' = Grown /\ out' = Append(out, w)
    BY <1>1, <1>10, <1>15
  <2>2. /\ KeptRows \subseteq Nat /\ \A i \in KeptRows : i < r
    BY <1>4
  <2>3. /\ Cardinality(Grown) = Cardinality(KeptRows) + 1
        /\ Rank(r, Grown) = Cardinality(KeptRows) + 1
        /\ \A i \in KeptRows : Rank(i, Grown) = Rank(i, KeptRows)
        /\ \A i \in KeptRows : Rank(i, KeptRows) \in 1..Cardinality(KeptRows)
    BY <1>4, <2>2, RankGrows, RankIs
  <2>4. /\ Len(out') = Len(out) + 1
        /\ \A i \in 1..Len(out) : out'[i] = out[i]
        /\ out'[Len(out) + 1] = w
        /\ OutIsWhole'
    <3> HIDE DEF w
    <3> QED BY <1>11, <2>1, AnyAppended DEF OutIsWhole
  <2>5. \A i : Rank(i, KeptRows)' = Rank(i, Grown)
    BY <2>1 DEF Rank
  <2>6. \A i : Written(Parsed(file[i]))' = Written(Parsed(file[i]))
    BY <1>1, <1>7, <1>8 DEF Written
  <2>7. out'[Rank(r, KeptRows)'] = Written(Parsed(file[r]))'
    <3>1. out'[Rank(r, KeptRows)'] = w
      <4> HIDE DEF w, Grown
      <4> QED BY <1>5, <2>3, <2>4, <2>5
    <3>2. Written(Parsed(file[r])) = w
      BY <1>2
    <3> QED BY <2>6, <3>1, <3>2
  <2>8. ASSUME NEW i \in KeptRows PROVE out'[Rank(i, KeptRows)'] = Written(Parsed(file[i]))'
    <3>1. Rank(i, KeptRows)' = Rank(i, KeptRows) /\ Rank(i, KeptRows) \in 1..Len(out)
      BY <1>5, <2>3, <2>5
    <3>2. out'[Rank(i, KeptRows)'] = out[Rank(i, KeptRows)]
      <4> HIDE DEF w, Grown
      <4> QED BY <2>4, <3>1
    <3> QED BY <1>5, <2>6, <3>2
  <2>9. \A i \in KeptRows' : out'[Rank(i, KeptRows)'] = Written(Parsed(file[i]))'
    BY <2>1, <2>7, <2>8
  <2>10. /\ tally'.seen = Cardinality(Body') /\ tally'.kept + tally'.dropped = tally'.seen
         /\ tally'.kept = Cardinality(KeptRows') /\ Len(out') = tally'.kept
    <3> HIDE DEF w, Grown
    <3> QED BY <1>4, <1>5, <1>6, <1>12, <1>15, <2>1, <2>3, <2>4 DEF OneIf
  <2>11. OutputSoFar'
    BY <1>1, <2>9, <2>10 DEF OutputSoFar
  <2> QED BY <1>1, <1>13, <2>4, <2>11, ReadsOn
<1> QED BY <1>14, <1>15

-----------------------------------------------------------------------------
(* Why csv.transform refuses.                                              *)

LEMMA RaggedRefused ==
  ASSUME ReportInv, TransformInv, Ragged
  PROVE  TransformInv'
<1>1. /\ Reading("csv.transform") /\ head # <<>> /\ Len(Line) # Len(head)
      /\ EndsAs("csv.transform", "invalid") /\ UNCHANGED <<file, options, report, out>>
  BY DEF Ragged, NextRow
<1>2. /\ ParserSoFar /\ Len(file) \in Nat /\ read \in Nat
      /\ read + 1 \in 1..Len(file) /\ Line = file[read + 1]
  BY <1>1, LineAt
<1>3. status["csv.validate"] = "invalid" \/ (status["csv.validate"] = "ended" /\ ReportIsOfAll)
  BY <1>1 DEF TransformInv, Reading
<1>4. ASSUME ReportIsOfAll PROVE report.inconsistentRows > 0
  <2>1. PICK i \in Parses : Len(file[i]) = Len(head)
    BY <1>1, <1>2 DEF ParserSoFar
  <2>2. i \in 1..Len(file) /\ DOMAIN file = 1..Len(file)
    <3>1. DOMAIN file = 1..Len(file)
      BY LenProperties DEF ReportInv
    <3> QED BY <1>2, <3>1 DEF Parses
  <2>3. report.inconsistentRows # 0
    BY <1>1, <1>2, <1>4, <2>1, <2>2 DEF ReportIsOfAll
  <2> QED BY <1>4, <2>3 DEF ReportIsOfAll
<1> QED BY <1>1, <1>3, <1>4, Refused

LEMMA TooManyRefused ==
  ASSUME ReportInv, TransformInv, TooManyRows
  PROVE  TransformInv'
<1> DEFINE r == read + 1
<1>1. /\ Reading("csv.transform") /\ (head = <<>> => ~options.hasHeader)
      /\ tally.seen = MaxRows
      /\ EndsAs("csv.transform", "invalid") /\ UNCHANGED <<file, options, report, out>>
  BY DEF TooManyRows, Reshaping, NextRow
<1>2. /\ ParserSoFar /\ Transforming /\ Len(file) \in Nat /\ read \in Nat /\ r \in 1..Len(file)
  BY <1>1, LineAt
<1>3. status["csv.validate"] = "invalid" \/ (status["csv.validate"] = "ended" /\ ReportIsOfAll)
  BY <1>1 DEF TransformInv, Reading
<1>4. ASSUME ReportIsOfAll PROVE FALSE
  <2>1. DOMAIN file = 1..Len(file)
    BY LenProperties DEF ReportInv
  <2>2. options.hasHeader => Parses # {}
    BY <1>1, <1>2 DEF ParserSoFar
  <2>3. Parses \subseteq 1..read /\ Body \subseteq Parses
        /\ \A i \in Body : options.hasHeader => \E j \in Parses : j < i
    BY DEF Parses, Body
  <2>4. \A i \in Parses : i \in 1..Len(file) /\ i < r /\ 1 <= i
    BY <1>2, <2>3
  <2>5. Body \cup {r} \subseteq AllRows
    <3>1. ASSUME NEW i \in Body PROVE i \in AllRows
      <4>1. options.hasHeader => i > 1
        BY <2>3, <2>4
      <4> QED BY <2>1, <2>3, <2>4, <4>1 DEF AllRows
    <3>2. options.hasHeader => r > 1
      BY <1>2, <2>2, <2>4
    <3> QED BY <1>2, <2>1, <3>1, <3>2 DEF AllRows
  <2>6. IsFiniteSet(AllRows)
    <3>1. IsFiniteSet(1..Len(file))
      BY <1>2, FS_Interval
    <3>2. AllRows \in SUBSET (1..Len(file))
      BY <2>1 DEF AllRows
    <3> QED BY <3>1, <3>2, FS_Subset
  <2>8. /\ Body \subseteq Nat /\ IsFiniteSet(Body) /\ r \in Nat /\ \A i \in Body : i < r
        /\ Cardinality(Body) \in Nat
    BY <1>2, <2>3, <2>4, RowsAreNumbers
  <2> DEFINE more == Body \cup {r}
  <2>9. Cardinality(more) = Cardinality(Body) + 1
    BY <2>8, RankGrows
  <2> HIDE DEF more
  <2>7. more \in SUBSET AllRows
    BY <2>5 DEF more
  <2>10. Cardinality(more) <= Cardinality(AllRows) /\ Cardinality(AllRows) \in Nat
    BY <2>6, <2>7, FS_Subset, FS_CardinalityType
  <2>11. Cardinality(Body) = MaxRows /\ Cardinality(AllRows) <= MaxRows
    BY <1>1, <1>2, <1>4 DEF TransformInv, OutputSoFar, ReportIsOfAll
  <2>12. Cardinality(Body) \in Nat
    BY <2>8
  <2> QED BY <2>9, <2>10, <2>11, <2>12
<1> QED BY <1>1, <1>3, <1>4, Refused

LEMMA ColumnsRefused ==
  ASSUME ReportInv, TransformInv, NoSuchColumn
  PROVE  TransformInv'
<1>1. /\ Reading("csv.transform") /\ options.hasHeader /\ head # <<>> /\ Selected = <<>>
      /\ EndsAs("csv.transform", "invalid") /\ UNCHANGED <<file, options, report, out>>
  BY DEF NoSuchColumn, Reshaping, NextRow
<1>2. ParserSoFar /\ Len(file) \in Nat /\ read \in Nat /\ read + 1 \in 1..Len(file)
  BY <1>1, LineAt
<1>3. status["csv.validate"] = "invalid" \/ (status["csv.validate"] = "ended" /\ ReportIsOfAll)
  BY <1>1 DEF TransformInv, Reading
<1>4. Parses # {} /\ Parses \subseteq Nat /\ Parses \subseteq 1..read
  BY <1>1, <1>2 DEF ParserSoFar, Parses
<1>5. PICK first \in Parses : \A j \in Parses : first <= j
  BY <1>4, LeastNat
<1>6. /\ first \in 1..Len(file) /\ file[first] \in Seq(STRING) /\ head = Parsed(file[first])
      /\ Len(file[first]) \in Nat \ {0}
  <2>1. first \in 1..Len(file) /\ head = Parsed(file[first])
    BY <1>2, <1>4, <1>5 DEF ParserSoFar
  <2> QED BY <2>1, LineIs DEF ReportInv
<1>7. DOMAIN head = 1..Len(file[first])
  BY <1>6, ParsedIs
<1>8. ToSet(Available) = ToSet(head) /\ Available # <<>>
  BY <1>6, <1>7, AvailableIs
<1>9. /\ options.columns # <<>>
      /\ \A i \in DOMAIN options.columns : options.columns[i] \notin ToSet(head)
  <2> DEFINE S == {i \in DOMAIN options.columns : options.columns[i] \in ToSet(Available)}
  <2>1. tally.selected = <<>> /\ options.columns # <<>> /\ Entries(options.columns, S) = <<>>
    BY <1>1, <1>8 DEF Selected
  <2>2. S \subseteq Nat /\ IsFiniteSet(S)
    <3>1. options.columns \in Seq(STRING)
      BY CsvAssumption DEF TransformInv, Option
    <3>2. Len(options.columns) \in Nat /\ DOMAIN options.columns = 1..Len(options.columns)
      BY <3>1, LenProperties
    <3>3. S \in SUBSET (1..Len(options.columns))
      BY <3>2
    <3>4. IsFiniteSet(1..Len(options.columns))
      BY <3>2, FS_Interval
    <3>5. S \subseteq Nat
      BY <3>2
    <3> HIDE DEF S
    <3> QED BY <3>3, <3>4, <3>5, FS_Subset
  <2>3. S = {}
    <3> HIDE DEF S
    <3> QED BY <2>1, <2>2, EntriesAre
  <2> QED BY <1>8, <2>1, <2>3
<1>10. ASSUME ReportIsOfAll, options.trim, Skipped(file[1]) => "" \notin ToSet(options.columns)
       PROVE  ToSet(options.columns) \cap ToSet(report.columns) = {}
  <2>1. 1 \in 1..Len(file) /\ file # <<>>
    BY <1>2, EmptySeq
  <2>2. report.columns = [i \in DOMAIN file[1] |-> trim(file[1][i])]
    BY <1>1, <1>10, <2>1 DEF ReportIsOfAll
  <2>3. Parsed(file[1]) = [i \in DOMAIN file[1] |-> trim(file[1][i])]
    BY <1>10 DEF Parsed
  <2>4. CASE 1 \in Parses
    <3>1. first = 1
      BY <1>4, <1>5, <2>4
    <3>2. report.columns = head
      BY <1>6, <2>2, <2>3, <3>1
    <3> QED BY <1>9, <3>2 DEF ToSet
  <2>5. CASE 1 \notin Parses
    <3>1. 1 \in 1..read
      BY <1>2, <1>4
    <3>2. Skipped(file[1])
      BY <2>5, <3>1 DEF Parses
    <3>3. report.columns = <<"">>
      BY <2>2, <2>3, <3>2 DEF Skipped
    <3>4. \A y \in ToSet(report.columns) : y = ""
      <4>1. DOMAIN <<"">> = {1} /\ <<"">>[1] = ""
        OBVIOUS
      <4>2. \A i \in DOMAIN report.columns : report.columns[i] = ""
        BY <3>3, <4>1
      <4> QED BY <4>2 DEF ToSet
    <3> QED BY <1>10, <3>2, <3>4
  <2> QED BY <2>4, <2>5
<1> QED BY <1>1, <1>3, <1>9, <1>10, Refused

-----------------------------------------------------------------------------
(* The invariant of the transform.                                         *)

\* What a transform has made of the same lines says the same.
LEMMA TransformStands ==
  ASSUME Transforming => ParserSoFar, OutputSoFar,
         UNCHANGED <<file, options, read, head, tally, out>>,
         Transforming' => Transforming, Ended' => Ended \/ read = Len(file)
  PROVE  (Transforming => ParserSoFar)' /\ OutputSoFar'
<1>1. /\ Available' = Available
      /\ \A i : Parsed(file[i])' = Parsed(file[i])
      /\ \A row, name : Named(row, name)' = Named(row, name)
      /\ {n \in ToSet(head) : AskedFor(n)}' = {n \in ToSet(head) : AskedFor(n)}
  BY SameHead
<1>2. Parses' = Parses
  BY DEF Parses, Skipped, Parsed
<1>3. Body' = Body
  BY <1>2 DEF Body
<1>4. KeptRows' = KeptRows
  BY <1>1, <1>3 DEF KeptRows
<1>5. Transforming' => ParserSoFar'
  BY <1>1, <1>2, <1>3 DEF ParserSoFar
<1>6. \A i : Written(Parsed(file[i]))' = Written(Parsed(file[i]))
  BY <1>1 DEF Written, Selected
<1>7. OutputSoFar'
  BY <1>1, <1>3, <1>4, <1>6 DEF OutputSoFar, Rank, Cut
<1> QED BY <1>5, <1>7

LEMMA TransformInvInit == Init => TransformInv
<1> SUFFICES ASSUME Init PROVE TransformInv
  OBVIOUS
<1>1. /\ options \in Option
      /\ status["csv.validate"] = "reading" /\ status["csv.transform"] = "waiting"
      /\ head = <<>> /\ tally = emptyTally /\ out = <<>> /\ report.rows = 0
  BY DEF Init, CsvOps, emptyReport
<1>2. report.rows <= MaxRows
  <2>1. MaxRows \in Nat
    BY CsvAssumption
  <2> QED BY <1>1, <2>1
<1>3. Len(out) \in Nat /\ out = [i \in 1..Len(out) |-> out[i]]
  <2>1. <<>> \in Seq(STRING) /\ Len(<<>>) = 0
    BY EmptySeq
  <2>2. <<>> = [i \in 1..0 |-> <<>>[i]]
    OBVIOUS
  <2> QED BY <1>1, <2>1, <2>2
<1> QED
  BY <1>1, <1>2, <1>3
     DEF TransformInv, Transforming, OutputSoFar, ReportPredictsTransform

\* csv.validate: no limit of the report is passed, and a report that ends is
\* about the whole file.
LEMMA ValidateSteps ==
  ASSUME ReportInv, TransformInv, InspectHeader \/ InspectRow \/ ValidateEnds
  PROVE  TransformInv'
<1>1. /\ status["csv.validate"] = "reading"
      /\ UNCHANGED <<file, options, head, tally, out>>
  BY DEF InspectHeader, InspectRow, ValidateEnds, Reading
<1>2. status["csv.transform"] = "waiting" /\ Validating /\ ReportSoFar
  BY <1>1 DEF TransformInv, ReportInv, Validating
<1>3. /\ status'["csv.transform"] = "waiting"
      /\ status'["csv.validate"] \in {"reading", "ended", "invalid"}
  <2>1. CASE status' = status
    BY <1>1, <1>2, <2>1
  <2>2. CASE EndsAs("csv.validate", "ended")
    BY <1>2, <2>2, StatusIs DEF CsvOps
  <2>3. CASE EndsAs("csv.validate", "invalid")
    BY <1>2, <2>3, StatusIs DEF CsvOps
  <2> QED BY <2>1, <2>2, <2>3 DEF InspectHeader, InspectRow, ValidateEnds
<1>4. /\ ~Transforming' /\ OutputSoFar' /\ ReportPredictsTransform'
  BY <1>3 DEF Transforming, OutputSoFar, ReportPredictsTransform
<1>5. SUFFICES /\ Validating' => report'.rows <= MaxRows
               /\ status'["csv.validate"] = "ended" => ReportIsOfAll'
  BY <1>1, <1>2, <1>3, <1>4 DEF TransformInv
<1>6. report.rows <= MaxRows /\ report = [field \in ReportFields |-> report[field]]
  BY <1>2 DEF TransformInv, ReportSoFar
<1>7. Len(file) \in Nat /\ read \in 0..Len(file) /\ DOMAIN file = 1..Len(file)
  BY <1>2, LenProperties DEF ReportInv, ReportSoFar
<1>8. IsFiniteSet(Rows) /\ Cardinality(Rows) \in Nat
  <2>1. IsFiniteSet(1..read)
    BY <1>7, FS_Interval
  <2>2. Rows \in SUBSET (1..read)
    BY DEF Rows
  <2> QED BY <2>1, <2>2, FS_Subset, FS_CardinalityType
<1>9. CASE InspectHeader
  <2>1. status' = status /\ report'.rows = report.rows
    BY <1>6, <1>9 DEF InspectHeader, ReportFields, emptyReport
  <2> QED BY <1>1, <1>6, <2>1
<1>10. CASE InspectRow
  <2>1. CASE report.rows = MaxRows
    <3>1. EndsAs("csv.validate", "invalid")
      BY <1>10, <2>1 DEF InspectRow
    <3>2. status'["csv.validate"] = "invalid"
      BY <3>1, StatusIs DEF CsvOps
    <3> QED BY <3>2 DEF Validating
  <2>2. CASE report.rows # MaxRows
    <3>1. status' = status /\ report' = Counted(Line, read + 1)
      BY <1>10, <2>2 DEF InspectRow
    <3>2. report'.rows = report.rows + 1
      BY <1>6, <3>1 DEF Counted, ReportFields, emptyReport
    <3>3. report.rows \in Nat
      BY <1>2, <1>8 DEF ReportSoFar, RowsAreCounted
    <3>4. MaxRows \in Nat
      BY CsvAssumption
    <3>5. report'.rows <= MaxRows
      BY <1>6, <2>2, <3>2, <3>3, <3>4
    <3> QED BY <1>1, <3>1, <3>5
  <2> QED BY <2>1, <2>2
<1>11. CASE ValidateEnds
  <2>1. read = Len(file) /\ report' = report
    BY <1>11 DEF ValidateEnds
  <2>2. Rows = AllRows
    BY <1>7, <2>1 DEF Rows, AllRows
  <2>3. report.rows = Cardinality(AllRows)
    BY <1>2, <2>2 DEF ReportSoFar, RowsAreCounted
  <2>4. /\ report.inconsistentRows \in Nat
        /\ report.inconsistentRows = 0 => \A i \in DOMAIN file : Len(file[i]) = Len(file[1])
    <3>1. Uneven \in SUBSET Rows
      BY DEF Uneven
    <3>2. /\ IsFiniteSet(Uneven) /\ Cardinality(Uneven) \in Nat
          /\ Cardinality(Uneven) = 0 => Uneven = {}
      BY <1>8, <3>1, FS_Subset, FS_CardinalityType, FS_EmptySet
    <3>3. report.inconsistentRows = Cardinality(Uneven)
      BY <1>2 DEF ReportSoFar, UnevenRowsAreCounted
    <3>4. ASSUME Uneven = {}, NEW i \in DOMAIN file PROVE Len(file[i]) = Len(file[1])
      <4>1. CASE i = 1
        BY <4>1
      <4>2. CASE i # 1
        <5>1. i \in Rows
          BY <1>7, <2>1, <4>2 DEF Rows
        <5> QED BY <3>4, <5>1 DEF Uneven
      <4> QED BY <4>1, <4>2
    <3> QED BY <3>2, <3>3, <3>4
  <2>5. report.emptyRows = 0 => \A i \in AllRows : Blank(file[i]) # DOMAIN file[i]
    <3>1. BlankRows \in SUBSET Rows
      BY DEF BlankRows
    <3>2. IsFiniteSet(BlankRows) /\ (Cardinality(BlankRows) = 0 => BlankRows = {})
      BY <1>8, <3>1, FS_Subset, FS_EmptySet
    <3>3. report.emptyRows = Cardinality(BlankRows)
      BY <1>2 DEF ReportSoFar, BlanksAreCounted
    <3>4. BlankRows = {} => \A i \in AllRows : Blank(file[i]) # DOMAIN file[i]
      BY <2>2 DEF BlankRows
    <3> QED BY <3>2, <3>3, <3>4
  <2>6. options.hasHeader /\ file # <<>> =>
          report.columns = [i \in DOMAIN file[1] |-> trim(file[1][i])]
    <3>1. file # <<>> => Len(file) # 0
      BY EmptySeq DEF ReportInv
    <3>2. file # <<>> => read > 0
      BY <1>7, <2>1, <3>1
    <3> QED BY <1>2, <3>2 DEF ReportSoFar
  <2>7. ReportIsOfAll
    BY <1>6, <2>3, <2>4, <2>5, <2>6 DEF ReportIsOfAll
  <2>8. ReportIsOfAll'
    BY <1>1, <2>1, <2>7, ReportIsOfAllStays
  <2> QED BY <1>6, <2>1, <2>8
<1> QED BY <1>9, <1>10, <1>11

\* A transform begins with nothing read.
LEMMA TransformAsked ==
  ASSUME ReportInv, TransformInv, Ask
  PROVE  TransformInv'
<1>1. /\ status["csv.validate"] \in {"ended", "invalid"} /\ status["csv.transform"] = "waiting"
      /\ options' \in Option /\ options'.hasHeader = options.hasHeader
      /\ EndsAs("csv.transform", "reading") /\ read' = 0
      /\ UNCHANGED <<file, report, head, tally, out>>
  BY DEF Ask
<1>2. /\ status'["csv.transform"] = "reading"
      /\ status'["csv.validate"] = status["csv.validate"]
  BY <1>1, StatusIs DEF CsvOps
<1>3. head' = <<>> /\ tally' = emptyTally /\ out' = <<>>
  BY <1>1 DEF TransformInv
<1>4. Parses' = {} /\ Body' = {} /\ KeptRows' = {}
  <2>1. Parses' = {}
    BY <1>1 DEF Parses
  <2>2. Body' = {}
    BY <2>1 DEF Body
  <2> QED BY <2>1, <2>2 DEF KeptRows
<1>5. Len(file) \in Nat /\ 0 \in 0..Len(file)
  BY LenProperties DEF ReportInv
<1>6. ~Ended' /\ ~Validating'
  BY <1>2 DEF Ended, Validating
<1>7. ParserSoFar'
  BY <1>1, <1>3, <1>4, <1>5, <1>6 DEF ParserSoFar, emptyTally
<1>8. OutputSoFar'
  <2>1. Cardinality({}) = 0
    BY FS_EmptySet
  <2>2. Len(<<>>) = 0
    BY EmptySeq
  <2> QED BY <1>3, <1>4, <2>1, <2>2 DEF OutputSoFar, emptyTally
<1>9. status'["csv.validate"] = "ended" => ReportIsOfAll'
  BY <1>1, <1>2, ReportIsOfAllStays DEF TransformInv
<1>10. ReportPredictsTransform'
  BY <1>2 DEF ReportPredictsTransform
<1>11. Len(out') \in Nat /\ out' = [i \in 1..Len(out') |-> out'[i]]
  BY <1>1 DEF TransformInv
<1> QED BY <1>1, <1>2, <1>6, <1>7, <1>8, <1>9, <1>10, <1>11 DEF TransformInv

LEMMA TransformDone ==
  ASSUME ReportInv, TransformInv, TransformEnds
  PROVE  TransformInv'
<1>1. /\ status["csv.transform"] = "reading" /\ read = Len(file)
      /\ EndsAs("csv.transform", "ended")
      /\ UNCHANGED <<file, options, read, report, head, tally, out>>
  BY DEF TransformEnds
<1>2. /\ status'["csv.transform"] = "ended"
      /\ status'["csv.validate"] = status["csv.validate"]
  BY <1>1, StatusIs DEF CsvOps
<1>3. (Transforming => ParserSoFar)' /\ OutputSoFar'
  BY <1>1, TransformStands DEF TransformInv, Transforming
<1>4. status'["csv.validate"] = "ended" => ReportIsOfAll'
  BY <1>1, <1>2, ReportIsOfAllStays DEF TransformInv
<1>5. ReportPredictsTransform' /\ ~Validating'
  BY <1>2 DEF ReportPredictsTransform, Validating
<1> QED BY <1>1, <1>2, <1>3, <1>4, <1>5 DEF TransformInv

LEMMA TransformInvStep == ReportInv /\ TransformInv /\ [Next]_vars => TransformInv'
<1> SUFFICES ASSUME ReportInv, TransformInv, [Next]_vars PROVE TransformInv'
  OBVIOUS
<1>1. CASE InspectHeader \/ InspectRow \/ ValidateEnds
  BY <1>1, ValidateSteps
<1>2. CASE Ask
  BY <1>2, TransformAsked
<1>3. CASE SkipLine
  BY <1>3, LineSkipped
<1>4. CASE TakeHeader
  BY <1>4, HeaderTaken
<1>5. CASE Ragged
  BY <1>5, RaggedRefused
<1>6. CASE TooManyRows
  BY <1>6, TooManyRefused
<1>7. CASE PassArray
  BY <1>7, ArrayPassed
<1>8. CASE NoSuchColumn
  BY <1>8, ColumnsRefused
<1>9. CASE Reshape
  BY <1>9, RowReshaped
<1>10. CASE TransformEnds
  BY <1>10, TransformDone
<1>11. CASE UNCHANGED vars
  <2>1. UNCHANGED <<file, options, read, status, report, head, tally, out>>
    BY <1>11 DEF vars
  <2>2. (Transforming => ParserSoFar)' /\ OutputSoFar'
    BY <2>1, TransformStands DEF TransformInv, Transforming, Ended
  <2>3. status'["csv.validate"] = "ended" => ReportIsOfAll'
    BY <2>1, ReportIsOfAllStays DEF TransformInv
  <2>4. Skipped(file[1])' <=> Skipped(file[1])
    BY <2>1 DEF Skipped, Parsed
  <2>5. ReportPredictsTransform'
    BY <2>1, <2>4 DEF TransformInv, ReportPredictsTransform
  <2> QED BY <2>1, <2>2, <2>3, <2>5 DEF TransformInv, Validating
<1> QED
  BY <1>1, <1>2, <1>3, <1>4, <1>5, <1>6, <1>7, <1>8, <1>9, <1>10, <1>11 DEF Next

\* What the parser, reshape and the stringifier have made of the lines so far,
\* and what the report said of them, is kept by every row.
THEOREM TransformInvHolds == Spec => []TransformInv
BY TransformInvInit, TransformInvStep, ReportInvHolds, PTL DEF Spec

\* Of the cells under one name the last is the row's value.
LEMMA LastCell ==
  ASSUME NEW n \in Nat, DOMAIN head = 1..n, NEW c \in 1..n
  PROVE  \E k \in 1..n : /\ head[k] = head[c]
                         /\ \A m \in 1..n : head[m] = head[c] => m <= k
                         /\ \A cells : Named(cells, head[c]) = cells[k]
<1> DEFINE same == {i \in 1..n : head[i] = head[c]}
           bounds == {b \in Nat : \A i \in same : i <= b}
<1>1. n \in bounds /\ bounds \subseteq Nat /\ c \in same /\ same \subseteq 1..n
  OBVIOUS
<1>2. PICK k \in bounds : \A b \in bounds : k <= b
  <2> HIDE DEF bounds
  <2> QED BY <1>1, LeastNat
<1>3. k \in same
  <2>1. SUFFICES ASSUME k \notin same PROVE FALSE
    OBVIOUS
  <2>2. k \in Nat /\ \A i \in same : i <= k /\ i # k /\ i \in Nat
    BY <1>1, <1>2, <2>1
  <2>3. k # 0 /\ \A i \in same : i <= k - 1
    BY <1>1, <2>2
  <2>4. k - 1 \in bounds
    BY <2>2, <2>3
  <2> QED BY <1>2, <2>2, <2>4
<1>4. \A m \in same : m <= k
  BY <1>2
<1>5. Max(same) = k
  <2>1. \A x \in same : (\A y \in same : x >= y) => x = k
    BY <1>1, <1>3, <1>4
  <2>2. k \in same /\ \A y \in same : k >= y
    BY <1>1, <1>3, <1>4
  <2> HIDE DEF same, bounds
  <2> QED BY <2>1, <2>2 DEF Max
<1>6. \A cells : Named(cells, head[c]) = cells[k]
  <2>1. {i \in DOMAIN head : head[i] = head[c]} = same /\ same # {}
    BY <1>3
  <2> HIDE DEF same
  <2> QED BY <1>5, <2>1 DEF Named
<1> QED BY <1>3, <1>4, <1>6

\* What reshape looks at to keep a row is what is wanted of it.
LEMMA KeptAreWanted ==
  ASSUME NEW n \in Nat, DOMAIN head = 1..n, NEW cells, NEW selected,
         selected = {name \in ToSet(head) : AskedFor(name)}
  PROVE  (\E name \in selected : Named(cells, name) # "") <=> \E k \in Wanted : cells[k] # ""
<1>1. ASSUME NEW name \in selected, Named(cells, name) # ""
      PROVE  \E k \in Wanted : cells[k] # ""
  <2>1. PICK c \in 1..n : head[c] = name
    BY DEF ToSet
  <2>2. PICK k \in 1..n : /\ head[k] = head[c]
                          /\ \A m \in 1..n : head[m] = head[c] => m <= k
                          /\ \A row : Named(row, head[c]) = row[k]
    BY LastCell
  <2>3. k \in Wanted
    BY <2>1, <2>2 DEF Wanted
  <2> QED BY <1>1, <2>1, <2>2, <2>3
<1>2. ASSUME NEW k \in Wanted, cells[k] # ""
      PROVE  \E name \in selected : Named(cells, name) # ""
  <2>1. /\ k \in 1..n /\ AskedFor(head[k])
        /\ \A m \in 1..n : head[m] = head[k] => m <= k
    BY DEF Wanted
  <2>2. PICK l \in 1..n : /\ head[l] = head[k]
                          /\ \A m \in 1..n : head[m] = head[k] => m <= l
                          /\ \A row : Named(row, head[k]) = row[l]
    BY <2>1, LastCell
  <2>3. l = k
    BY <2>1, <2>2
  <2>4. head[k] \in selected
    BY <2>1 DEF ToSet
  <2> QED BY <1>2, <2>2, <2>3, <2>4
<1> QED BY <1>1, <1>2

\* A row as the stringifier writes it has every wanted cell under its name.
LEMMA WrittenFills ==
  ASSUME NEW n \in Nat, DOMAIN head = 1..n, NEW cells,
         options.columns = <<>> => Selected = Available
  PROVE  Fills(Written(cells), cells)
<1>1. Written(cells) = [c \in DOMAIN Layout |-> Named(cells, Layout[c])]
  BY DEF Written, Layout
<1>2. \A c \in DOMAIN Layout : AskedFor(Layout[c])
  BY DEF Layout, AskedFor, ToSet
<1>3. ASSUME NEW c \in DOMAIN Layout, Layout[c] \in ToSet(head)
      PROVE  \E k \in Wanted : head[k] = Layout[c] /\ Named(cells, Layout[c]) = cells[k]
  <2>1. PICK d \in 1..n : head[d] = Layout[c]
    BY <1>3 DEF ToSet
  <2>2. PICK k \in 1..n : /\ head[k] = head[d]
                          /\ \A m \in 1..n : head[m] = head[d] => m <= k
                          /\ \A row : Named(row, head[d]) = row[k]
    BY LastCell
  <2>3. k \in Wanted
    BY <1>2, <2>1, <2>2 DEF Wanted
  <2> QED BY <2>1, <2>2, <2>3
<1>4. ASSUME NEW c \in DOMAIN Layout, Layout[c] \notin ToSet(head)
      PROVE  Named(cells, Layout[c]) = ""
  <2>1. {i \in DOMAIN head : head[i] = Layout[c]} = {}
    BY <1>4 DEF ToSet
  <2> QED BY <2>1 DEF Named
<1> QED BY <1>1, <1>3, <1>4 DEF Fills

\* A row that is cut to the number of columns is the beginning of itself.
LEMMA CutBegins ==
  ASSUME options \in Option, NEW S, NEW cells \in Seq(S)
  PROVE  Begins(Cut(cells), cells)
<1>1. CASE options.columns = <<>>
  BY <1>1 DEF Begins, Cut
<1>2. CASE options.columns # <<>>
  <2>1. options.columns \in Seq(STRING)
    BY CsvAssumption DEF Option
  <2>2. /\ Len(options.columns) \in Nat /\ Len(cells) \in Nat
        /\ DOMAIN cells = 1..Len(cells)
    BY <2>1, LenProperties
  <2>3. PICK m \in Nat : m = Min({Len(cells), Len(options.columns)}) /\ m <= Len(cells)
    BY <2>2, MinIs
  <2>4. Cut(cells) = SubSeq(cells, 1, m)
    BY <1>2, <2>3 DEF Cut
  <2>5. \A i \in 1..m : cells[i] \in S
    BY <2>2, <2>3, ElementOfSeq
  <2>6. /\ SubSeq(cells, 1, m) \in Seq(S)
        /\ Len(SubSeq(cells, 1, m)) = IF 1 <= m THEN m - 1 + 1 ELSE 0
        /\ \A i \in 1..m - 1 + 1 : SubSeq(cells, 1, m)[i] = cells[1 + i - 1]
    BY <2>5, SubSeqProperties
  <2>7. DOMAIN SubSeq(cells, 1, m) = 1..m
    BY <2>6, LenProperties
  <2>8. \A i \in 1..m : SubSeq(cells, 1, m)[i] = cells[i] /\ i \in DOMAIN cells
    BY <2>2, <2>3, <2>6
  <2> QED BY <1>2, <2>4, <2>7, <2>8 DEF Begins
<1> QED BY <1>1, <1>2

\* What reshape and the stringifier make of a row is what was wanted of it.
LEMMA OutputIsWanted ==
  ASSUME ReportInv, TransformInv
  PROVE  OutputIsProjection
<1>1. SUFFICES ASSUME Transforming PROVE OutputIsProjection
  BY DEF OutputIsProjection
<1>2. /\ ParserSoFar /\ OutputSoFar /\ options \in Option
  BY <1>1 DEF TransformInv
<1>3. CASE ~options.hasHeader
  <2>1. Keeps = Body /\ KeptRows = Body
    BY <1>3 DEF Keeps, KeptRows
  <2>2. ASSUME NEW i \in Body PROVE Begins(Cut(Parsed(file[i])), Parsed(file[i]))
    <3>1. i \in 1..Len(file)
      BY <1>2, LenProperties DEF Body, Parses, ParserSoFar, ReportInv
    <3>2. file[i] \in Seq(STRING)
      BY <3>1, LineIs DEF ReportInv
    <3> QED BY <1>2, <3>2, ParsedIs, CutBegins
  <2> QED BY <1>1, <1>2, <1>3, <2>1, <2>2 DEF OutputSoFar, OutputIsProjection
<1>4. CASE options.hasHeader /\ Body = {}
  <2>1. Keeps = {} /\ KeptRows = {}
    BY <1>4 DEF Keeps, KeptRows
  <2> QED BY <1>1, <1>2, <1>4, <2>1 DEF OutputSoFar, OutputIsProjection
<1>5. CASE options.hasHeader /\ Body # {}
  <2>1. tally.selected # <<>> /\ head # <<>>
    BY <1>2, <1>5 DEF ParserSoFar, Body
  <2>2. PICK n \in Nat : DOMAIN head = 1..n
    BY <1>2, <2>1, HeadIs
  <2>3. /\ Selected = tally.selected
        /\ ToSet(tally.selected) = {name \in ToSet(head) : AskedFor(name)}
        /\ options.columns = <<>> => Selected = Available
    BY <1>2, <2>1 DEF ParserSoFar, Selected
  <2>4. \A cells : (\E name \in ToSet(tally.selected) : Named(cells, name) # "")
                     <=> \E k \in Wanted : cells[k] # ""
    BY <2>2, <2>3, KeptAreWanted
  <2>5. Keeps = KeptRows
    BY <2>4 DEF Keeps, KeptRows
  <2>6. \A cells : Fills(Written(cells), cells)
    BY <2>2, <2>3, WrittenFills
  <2> QED BY <1>1, <1>2, <1>5, <2>5, <2>6 DEF OutputSoFar, OutputIsProjection
<1> QED BY <1>3, <1>4, <1>5

\* After every row, csv.transform has written the rows of the body in their
\* order, each with the cells wanted under the columns of the output and nothing
\* under those the file lacks, without the rows that are empty in all wanted
\* places, and its counts add up to that (transformCsv).
THEOREM OutputsAreProjections == Spec => []OutputIsProjection
<1>1. ReportInv /\ TransformInv => OutputIsProjection
  BY OutputIsWanted
<1> QED BY <1>1, ReportInvHolds, TransformInvHolds, PTL

\* A transform that trims is refused only for what the report says of the file.
THEOREM ReportsPredictTransforms == Spec => []ReportPredictsTransform
<1>1. TransformInv => ReportPredictsTransform
  BY DEF TransformInv
<1> QED BY <1>1, TransformInvHolds, PTL

-----------------------------------------------------------------------------
(* What a clean report promises.                                           *)

\* A row that is not blank is not skipped.
LEMMA NotBlankIsRead ==
  ASSUME NEW row \in Seq(STRING), Blank(row) # DOMAIN row
  PROVE  ~Skipped(row)
<1>1. SUFFICES ASSUME Skipped(row) PROVE FALSE
  OBVIOUS
<1>2. DOMAIN Parsed(row) = DOMAIN row
  BY DEF Parsed
<1>3. Parsed(row) = <<"">> /\ DOMAIN <<"">> = {1} /\ <<"">>[1] = ""
  <2>1. DOMAIN <<"">> = {1} /\ <<"">>[1] = ""
    OBVIOUS
  <2>2. Parsed(row) = <<"">>
    BY <1>1, Zenon DEF Skipped
  <2> QED BY <2>1, <2>2
<1>4. DOMAIN row = {1} /\ Parsed(row)[1] = ""
  BY <1>2, <1>3
<1>5. trim(row[1]) = ""
  BY <1>4, CsvAssumption DEF Parsed
<1> QED BY <1>4, <1>5 DEF Blank

\* A row with a value that is not blank is kept, when each name has one column.
LEMMA FullRowIsKept ==
  ASSUME NEW first \in Seq(STRING), NEW row \in Seq(STRING), Len(row) = Len(first),
         head = Parsed(first), IsInjective([i \in DOMAIN first |-> trim(first[i])]),
         Blank(row) # DOMAIN row
  PROVE  \E n \in ToSet(head) : Named(Parsed(row), n) # ""
<1>1. DOMAIN row = DOMAIN first /\ DOMAIN head = DOMAIN first /\ DOMAIN Parsed(row) = DOMAIN first
  BY LenProperties DEF Parsed
<1>2. PICK c \in DOMAIN row : trim(row[c]) # ""
  BY DEF Blank
<1>3. Parsed(row)[c] # ""
  BY <1>2, CsvAssumption DEF Parsed
<1>4. \A j \in DOMAIN first : head[j] = head[c] => j = c
  <2>1. \A i, j \in DOMAIN first : trim(first[i]) = trim(first[j]) => i = j
    BY DEF IsInjective
  <2>2. c \in DOMAIN first
    BY <1>1
  <2>3. \A j \in DOMAIN first : head[j] = IF options.trim THEN trim(first[j]) ELSE first[j]
    BY DEF Parsed
  <2> QED BY <2>1, <2>2, <2>3
<1>5. {j \in DOMAIN head : head[j] = head[c]} = {c}
  BY <1>1, <1>4
<1>6. Max({c}) = c
  <2>1. c \in Nat
    BY LenProperties
  <2> QED BY <2>1 DEF Max
<1>7. Named(Parsed(row), head[c]) = Parsed(row)[c]
  BY <1>5, <1>6 DEF Named
<1>8. head[c] \in ToSet(head)
  BY <1>1 DEF ToSet
<1> QED BY <1>3, <1>7, <1>8

LEMMA CleanIsWhole ==
  ASSUME ReportInv, TransformInv
  PROVE  CleanFileIsKeptWhole
<1>1. SUFFICES ASSUME Ended, status["csv.validate"] = "ended",
                      options.columns = <<>>, ~Skipped(file[1]), IsInjective(report.columns),
                      report.inconsistentRows = 0, report.emptyRows = 0
               PROVE  tally.kept = report.rows /\ tally.dropped = 0
  BY DEF CleanFileIsKeptWhole
<1>2. Transforming /\ ParserSoFar /\ ReportIsOfAll
  BY <1>1 DEF TransformInv, Transforming, Ended
<1>3. /\ Len(file) \in Nat /\ DOMAIN file = 1..Len(file) /\ read = Len(file) /\ read \in Nat
  BY <1>1, <1>2, LenProperties DEF ParserSoFar, ReportInv
<1>4. \A i \in 1..Len(file) : file[i] \in Seq(STRING)
  BY LineIs DEF ReportInv
<1>5. \A i \in AllRows : i \in Parses
  <2>1. ASSUME NEW i \in AllRows PROVE ~Skipped(file[i])
    <3>1. file[i] \in Seq(STRING) /\ Blank(file[i]) # DOMAIN file[i]
      BY <1>1, <1>2, <1>3, <1>4 DEF AllRows, ReportIsOfAll
    <3> QED BY <3>1, NotBlankIsRead
  <2> QED BY <1>3, <2>1 DEF AllRows, Parses
<1>6. file # <<>> => 1 \in Parses
  <2>1. file # <<>> => Len(file) # 0
    BY EmptySeq DEF ReportInv
  <2> QED BY <1>1, <1>3, <2>1 DEF Parses
<1>7. \A i \in Parses : i \in 1..Len(file) /\ file # <<>>
  <2>1. \A i \in Parses : i \in 1..Len(file)
    BY <1>3 DEF Parses
  <2>2. file = <<>> => Len(file) = 0
    BY EmptySeq
  <2> QED BY <1>3, <2>1, <2>2
<1>8. Body = AllRows
  <2>1. ASSUME NEW i \in Body PROVE i \in AllRows
    <3>1. i \in Parses /\ (options.hasHeader => \E j \in Parses : j < i)
      BY DEF Body
    <3> QED BY <1>3, <1>7, <3>1 DEF AllRows
  <2>2. ASSUME NEW i \in AllRows PROVE i \in Body
    <3>1. i \in Parses /\ 1 \in Parses /\ (options.hasHeader => 1 < i)
      BY <1>3, <1>5, <1>6, <1>7 DEF AllRows
    <3> QED BY <3>1 DEF Body
  <2> QED BY <2>1, <2>2
<1>9. KeptRows = Body
  <2>1. ASSUME options.hasHeader, NEW i \in Body
        PROVE  \E n \in ToSet(tally.selected) : Named(Parsed(file[i]), n) # ""
    <3>1. /\ i \in 1..Len(file) /\ file # <<>> /\ 1 \in 1..Len(file) /\ 1 \in Parses
          /\ i \in AllRows
      BY <1>3, <1>5, <1>6, <1>7, <1>8
    <3>2. head = Parsed(file[1])
      <4>1. \A j \in Parses : 1 <= j
        BY <1>3, <1>7
      <4> QED BY <1>2, <3>1, <4>1 DEF ParserSoFar
    <3>3. tally.selected = Available
      BY <1>1, <1>2, <2>1 DEF ParserSoFar
    <3>4. /\ file[1] \in Seq(STRING) /\ file[i] \in Seq(STRING)
          /\ Len(file[i]) = Len(file[1]) /\ Blank(file[i]) # DOMAIN file[i]
          /\ report.columns = [c \in DOMAIN file[1] |-> trim(file[1][c])]
      BY <1>1, <1>2, <1>3, <1>4, <2>1, <3>1 DEF ReportIsOfAll
    <3>5. ToSet(Available) = ToSet(head)
      <4>1. Len(file[1]) \in Nat /\ DOMAIN head = 1..Len(file[1])
        BY <3>2, <3>4, ParsedIs
      <4> QED BY <4>1, AvailableIs
    <3> QED BY <1>1, <3>2, <3>3, <3>4, <3>5, FullRowIsKept
  <2> QED BY <2>1 DEF KeptRows
<1>10. /\ tally.seen = Cardinality(Body) /\ tally.kept + tally.dropped = tally.seen
       /\ tally.kept = Cardinality(KeptRows) /\ tally.dropped \in Nat
       /\ report.rows = Cardinality(AllRows)
  BY <1>2 DEF TransformInv, OutputSoFar, ParserSoFar, ReportIsOfAll
<1>11. Cardinality(Body) \in Nat
  BY <1>3, RowsAreNumbers
<1> QED BY <1>8, <1>9, <1>10, <1>11

\* A file whose report is clean loses no row to a transform that keeps every column.
THEOREM CleanFilesAreKeptWhole == Spec => []CleanFileIsKeptWhole
<1>1. ReportInv /\ TransformInv => CleanFileIsKeptWhole
  BY CleanIsWhole
<1> QED BY <1>1, ReportInvHolds, TransformInvHolds, PTL
=============================================================================
