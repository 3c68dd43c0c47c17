------------------------------ MODULE CsvRows ------------------------------
(***************************************************************************)
(* What the two CSV operations (src/jobs/csv.ts) do with the rows of a     *)
(* file: `inspect`, which counts for csv.validate, and `reshape` with the  *)
(* stringifier behind it, which rewrites for csv.transform.  One action is *)
(* one row through the operation's stream.  Processors models the awaits   *)
(* and the failures around them; here every stream can be read.            *)
(*                                                                         *)
(* One file is validated and then transformed, with the same hasHeader, so *)
(* that what a report promises can be compared with what a transform does. *)
(* A row is the sequence of its cells.  csv-parse and csv-stringify are    *)
(* external, and modelled from the options the code gives them.            *)
(***************************************************************************)
EXTENDS Integers, Sequences, FiniteSets, SequencesExt, FiniteSetsExt

CONSTANTS File,         \* the files a client may upload: sequences of rows
          Columns,      \* what it may ask to keep; <<>> is everything
          MaxRows,      \* MAX_ROWS
          MaxExamples,  \* the inconsistent rows a report names: 5 in the code
          trim(_)       \* String.prototype.trim

ASSUME CsvAssumption == /\ \A f \in File : f \in Seq(Seq(STRING) \ {<<>>})
                        /\ \A c \in Columns : c \in Seq(STRING)
                        /\ MaxRows \in Nat /\ MaxExamples \in Nat
                        /\ trim("") = ""

VARIABLES
  file,     \* the file
  options,  \* hasHeader; trim, dropEmptyRows and columns of the transform
  read,     \* how many of its lines the operation at work has read
  status,   \* where each operation is
  report,   \* the report of csv.validate
  head,     \* the parser of csv.transform: its header row, or the first row
  tally,    \* reshape's seen, kept, dropped and selectedColumns
  out       \* the rows the stringifier has written, without their header

vars == <<file, options, read, status, report, head, tally, out>>

CsvOps == {"csv.validate", "csv.transform"}
Option == [hasHeader : BOOLEAN, trim : BOOLEAN, dropEmptyRows : BOOLEAN, columns : Columns]

Blank(row) == {i \in DOMAIN row : trim(row[i]) = ""}

-----------------------------------------------------------------------------
(* csv.validate                                                            *)

emptyReport == [rows |-> 0, columns |-> <<>>, columnCount |-> 0,
                inconsistentRows |-> 0, inconsistentExamples |-> <<>>,
                emptyByColumn |-> <<>>, emptyRows |-> 0]

Reading(op) == status[op] = "reading" /\ read < Len(file)
Line == file[read + 1]

EndsAs(op, verdict) == status' = [status EXCEPT ![op] = verdict]

InspectHeader ==
    /\ Reading("csv.validate") /\ read = 0 /\ options.hasHeader
    /\ LET names == [i \in DOMAIN Line |-> trim(Line[i])] IN
         report' = [report EXCEPT !.columns = names,
                                  !.columnCount = Len(Line),
                                  !.emptyByColumn = [name \in ToSet(names) |-> 0]]
    /\ read' = 1
    /\ UNCHANGED <<file, options, status, head, tally, out>>

OneIf(condition) == IF condition THEN 1 ELSE 0

\* Mutant: the width is that of the row before.
CountedFromLastRow(row, number) ==
    LET odd == report.columnCount > 0 /\ Len(row) # report.columnCount
    IN  [report EXCEPT !.rows = @ + 1, !.columnCount = Len(row), !.inconsistentRows = @ + OneIf(odd)]

\* `inspect` on a row that is no header.
Counted(row, number) ==
    LET width == IF report.columnCount = 0 THEN Len(row) ELSE report.columnCount
        odd == Len(row) # width
        named(name) == {i \in Blank(row) : i \in DOMAIN report.columns /\ report.columns[i] = name}
    IN  [report EXCEPT
           !.rows = @ + 1,
           !.columnCount = width,
           !.inconsistentRows = @ + OneIf(odd),
           !.inconsistentExamples = IF odd /\ Len(@) < MaxExamples THEN Append(@, number) ELSE @,
           !.emptyByColumn = [name \in DOMAIN @ |-> @[name] + Cardinality(named(name))],
           !.emptyRows = @ + OneIf(Blank(row) = DOMAIN row)]

InspectRow ==
    /\ Reading("csv.validate") /\ (read > 0 \/ ~options.hasHeader)
    /\ IF report.rows = MaxRows
         THEN /\ report' = [report EXCEPT !.rows = @ + 1]
              /\ EndsAs("csv.validate", "invalid")
         ELSE report' = Counted(Line, read + 1) /\ UNCHANGED status
    /\ read' = read + 1
    /\ UNCHANGED <<file, options, head, tally, out>>

ValidateEnds ==
    /\ status["csv.validate"] = "reading" /\ read = Len(file)
    /\ EndsAs("csv.validate", "ended")
    /\ UNCHANGED <<file, options, read, report, head, tally, out>>

-----------------------------------------------------------------------------
(* csv.transform                                                           *)

\* The client looks at the report, and asks for a transform.
Ask == /\ status["csv.validate"] \in {"ended", "invalid"} /\ status["csv.transform"] = "waiting"
       /\ \E o \in Option : o.hasHeader = options.hasHeader /\ options' = o
       /\ EndsAs("csv.transform", "reading")
       /\ read' = 0
       /\ UNCHANGED <<file, report, head, tally, out>>

\* csv-parse: `trim`, then `skip_empty_lines`; a row must be as wide as the
\* first; with `columns` that one is the header, and the rows after it are
\* objects, in which the last of two columns of one name wins.
Parsed(row) == [i \in DOMAIN row |-> IF options.trim THEN trim(row[i]) ELSE row[i]]
Skipped(row) == Parsed(row) = <<"">>

Named(row, name) ==
    LET at == {i \in DOMAIN head : head[i] = name} IN IF at = {} THEN "" ELSE row[Max(at)]

NextRow == Reading("csv.transform") /\ ~Skipped(Line)

SkipLine == /\ Reading("csv.transform") /\ Skipped(Line)
            /\ read' = read + 1
            /\ UNCHANGED <<file, options, status, report, head, tally, out>>

TakeHeader == /\ NextRow /\ options.hasHeader /\ head = <<>>
              /\ head' = Parsed(Line)
              /\ read' = read + 1
              /\ UNCHANGED <<file, options, status, report, tally, out>>

Ragged == /\ NextRow /\ head # <<>> /\ Len(Line) # Len(head)
          /\ EndsAs("csv.transform", "invalid")
          /\ UNCHANGED <<file, options, read, report, head, tally, out>>

\* A row the parser lets through to `reshape`.
Reshaping == /\ NextRow
             /\ IF head = <<>> THEN ~options.hasHeader ELSE Len(Line) = Len(head)
             /\ read' = read + 1
             /\ head' = IF head = <<>> THEN Parsed(Line) ELSE head
             /\ UNCHANGED <<file, options, report>>

TooManyRows == /\ Reshaping /\ tally.seen = MaxRows
               /\ tally' = [tally EXCEPT !.seen = @ + 1]
               /\ EndsAs("csv.transform", "invalid")
               /\ UNCHANGED out

\* Without headers a row goes to the stringifier as it is, which cuts it to
\* the width of the columns it was given.
Cut(row) == IF options.columns = <<>> THEN row
            ELSE SubSeq(row, 1, Min({Len(row), Len(options.columns)}))

PassArray ==
    /\ Reshaping /\ ~options.hasHeader /\ tally.seen < MaxRows
    /\ tally' = [tally EXCEPT !.seen = @ + 1, !.kept = @ + 1]
    /\ out' = Append(out, Cut(Parsed(Line)))
    /\ UNCHANGED status

\* The number of i among the members of S, and the entries of a sequence whose
\* places are in S, in their order.
Rank(i, S) == Cardinality({j \in S : j <= i})
Entries(seq, S) == [k \in 1..Cardinality(S) |-> seq[CHOOSE i \in S : Rank(i, S) = k]]

\* The names of a row, each where it is first.
Available == Entries(head, {i \in DOMAIN head : \A j \in DOMAIN head : head[j] = head[i] => i <= j})

\* Mutant: a request is honoured only if all of it exists.
SelectedIfAll ==
    IF options.columns = <<>> THEN Available
    ELSE IF ToSet(options.columns) \subseteq ToSet(head) THEN options.columns ELSE <<>>

\* selectedColumns, which the first row decides.
Selected == IF tally.selected # <<>> THEN tally.selected
            ELSE IF options.columns = <<>> THEN Available
            ELSE Entries(options.columns,
                         {i \in DOMAIN options.columns : options.columns[i] \in ToSet(Available)})

NoSuchColumn == /\ Reshaping /\ options.hasHeader /\ tally.seen < MaxRows
                /\ Selected = <<>>
                /\ tally' = [tally EXCEPT !.seen = @ + 1]
                /\ EndsAs("csv.transform", "invalid")
                /\ UNCHANGED out

\* Mutant: it writes the columns that were found.
WrittenIfFound(row) == [i \in DOMAIN Selected |-> Named(row, Selected[i])]

\* The stringifier writes the columns asked for, or those of the first row,
\* and nothing under one the row does not have.
Written(row) ==
    LET columns == IF options.columns = <<>> THEN Selected ELSE options.columns
    IN  [i \in DOMAIN columns |-> Named(row, columns[i])]

\* Mutant: a row is dropped when any of its kept values is empty.
DroppedIfAnyEmpty(row) ==
    options.dropEmptyRows /\ \E i \in DOMAIN Selected : Named(row, Selected[i]) = ""

Dropped(row) ==
    options.dropEmptyRows /\ \A i \in DOMAIN Selected : Named(row, Selected[i]) = ""

Reshape ==
    /\ Reshaping /\ options.hasHeader /\ tally.seen < MaxRows
    /\ Selected # <<>>
    /\ LET row == Parsed(Line) IN
         /\ tally' = [seen |-> tally.seen + 1,
                      kept |-> tally.kept + OneIf(~Dropped(row)),
                      dropped |-> tally.dropped + OneIf(Dropped(row)),
                      selected |-> Selected]
         /\ out' = IF Dropped(row) THEN out ELSE Append(out, Written(row))
    /\ UNCHANGED status

TransformEnds == /\ status["csv.transform"] = "reading" /\ read = Len(file)
                 /\ EndsAs("csv.transform", "ended")
                 /\ UNCHANGED <<file, options, read, report, head, tally, out>>

emptyTally == [seen |-> 0, kept |-> 0, dropped |-> 0, selected |-> <<>>]

-----------------------------------------------------------------------------
Init == /\ file \in File
        /\ options \in {o \in Option : o.trim /\ o.dropEmptyRows /\ o.columns = <<>>}
        /\ read = 0
        /\ status = [op \in CsvOps |-> IF op = "csv.validate" THEN "reading" ELSE "waiting"]
        /\ report = emptyReport
        /\ head = <<>>
        /\ tally = emptyTally
        /\ out = <<>>

Next == \/ InspectHeader \/ InspectRow \/ ValidateEnds
        \/ Ask
        \/ SkipLine \/ TakeHeader \/ Ragged \/ TooManyRows
        \/ PassArray \/ NoSuchColumn \/ Reshape \/ TransformEnds

Spec == Init /\ [][Next]_vars

-----------------------------------------------------------------------------
(* Correctness.                                                            *)

\* The rows among the lines read so far: those that differ in width from the
\* first line, those that are blank, and the blank cells under a name.
Rows == {i \in 1..read : options.hasHeader => i > 1}
Uneven == {i \in Rows : Len(file[i]) # Len(file[1])}
BlankRows == {i \in Rows : Blank(file[i]) = DOMAIN file[i]}
BlankUnder(name) == {cell \in Rows \X DOMAIN file[1] :
                       cell[2] \in Blank(file[cell[1]]) /\ trim(file[1][cell[2]]) = name}

RowsAreCounted == report.rows = Cardinality(Rows)

\* The examples are the first of the uneven rows, as many as a report names.
UnevenRowsAreCounted ==
    /\ report.inconsistentRows = Cardinality(Uneven)
    /\ ToSet(report.inconsistentExamples) \subseteq Uneven
    /\ Len(report.inconsistentExamples) = Min({MaxExamples, Cardinality(Uneven)})
    /\ \A i \in Uneven \ ToSet(report.inconsistentExamples) :
         \A j \in ToSet(report.inconsistentExamples) : j < i

BlanksAreCounted ==
    /\ report.emptyRows = Cardinality(BlankRows)
    /\ \A name \in DOMAIN report.emptyByColumn :
         report.emptyByColumn[name] = Cardinality(BlankUnder(name))

Validating == status["csv.validate"] \in {"reading", "ended"} /\ status["csv.transform"] = "waiting"

\* The counters of the report are, after every row, what the lines read so
\* far say: how many, which differ in width from the first, which are blank,
\* and how often each named column is (validateCsv).
ReportIsExact == Validating => RowsAreCounted /\ UnevenRowsAreCounted /\ BlanksAreCounted

\* The lines csv-parse makes rows of, and those of them that come to reshape.
Parses == {i \in 1..read : ~Skipped(file[i])}
Body == {i \in Parses : options.hasHeader => \E j \in Parses : j < i}

AskedFor(name) == options.columns = <<>> \/ name \in ToSet(options.columns)

\* The places of a row that are wanted: under every name of the header the
\* last, if the name was asked for or nothing was.  The rows to keep have
\* something in one of them.
Wanted == {k \in DOMAIN head : /\ \A m \in DOMAIN head : head[m] = head[k] => m <= k
                               /\ AskedFor(head[k])}
Keeps == {i \in Body : \/ ~options.hasHeader \/ ~options.dropEmptyRows
                       \/ \E k \in Wanted : Parsed(file[i])[k] # ""}

\* The columns of the output, in their order.
Layout == IF options.columns = <<>> THEN Available ELSE options.columns

\* A row of the output has under every column the wanted cell of that name,
\* and nothing under one that was asked for and is not in the file.
Fills(row, cells) ==
    /\ DOMAIN row = DOMAIN Layout
    /\ \A c \in DOMAIN Layout :
         IF Layout[c] \in ToSet(head)
           THEN \E k \in Wanted : head[k] = Layout[c] /\ row[c] = cells[k]
           ELSE row[c] = ""

\* A row of the output is a row of the file, or the beginning of one if columns
\* were asked for.
Begins(row, cells) == /\ \A c \in DOMAIN row : c \in DOMAIN cells /\ row[c] = cells[c]
                      /\ options.columns = <<>> => row = cells

Transforming == status["csv.transform"] \in {"reading", "ended"}
Ended == status["csv.transform"] = "ended"

\* What a transform has written is, after every row, the rows read so far in
\* their order, without those that are empty in every wanted place.  With a
\* header each has the columns asked for, one after another as the header
\* line of the output names them, those the file lacks included and left
\* empty; its details add up to the rows read (transformCsv).  Without one a row
\* is whole only if no columns were asked for, though csv.ts:271-272 says that
\* it always passes as it is.
OutputIsProjection ==
    Transforming =>
      /\ tally.seen = Cardinality(Body) /\ tally.kept + tally.dropped = tally.seen
      /\ tally.kept = Cardinality(Keeps) /\ Len(out) = tally.kept
      /\ \A i \in Keeps : IF options.hasHeader THEN Fills(out[Rank(i, Keeps)], Parsed(file[i]))
                                               ELSE Begins(out[Rank(i, Keeps)], Parsed(file[i]))

\* A transform is refused only for what csv.validate says of the same file: too
\* many rows for it as well, an uneven row, or none of the requested columns
\* among those it names.  This needs `trim`, because the report names columns
\* trimmed; and when the first line is blank the report takes it for the header,
\* so that a request for the column "" looks as if it could be met.
ReportPredictsTransform ==
    /\ status["csv.transform"] = "invalid" /\ options.trim
    /\ Skipped(file[1]) => "" \notin ToSet(options.columns)
    =>
      \/ report.inconsistentRows > 0
      \/ status["csv.validate"] = "invalid"
      \/ options.columns # <<>> /\ ToSet(options.columns) \cap ToSet(report.columns) = {}

\* A file whose report shows no empty and no uneven row, and no two columns of
\* one name, loses no row to a transform that keeps every column.  Not so when
\* its first line is blank: the report takes that line for the header, and the
\* transform, which skips it, the first row.
CleanFileIsKeptWhole ==
    Ended /\ status["csv.validate"] = "ended"
          /\ options.columns = <<>> /\ ~Skipped(file[1]) /\ IsInjective(report.columns)
          /\ report.inconsistentRows = 0 /\ report.emptyRows = 0 =>
      tally.kept = report.rows /\ tally.dropped = 0

-----------------------------------------------------------------------------
(* Why the report is exact: the inductive invariant behind it.             *)

ReportFields == DOMAIN emptyReport

\* The width and the names are those of the first line, and every uneven row is
\* among the examples as long as there is room for more.
ReportSoFar ==
    /\ read \in 0..Len(file)
    /\ report = [field \in ReportFields |-> report[field]]
    /\ report.columnCount = IF read = 0 THEN 0 ELSE Len(file[1])
    /\ report.columns = IF read > 0 /\ options.hasHeader
                          THEN [i \in DOMAIN file[1] |-> trim(file[1][i])] ELSE <<>>
    /\ DOMAIN report.emptyByColumn = ToSet(report.columns)
    /\ report.inconsistentExamples \in Seq(Nat)
    /\ \/ Uneven \subseteq ToSet(report.inconsistentExamples)
       \/ Len(report.inconsistentExamples) = MaxExamples
    /\ RowsAreCounted /\ UnevenRowsAreCounted /\ BlanksAreCounted

ReportInv ==
    /\ file \in Seq(Seq(STRING) \ {<<>>}) /\ options.hasHeader \in BOOLEAN
    /\ status = [op \in CsvOps |-> status[op]]
    /\ Validating => ReportSoFar

-----------------------------------------------------------------------------
(* Why the transform does what the report says.                            *)

\* A finished report is about all rows of the file.
AllRows == {i \in DOMAIN file : options.hasHeader => i > 1}
ReportIsOfAll ==
    /\ report.rows = Cardinality(AllRows) /\ report.rows <= MaxRows
    /\ report.inconsistentRows \in Nat
    /\ report.inconsistentRows = 0 => \A i \in DOMAIN file : Len(file[i]) = Len(file[1])
    /\ report.emptyRows = 0 => \A i \in AllRows : Blank(file[i]) # DOMAIN file[i]
    /\ options.hasHeader /\ file # <<>> =>
         report.columns = [i \in DOMAIN file[1] |-> trim(file[1][i])]

\* The parser goes by the first line it does not skip, and the first row
\* decides the columns.
ParserSoFar ==
    /\ read \in 0..Len(file) /\ (Ended => read = Len(file))
    /\ head = <<>> <=> Parses = {}
    /\ \A i \in Parses : /\ Len(file[i]) = Len(head)
                         /\ (\A j \in Parses : i <= j) => head = Parsed(file[i])
    /\ tally = [count \in DOMAIN emptyTally |-> tally[count]] /\ tally.dropped \in Nat
    /\ tally.selected # <<>> <=> options.hasHeader /\ Body # {}
    /\ tally.selected # <<>> => /\ options.columns = <<>> => tally.selected = Available
                               /\ ToSet(tally.selected) = {n \in ToSet(head) : AskedFor(n)}

\* The rows kept and what is written of them, in the words of reshape.
KeptRows == {i \in Body : \/ ~options.hasHeader \/ ~options.dropEmptyRows
                          \/ \E n \in ToSet(tally.selected) : Named(Parsed(file[i]), n) # ""}
OutputSoFar ==
    Transforming =>
      /\ tally.seen = Cardinality(Body) /\ tally.kept + tally.dropped = tally.seen
      /\ tally.kept = Cardinality(KeptRows) /\ Len(out) = tally.kept
      /\ \A i \in KeptRows : out[Rank(i, KeptRows)] = IF options.hasHeader THEN Written(Parsed(file[i]))
                                                                        ELSE Cut(Parsed(file[i]))

TransformInv ==
    /\ options \in Option
    /\ status["csv.validate"] \in {"reading", "ended", "invalid"}
    /\ status["csv.transform"] \in {"waiting", "reading", "ended", "invalid"}
    /\ status["csv.transform"] # "waiting" => status["csv.validate"] # "reading"
    /\ status["csv.transform"] = "waiting" => head = <<>> /\ tally = emptyTally /\ out = <<>>
    /\ Validating => report.rows <= MaxRows
    /\ status["csv.validate"] = "ended" => ReportIsOfAll
    /\ Transforming => ParserSoFar
    /\ Len(out) \in Nat /\ out = [i \in 1..Len(out) |-> out[i]]
    /\ OutputSoFar
    /\ ReportPredictsTransform
=============================================================================
