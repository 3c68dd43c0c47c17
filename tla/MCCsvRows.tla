----------------------------- MODULE MCCsvRows -----------------------------
(* Small instances of CsvRows for TLC: a first line with one or two names, *)
(* which may differ by a blank only, or no name at all; then a few rows of *)
(* one or two cells that are empty, blank or neither.                      *)
EXTENDS CsvRows

CONSTANT MaxLines

MCFirst == {<<"a">>, <<"a", "b">>, <<"a", " a">>, <<" a", "b">>, <<"">>}
MCRow == UNION {[1..width -> {"", " ", " a"}] : width \in 1..2}
MCFile == UNION {{<<first>> \o rest : first \in MCFirst, rest \in [1..n -> MCRow]} :
                  n \in 0..MaxLines - 1}
MCColumns == {<<>>, <<"a">>, <<"b", "a">>, <<"c">>, <<"">>}
MCtrim(cell) == CASE cell = " " -> "" [] cell = " a" -> "a" [] OTHER -> cell
=============================================================================
