------------------------------- MODULE MCPage -------------------------------
(* Small instances of Page for TLC.                                        *)
EXTENDS Page

CONSTANTS picture, table

MCFile == {picture, table}
MCKind == (picture :> "image") @@ (table :> "csv")
=============================================================================
