---------------------------- MODULE MCJobWorker ----------------------------
(* Small instances of JobWorker for TLC.                                   *)
EXTENDS JobWorker

\* The percentages of a processor, and one error of each kind.
MCMarks == <<50, 100>>
MCFaults == {"MissingFileError", "Error"}
=============================================================================
