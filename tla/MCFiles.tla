------------------------------ MODULE MCFiles ------------------------------
(* Small instances of Files for TLC.  The files of upload u: u itself, its *)
(* staging file <<u, 0>>, and <<u, n>> for the n-th run of its job.        *)
EXTENDS Files

MCKey == Upload \cup (Upload \X (0..MaxRuns))
MCStaging == Upload \X {0}
MCTemp == [u \in Upload |-> <<u, 0>>]
MCOutput == [a \in Upload \X (1..MaxRuns) |-> a]
MCPublic == Upload \X (1..MaxRuns)
MCOperation == ImageOps \cup CsvOps
=============================================================================
