---------------------------- MODULE MCRateLimit ----------------------------
(* A small instance of RateLimit: two downloads on their way at once, and  *)
(* allowances of one and two.                                              *)
EXTENDS RateLimit, TLC

MCLimit == [upload |-> 2, job |-> 1, read |-> 1, status |-> 1]
MCSymmetry == Permutations(Request)
=============================================================================
