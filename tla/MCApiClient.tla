------------------------------ MODULE MCApiClient ------------------------------
(* A small instance of ApiClient: times in units of half the grace.         *)
EXTENDS ApiClient

CONSTANTS t1, t2, t3

MCTokens    == {t1, t2, t3}
MCLifetimes == {2, 4}
=============================================================================
