------------------------------- MODULE MCPool -------------------------------
(* Model values for the runs of Pool.                                      *)
EXTENDS Pool

CONSTANTS k1, c1, c2, c3, c4, c5

OneKey       == {k1}
FiveClients  == {c1, c2, c3, c4, c5}
=============================================================================
