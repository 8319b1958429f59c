----------------------------- MODULE MCElection -----------------------------
(* An instance of Election for TLC: two members that hold data and an        *)
(* arbiter.                                                                  *)
EXTENDS Election

CONSTANTS n1, n2, n3

MCNodes == {n1, n2, n3}
=============================================================================
