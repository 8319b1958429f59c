--------------------------- MODULE MCThrottling ---------------------------
(* An instance of Throttling for TLC. *)
EXTENDS Throttling

CONSTANTS o1, o2, o3, w1

MCOps == {o1, o2, o3}
MCExclusive == {o1}
MCWriters == {w1}
=============================================================================
