---------------------------- MODULE MCLeaderMode ----------------------------
(* An instance of LeaderMode for TLC: two commands that step the member down. *)
EXTENDS LeaderMode

CONSTANTS c1, c2

MCCommands == {c1, c2}
=============================================================================
