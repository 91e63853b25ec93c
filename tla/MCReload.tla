------------------------------ MODULE MCReload ------------------------------
(* Instances of Reload for TLC.                                            *)
EXTENDS Reload

CONSTANTS s1, s2
TwoSessions == {s1, s2}
=============================================================================
