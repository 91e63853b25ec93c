----------------------------- MODULE MCSessions -----------------------------
(***************************************************************************)
(* Small instances of Sessions for TLC.                                    *)
(***************************************************************************)
EXTENDS Sessions

CONSTANTS s1, s2

TwoSessions == {s1, s2}
=============================================================================
