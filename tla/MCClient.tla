------------------------------ MODULE MCClient ------------------------------
(* Instances of Client for TLC.                                            *)
EXTENDS Client

\* Short messages, and such as fill the buffer at once.
TwoLengths == {1, 9}
=============================================================================
