------------------------------ MODULE MCDevice ------------------------------
(* Instances of Device for TLC.                                            *)
EXTENDS Device

OneAddr         == {2133}       \* 0x0855
ResponseOrError == {RESPONSE, ERROR_REPORT}
Nine            == {9}
OneOrTwo        == {1, 2}

\* WAIT 05, and one that can lose the synchronization.
WaitLines == {<<NOT_INIT>>, <<NOT_INIT, INIT_OK>>}
=============================================================================
