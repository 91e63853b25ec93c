------------------------------ MODULE MCFramer ------------------------------
(* Instances of Framer for TLC.                                            *)
EXTENDS Framer

OrdinaryAddr == 2133     \* 0x0855
StatusAddr   == 65077    \* 0xFE35, looks like a link status

\* One address that is read or written, the one with the cut answer, and one that is
\* taken for a status.
MixedAddrs == {OrdinaryAddr, TimerAddr, StatusAddr}
OneAddr    == {OrdinaryAddr}

ResponseOrError == {RESPONSE, ERROR_REPORT}

\* 9 bytes of data, as getError0..9 have them, are as long as a whole error report;
\* with 123, the length byte of a frame is negative.
Nine        == {9}
NineAndMore == {9, 123}
=============================================================================
