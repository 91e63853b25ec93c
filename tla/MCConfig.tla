------------------------------ MODULE MCConfig ------------------------------
(* Instances of Config for TLC.                                            *)
EXTENDS Config

CONSTANTS n1, n2, d1, d2, known, unknown

TwoNames   == {n1, n2}
TwoDevices == {d1, d2}
BothKinds  == {known, unknown}
OnlyKnown  == {known}

\* <error> and <precommand> are read and freed as <addr> is, and inherited no more than it.
AddrUnitDescription == {"addr", "unit", "description"}

\* Three elements are a default with an element and a device, or two commands of the
\* same name and a device; the second load is there to free the lists of the first.
ThreeThenOne == <<3, 1>>

Symmetries == Permutations(TwoNames) \cup Permutations(TwoDevices)
=============================================================================
