------------------------------ MODULE MCSaeAuth ------------------------------
(* Instances of SaeAuth for model checking.                                  *)
EXTENDS SaeAuth

CONSTANTS s1, s2

Stations == {s1, s2}
OneStation == {s1}

\* How many commits each client generates.
UnitLimit == [s \in Sta |-> 1]
TwoLimit == [s \in Sta |-> 2]
=============================================================================
