--------------------------- MODULE MCRadioStartup ---------------------------
(* Instances of RadioStartup for model checking.                           *)
EXTENDS RadioStartup

CONSTANTS ra, rb, a1, a2, b1

\* A two-link MLD and a single-link radio, all on radar channels.
TwoRadios == {ra, rb}
TwoRadioLinks == [r \in TwoRadios |-> IF r = ra THEN <<a1, a2>> ELSE <<b1>>]
TwoRadioDfs == {a1, a2, b1}

Wide1 == {a1}
MldA == {ra}
EitherOffload == {{}, {ra}}

\* Per-station VIFs on the single-link radio only; both radios find those of a
\* process before, which may have been configured otherwise.
VifOnB == {{rb}}
=============================================================================
