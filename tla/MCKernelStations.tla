-------------------------- MODULE MCKernelStations --------------------------
(* Instances of KernelStations for model checking.                         *)
EXTENDS KernelStations

\* Drivers with and without FULL_AP_CLIENT_STATE.  Without AP_VLANs a peer is
\* never reserved, and the two are the same.
VlanModes == [vif: {TRUE}, full: BOOLEAN]
VlanFull == [vif: {TRUE}, full: {TRUE}]
AllModes == VlanModes \cup [vif: {FALSE}, full: {FALSE}]
=============================================================================
