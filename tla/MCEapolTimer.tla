---------------------------- MODULE MCEapolTimer -----------------------------
EXTENDS EapolTimer, TLC

CONSTANTS s1, s2

StaSymmetry == Permutations(Sta)
=============================================================================
