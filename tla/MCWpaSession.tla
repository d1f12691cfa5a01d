---------------------------- MODULE MCWpaSession -----------------------------
(***************************************************************************)
(* Instances of WpaSession for TLC.                                        *)
(***************************************************************************)
EXTENDS WpaSession, TLC

CONSTANTS s1, s2, good, bad

OnePsk   == [s \in Sta |-> good]
MixedPsk == [s \in Sta |-> IF s = s1 THEN good ELSE bad]
OneCred  == [s \in Sta |-> {good}]

StaSymmetry == Permutations(Sta)
-----------------------------------------------------------------------------
(* The state in which every station has completed an undisturbed four-way   *)
(* handshake, one after the other, in the order given by Turn: where the    *)
(* runs about group keys of several stations start.                         *)

Turn(s) == IF s = s1 THEN 1 ELSE 2
FirstRc(s) == 2 * Turn(s) - 1
FirstKey(s) == PtkOf(s, Psk[s], FirstRc(s), 1)

EstablishedStation(s) ==
  [NewStation EXCEPT !.associated = TRUE, !.anonce = FirstRc(s),
     !.m1Replay = FirstRc(s), !.replay = FirstRc(s) + 1, !.ptk = FirstKey(s),
     !.pmk = Psk[s], !.pmf = (s \in PmfStas), !.lastAssoc = TRUE]

EstablishedClient(s) ==
  [NewClient EXCEPT !.conn = 4, !.est = 2, !.ptk = FirstKey(s), !.installed = TRUE,
     !.replay = FirstRc(s) + 1, !.gtk = 1]

EstablishedFrames(s) ==
  LET rc == FirstRc(s) k == FirstKey(s) IN
  {AssocResp(s), M1(s, rc, rc), M2(s, rc, 1, k), M3(s, rc + 1, rc, k, 1),
   M4(s, rc + 1, k)}

EstablishedInit ==
  /\ air = UNION {EstablishedFrames(s) : s \in Sta}
  /\ known = Sta
  /\ st = [s \in Sta |-> EstablishedStation(s)]
  /\ held = [s \in Sta |-> NoHold]
  /\ ctr = 2 * Cardinality(Sta) /\ gtk = 1 /\ saqId = 0
  /\ rekeyDue = FALSE /\ owed = FALSE
  /\ conn = [s \in Sta |-> 1]
  /\ failed = {} /\ used = {}
  /\ cl = [s \in Sta |-> EstablishedClient(s)]
  /\ nsn = [s \in Sta |-> 1]
  /\ committed = {FirstKey(s) : s \in Sta} /\ clUsed = {}
  /\ delivered = [s \in Sta |-> {1}]

EstablishedSpec == EstablishedInit /\ [][Next]_vars

FairEstablishedSpec == EstablishedSpec /\ Fairness
=============================================================================
