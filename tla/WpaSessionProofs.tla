-------------------------- MODULE WpaSessionProofs ---------------------------
(***************************************************************************)
(* For every number of stations, keys and frames, and every bound: the     *)
(* types of WpaSession, and that the AP never reuses a packet number with  *)
(* a pairwise key.                                                         *)
(***************************************************************************)
EXTENDS WpaSession, TLAPS, FiniteSetTheorems

-----------------------------------------------------------------------------
(* Frames and keys have their types *)

\* Every frame constructor builds a Frame, given arguments of the right type.
LEMMA FrameTypes ==
  ASSUME NEW s \in Sta, NEW a \in Nat, NEW b \in Nat, NEW g \in Nat,
         NEW k \in Key \cup {NoKey}
  PROVE  /\ M1(s, a, b) \in Frame /\ M2(s, a, b, k) \in Frame
         /\ M3(s, a, b, k, g) \in Frame /\ M4(s, a, k) \in Frame
         /\ G1(s, a, k, g) \in Frame /\ G2(s, a, k) \in Frame
         /\ AssocResp(s) \in Frame /\ Deauth(s, k, a) \in Frame
         /\ Leave(s, k, a) \in Frame
         /\ SaQueryReq(s, a, k, b) \in Frame /\ SaQueryResp(s, a, k, b) \in Frame
BY DEF M1, M2, M3, M4, G1, G2, AssocResp, Deauth, Leave, SaQueryReq, SaQueryResp,
       MkFrame, Frame, FrameType

\* A derived PTK is a Key.
LEMMA PtkType ==
  ASSUME NEW s \in Sta, NEW p \in Pmk, NEW a \in Nat, NEW n \in Nat
  PROVE  PtkOf(s, p, a, n) \in Key
BY DEF PtkOf, Key

\* What a receiver takes from a well-typed medium is a Frame.
LEMMA ReceivedType ==
  ASSUME NEW t, NEW s \in Sta, NEW m \in Received(t, s), air \subseteq Frame
  PROVE  /\ m \in Frame /\ m.sta = s /\ m.type = t
         /\ m.rc \in Nat /\ m.an \in Nat /\ m.sn \in Nat /\ m.gtk \in Nat
         /\ m.key \in Key \cup {NoKey}
BY DEF Received, Frame
-----------------------------------------------------------------------------
(* Station records keep their type under the updates of Authenticator *)

\* A cleared retry count is in range.
LEMMA ZeroRetries == 0 \in 0..MaxRetries
BY ApBounds

\* Station::new builds a Station.
LEMMA NewStationType == NewStation \in Station
BY ApBounds DEF NewStation, Station

\* The reset of a fresh open authentication keeps the type.
LEMMA AuthResetType ==
  ASSUME NEW r \in Station
  PROVE  AuthReset(r) \in Station
<1> USE ApBounds
<1> DEFINE r1 == [NewStation EXCEPT !.pn = r.pn]
           r2 == [r1 EXCEPT !.retries = r.retries]
           r3 == [r2 EXCEPT !.lastAssoc = r.lastAssoc]
<1>1. r1 \in Station
  BY NewStationType DEF Station
<1> HIDE DEF r1
<1>2. r2 \in Station
  BY <1>1 DEF Station
<1> HIDE DEF r2
<1>3. r3 \in Station
  BY <1>2 DEF Station
<1> HIDE DEF r3
<1>4. r3 = AuthReset(r)
  BY DEF r1, r2, r3, AuthReset
<1> QED  BY <1>3, <1>4

\* Sending an SA Query keeps the type while packet numbers are left.
LEMMA QueriedType ==
  ASSUME NEW r \in Station, NEW id \in Nat, r.pn <= MaxPn
  PROVE  Queried(r, id) \in Station
<1> USE ApBounds
<1>0. r.pn + 1 \in 1..(MaxPn + 1)
  BY DEF Station
<1> DEFINE r1 == [r EXCEPT !.pn = r.pn + 1]
           r2 == [r1 EXCEPT !.saQuery = id]
<1>1. r1 \in Station
  BY <1>0 DEF Station
<1> HIDE DEF r1
<1>2. r2 \in Station
  BY <1>1 DEF Station
<1> HIDE DEF r2
<1>3. r2 = Queried(r, id)
  BY DEF r1, r2, Queried
<1> QED  BY <1>2, <1>3

\* Accepting an SA Query response keeps the type.
LEMMA AnsweredType ==
  ASSUME NEW r \in Station, NEW m \in Frame
  PROVE  Answered(r, m) \in Station
<1> USE ApBounds
<1>0. m.sn \in Nat
  BY DEF Frame
<1> DEFINE r1 == [r EXCEPT !.mgmtPn = m.sn]
           r2 == [r1 EXCEPT !.saQuery = (IF m.rc = r.saQuery THEN 0 ELSE r.saQuery)]
<1>1. r1 \in Station
  BY <1>0 DEF Station
<1> HIDE DEF r1
<1>2. r2 \in Station
  BY <1>1 DEF Station
<1> HIDE DEF r2
<1>3. r2 = Answered(r, m)
  BY DEF r1, r2, Answered
<1> QED  BY <1>2, <1>3

\* What a request may leave: attributes and PMK of the right type.
Outcome == [pmf : BOOLEAN, pmk : Pmk \cup {NoPmk}]

\* Everything an association request can negotiate is an Outcome.
LEMMA NegotiationsType ==
  ASSUME NEW s \in Sta, st[s] \in Station
  PROVE  /\ RequestedPmf(s) \subseteq BOOLEAN /\ SaePmk(s) \subseteq Pmk
         /\ \A n \in Negotiations(s) : n \in Outcome
<1>1. st[s].pmf \in BOOLEAN /\ st[s].pmk \in Pmk \cup {NoPmk}
  BY DEF Station
<1>2. RequestedPmf(s) \subseteq BOOLEAN /\ SaePmk(s) \subseteq Pmk
  BY <1>1 DEF RequestedPmf, SaePmk
<1>3. ASSUME NEW n \in Negotiations(s) PROVE n \in Outcome
  <2>1. \/ \E b \in RequestedPmf(s) : n = [pmf |-> b, pmk |-> st[s].pmk]
        \/ \E p \in SaePmk(s) : n = [pmf |-> TRUE, pmk |-> p]
    BY DEF Negotiations
  <2>2. ASSUME NEW b \in RequestedPmf(s), n = [pmf |-> b, pmk |-> st[s].pmk]
        PROVE  n \in Outcome
    <3>1. b \in BOOLEAN
      BY <1>2
    <3> QED  BY <1>1, <2>2, <3>1 DEF Outcome
  <2>3. ASSUME NEW p \in SaePmk(s), n = [pmf |-> TRUE, pmk |-> p]
        PROVE  n \in Outcome
    BY <1>2, <2>3 DEF Outcome
  <2> QED  BY <2>1, <2>2, <2>3
<1> QED  BY <1>2, <1>3

\* Renegotiating a station's attributes keeps the type.
LEMMA NegotiatedType ==
  ASSUME NEW r \in Station, NEW n \in Outcome
  PROVE  Negotiated(r, n) \in Station
<1> USE ApBounds
<1> DEFINE r1 == [r EXCEPT !.pmf = n.pmf]
           r2 == [r1 EXCEPT !.pmk = n.pmk]
<1>0. n.pmf \in BOOLEAN /\ n.pmk \in Pmk \cup {NoPmk}
  BY DEF Outcome
<1>1. r1 \in Station
  BY <1>0 DEF Station
<1> HIDE DEF r1
<1>2. r2 \in Station
  BY <1>0, <1>1 DEF Station
<1> HIDE DEF r2
<1>3. r2 = Negotiated(r, n)
  BY DEF r1, r2, Negotiated
<1> QED  BY <1>2, <1>3

\* A refused association request keeps the type.
LEMMA RefusedType ==
  ASSUME NEW r \in Station, NEW b \in BOOLEAN
  PROVE  Refused(r, b) \in Station
<1> USE ApBounds
<1> DEFINE r1 == [r EXCEPT !.pmf = b]
           r2 == [r1 EXCEPT !.lastAssoc = TRUE]
<1>1. r1 \in Station
  BY DEF Station
<1> HIDE DEF r1
<1>2. r2 \in Station
  BY <1>1 DEF Station
<1> HIDE DEF r2
<1>3. r2 = Refused(r, b)
  BY DEF r1, r2, Refused
<1> QED  BY <1>2, <1>3

\* The PMK of a completed SAE commit keeps the type.
LEMMA SaeKeyedType ==
  ASSUME NEW r \in Station, NEW p \in Pmk
  PROVE  SaeKeyed(r, p) \in Station
<1> USE ApBounds
<1> DEFINE r1 == [r EXCEPT !.pmf = TRUE]
           r2 == [r1 EXCEPT !.pmk = p]
<1>1. r1 \in Station
  BY DEF Station
<1> HIDE DEF r1
<1>2. r2 \in Station
  BY <1>1 DEF Station
<1> HIDE DEF r2
<1>3. r2 = SaeKeyed(r, p)
  BY DEF r1, r2, SaeKeyed
<1> QED  BY <1>2, <1>3

\* Repeating message 3 for an association request keeps the type.
LEMMA ResentType ==
  ASSUME NEW r \in Station
  PROVE  Resent(r) \in Station
<1> USE ApBounds
<1> DEFINE r1 == [r EXCEPT !.lastAssoc = TRUE]
           r2 == [r1 EXCEPT !.retries = 0]
<1>1. r1 \in Station
  BY DEF Station
<1> HIDE DEF r1
<1>2. r2 \in Station
  BY <1>1, ZeroRetries DEF Station
<1> HIDE DEF r2
<1>3. r2 = Resent(r)
  BY DEF r1, r2, Resent
<1> QED  BY <1>2, <1>3

\* Accepting group message 2 keeps the type.
LEMMA G2StationType ==
  ASSUME NEW r \in Station
  PROVE  G2Station(r) \in Station
<1> USE ApBounds
<1> DEFINE r1 == [r EXCEPT !.rekeying = FALSE]
           r2 == [r1 EXCEPT !.pending = NoFrame]
<1>1. r1 \in Station
  BY DEF Station
<1> HIDE DEF r1
<1>2. r2 \in Station
  BY <1>1 DEF Station
<1> HIDE DEF r2
<1>3. r2 = G2Station(r)
  BY DEF r1, r2, G2Station
<1> QED  BY <1>2, <1>3

\* Starting a handshake with message 1 keeps the type.
LEMMA M1StationType ==
  ASSUME st \in [Sta -> Station], NEW s \in Sta, NEW n \in Outcome, NEW b \in Hold
  PROVE  M1Station(s, n, b) \in Station
<1> USE ApBounds
<1> DEFINE r == Negotiated(st[s], n)
<1>r. r \in Station
  BY NegotiatedType
<1>b. b.an \in Nat /\ b.rc \in Nat
  BY DEF Hold
<1>m. M1(s, b.rc, b.an) \in Frame
  BY <1>b, FrameTypes
<1>e. <<>> \in Seq(Candidate)
  OBVIOUS
<1> HIDE DEF r
<1> DEFINE r1 == [r EXCEPT !.lastAssoc = TRUE]
           r2 == [r1 EXCEPT !.anonce = b.an]
           r3 == [r2 EXCEPT !.ready = TRUE]
           r4 == [r3 EXCEPT !.replay = b.rc]
           r5 == [r4 EXCEPT !.m1Replay = b.rc]
           r6 == [r5 EXCEPT !.cands = <<>>]
           r7 == [r6 EXCEPT !.pending = M1(s, b.rc, b.an)]
           r8 == [r7 EXCEPT !.retries = 0]
<1>1. r1 \in Station
  BY <1>r DEF Station
<1> HIDE DEF r1
<1>2. r2 \in Station
  BY <1>1, <1>b DEF Station
<1> HIDE DEF r2
<1>3. r3 \in Station
  BY <1>2 DEF Station
<1> HIDE DEF r3
<1>4. r4 \in Station
  BY <1>3, <1>b DEF Station
<1> HIDE DEF r4
<1>5. r5 \in Station
  BY <1>4, <1>b DEF Station
<1> HIDE DEF r5
<1>6. r6 \in Station
  BY <1>5, <1>e DEF Station
<1> HIDE DEF r6
<1>7. r7 \in Station
  BY <1>6, <1>m DEF Station
<1> HIDE DEF r7
<1>8. r8 \in Station
  BY <1>7, ZeroRetries DEF Station
<1> HIDE DEF r8
<1>9. r8 = M1Station(s, n, b)
  BY DEF r1, r2, r3, r4, r5, r6, r7, r8, M1Station, r
<1> QED  BY <1>8, <1>9

\* Installing the key of message 4 keeps the type: the packet number stays in range.
LEMMA M4StationType ==
  ASSUME NEW r \in Station, NEW k \in Key
  PROVE  M4Station(r, k) \in Station
<1> USE ApBounds
<1> DEFINE p == PnAfterInstall(r, k)
           g == IF SameTemporalKey(r, k) THEN r.mgmtPn ELSE 0
<1>p. p \in 1..(MaxPn + 1) /\ g \in Nat
  BY DEF PnAfterInstall, Station
<1>e. <<>> \in Seq(Candidate)
  OBVIOUS
<1> HIDE DEF p, g
<1> DEFINE r1 == [r EXCEPT !.ptk = k]
           r2 == [r1 EXCEPT !.pn = p]
           r3 == [r2 EXCEPT !.cands = <<>>]
           r4 == [r3 EXCEPT !.mgmtPn = g]
           r5 == [r4 EXCEPT !.associated = TRUE]
           r6 == [r5 EXCEPT !.awaiting = FALSE]
           r7 == [r6 EXCEPT !.pending = NoFrame]
<1>1. r1 \in Station
  BY DEF Station
<1> HIDE DEF r1
<1>2. r2 \in Station
  BY <1>1, <1>p DEF Station
<1> HIDE DEF r2
<1>3. r3 \in Station
  BY <1>2, <1>e DEF Station
<1> HIDE DEF r3
<1>4. r4 \in Station
  BY <1>3, <1>p DEF Station
<1> HIDE DEF r4
<1>5. r5 \in Station
  BY <1>4 DEF Station
<1> HIDE DEF r5
<1>6. r6 \in Station
  BY <1>5 DEF Station
<1> HIDE DEF r6
<1>7. r7 \in Station
  BY <1>6 DEF Station
<1> HIDE DEF r7
<1>8. r7 = M4Station(r, k)
  BY DEF r1, r2, r3, r4, r5, r6, r7, M4Station, p, g
<1> QED  BY <1>7, <1>8

\* Retaining a candidate PTK never exceeds the capacity of ptk_candidates.
LEMMA RetainType ==
  ASSUME NEW cs \in Seq(Candidate), NEW c \in Candidate, Len(cs) <= MaxCands
  PROVE  Retain(cs, c) \in Seq(Candidate) /\ Len(Retain(cs, c)) <= MaxCands
BY ApBounds DEF Retain

\* Accepting message 2 keeps the type and the capacity.
LEMMA M2StationType ==
  ASSUME st \in [Sta -> Station], NEW s \in Sta, NEW m \in Frame, NEW rc \in Nat,
         m.key \in Key, gtk \in Nat, Len(st[s].cands) <= MaxCands
  PROVE  M2Station(s, m, rc) \in Station
<1> USE ApBounds
<1> DEFINE r == st[s]
           c == Retain(st[s].cands, [rc |-> rc, key |-> m.key])
           f == M3(s, rc, st[s].anonce, m.key, gtk)
<1>r. r \in Station /\ r.anonce \in Nat /\ r.cands \in Seq(Candidate)
  BY DEF Station
<1>k. m.key.pmk \in Pmk
  BY DEF Key
<1>c. c \in Seq(Candidate)
  BY <1>r, RetainType DEF Candidate
<1>f. f \in Frame
  BY <1>r, FrameTypes
<1> HIDE DEF r, c, f
<1> DEFINE r1 == [r EXCEPT !.pmk = m.key.pmk]
           r2 == [r1 EXCEPT !.cands = c]
           r3 == [r2 EXCEPT !.ready = FALSE]
           r4 == [r3 EXCEPT !.replay = rc]
           r5 == [r4 EXCEPT !.awaiting = TRUE]
           r6 == [r5 EXCEPT !.pending = f]
           r7 == [r6 EXCEPT !.retries = 0]
<1>1. r1 \in Station
  BY <1>r, <1>k DEF Station
<1> HIDE DEF r1
<1>2. r2 \in Station
  BY <1>1, <1>c DEF Station
<1> HIDE DEF r2
<1>3. r3 \in Station
  BY <1>2 DEF Station
<1> HIDE DEF r3
<1>4. r4 \in Station
  BY <1>3 DEF Station
<1> HIDE DEF r4
<1>5. r5 \in Station
  BY <1>4 DEF Station
<1> HIDE DEF r5
<1>6. r6 \in Station
  BY <1>5, <1>f DEF Station
<1> HIDE DEF r6
<1>7. r7 \in Station
  BY <1>6, ZeroRetries DEF Station
<1> HIDE DEF r7
<1>8. r7 = M2Station(s, m, rc)
  BY DEF r1, r2, r3, r4, r5, r6, r7, M2Station, r, c, f
<1> QED  BY <1>7, <1>8

\* Starting a group rekey keeps the type, given an installed key.
LEMMA G1StationType ==
  ASSUME st \in [Sta -> Station], NEW s \in Sta, NEW rc \in Nat, gtk \in Nat
  PROVE  G1Station(s, rc) \in Station
<1> USE ApBounds
<1> DEFINE r == st[s]
           f == G1(s, rc, st[s].ptk, gtk + 1)
<1>r. r \in Station /\ r.ptk \in Key \cup {NoKey}
  BY DEF Station
<1>f. f \in Frame
  BY <1>r, FrameTypes
<1> HIDE DEF r, f
<1> DEFINE r1 == [r EXCEPT !.replay = rc]
           r2 == [r1 EXCEPT !.pending = f]
           r3 == [r2 EXCEPT !.retries = 0]
           r4 == [r3 EXCEPT !.rekeying = TRUE]
<1>1. r1 \in Station
  BY <1>r DEF Station
<1> HIDE DEF r1
<1>2. r2 \in Station
  BY <1>1, <1>f DEF Station
<1> HIDE DEF r2
<1>3. r3 \in Station
  BY <1>2, ZeroRetries DEF Station
<1> HIDE DEF r3
<1>4. r4 \in Station
  BY <1>3 DEF Station
<1> HIDE DEF r4
<1>5. r4 = G1Station(s, rc)
  BY DEF r1, r2, r3, r4, G1Station, r, f
<1> QED  BY <1>4, <1>5

-----------------------------------------------------------------------------
(* Client records keep their type under the updates of Supplicant *)

\* reset_session_keys leaves a ClientState.
LEMMA NewClientType == NewClient \in ClientState
BY DEF NewClient, ClientState, NoPending, Pending

\* Answering message 1 keeps the client's type.
LEMMA M1ClientType ==
  ASSUME NEW r \in ClientState, NEW p \in Pending
  PROVE  M1Client(r, p) \in ClientState
<1> DEFINE r1 == [r EXCEPT !.pend = p]
           r2 == [r1 EXCEPT !.est = 1]
<1>1. r1 \in ClientState
  BY DEF ClientState
<1> HIDE DEF r1
<1>2. r2 \in ClientState
  BY <1>1 DEF ClientState
<1> HIDE DEF r2
<1>3. r2 = M1Client(r, p)
  BY DEF r1, r2, M1Client
<1> QED  BY <1>2, <1>3

\* Installing a group key keeps the client's type.
LEMMA G1ClientType ==
  ASSUME NEW r \in ClientState, NEW m \in Frame
  PROVE  G1Client(r, m) \in ClientState
<1>0. m.rc \in Nat /\ m.gtk \in Nat
  BY DEF Frame
<1> DEFINE r1 == [r EXCEPT !.replay = m.rc]
           r2 == [r1 EXCEPT !.gtk = m.gtk]
<1>1. r1 \in ClientState
  BY <1>0 DEF ClientState
<1> HIDE DEF r1
<1>2. r2 \in ClientState
  BY <1>1, <1>0 DEF ClientState
<1> HIDE DEF r2
<1>3. r2 = G1Client(r, m)
  BY DEF r1, r2, G1Client
<1> QED  BY <1>2, <1>3

\* Answering an SA Query keeps the client's type.
LEMMA QueriedClientType ==
  ASSUME NEW r \in ClientState, NEW m \in Frame
  PROVE  QueriedClient(r, m) \in ClientState
<1>0. m.sn \in Nat /\ r.pn + 1 \in Nat
  BY DEF Frame, ClientState
<1> DEFINE r1 == [r EXCEPT !.pn = r.pn + 1]
           r2 == [r1 EXCEPT !.mgmtPn = m.sn]
<1>1. r1 \in ClientState
  BY <1>0 DEF ClientState
<1> HIDE DEF r1
<1>2. r2 \in ClientState
  BY <1>1, <1>0 DEF ClientState
<1> HIDE DEF r2
<1>3. r2 = QueriedClient(r, m)
  BY DEF r1, r2, QueriedClient
<1> QED  BY <1>2, <1>3

\* Committing the pending PTK keeps the client's type.
LEMMA M3ClientType ==
  ASSUME cl \in [Sta -> ClientState], NEW s \in Sta, NEW m \in Frame, m.key \in Key
  PROVE  M3Client(s, m) \in ClientState
<1> DEFINE r == cl[s]
           p == ClPnAfterInstall(cl[s], m.key)
           g == IF ClSameKey(cl[s], m.key) THEN cl[s].mgmtPn ELSE 0
<1>0. r \in ClientState /\ m.rc \in Nat /\ m.gtk \in Nat
  BY DEF Frame
<1>p. p \in Nat /\ g \in Nat
  BY DEF ClPnAfterInstall, ClientState
<1>n. NoPending \in Pending
  BY DEF NoPending, Pending
<1> HIDE DEF r, p, g
<1> DEFINE r1 == [r EXCEPT !.ptk = m.key]
           r2 == [r1 EXCEPT !.pn = p]
           r3 == [r2 EXCEPT !.mgmtPn = g]
           r4 == [r3 EXCEPT !.installed = TRUE]
           r5 == [r4 EXCEPT !.pend = NoPending]
           r6 == [r5 EXCEPT !.replay = m.rc]
           r7 == [r6 EXCEPT !.gtk = m.gtk]
           r8 == [r7 EXCEPT !.conn = 4]
           r9 == [r8 EXCEPT !.est = 2]
<1>1. r1 \in ClientState
  BY <1>0 DEF ClientState
<1> HIDE DEF r1
<1>2. r2 \in ClientState
  BY <1>1, <1>p DEF ClientState
<1> HIDE DEF r2
<1>3. r3 \in ClientState
  BY <1>2, <1>p DEF ClientState
<1> HIDE DEF r3
<1>4. r4 \in ClientState
  BY <1>3 DEF ClientState
<1> HIDE DEF r4
<1>5. r5 \in ClientState
  BY <1>4, <1>n DEF ClientState
<1> HIDE DEF r5
<1>6. r6 \in ClientState
  BY <1>5, <1>0 DEF ClientState
<1> HIDE DEF r6
<1>7. r7 \in ClientState
  BY <1>6, <1>0 DEF ClientState
<1> HIDE DEF r7
<1>8. r8 \in ClientState
  BY <1>7 DEF ClientState
<1> HIDE DEF r8
<1>9. r9 \in ClientState
  BY <1>8 DEF ClientState
<1> HIDE DEF r9
<1>10. r9 = M3Client(s, m)
  BY DEF r1, r2, r3, r4, r5, r6, r7, r8, r9, M3Client, r, p, g
<1> QED  BY <1>9, <1>10

-----------------------------------------------------------------------------
(* TypeOK is inductive *)

\* Storing a well-typed record with a key when associated keeps the station table.
LEMMA StoreStation ==
  ASSUME ApTypeOK, NEW s \in Sta, NEW r \in Station, Len(r.cands) <= MaxCands,
         st' = [st EXCEPT ![s] = r]
  PROVE  st' \in [Sta -> Station] /\ \A t \in Sta : Len(st'[t].cands) <= MaxCands
BY DEF ApTypeOK

\* disconnect keeps the types of what it writes.
LEMMA DisconnectType ==
  ASSUME ApTypeOK, NEW s \in Sta, Disconnect(s)
  PROVE  /\ known' \subseteq Sta
         /\ st' \in [Sta -> Station] /\ \A t \in Sta : Len(st'[t].cands) <= MaxCands
         /\ rekeyDue' \in BOOLEAN /\ owed' \in BOOLEAN /\ conn' \in [Sta -> Int]
<1>1. Len(NewStation.cands) <= MaxCands
  BY ApBounds DEF NewStation
<1>2. rekeyDue' \in BOOLEAN /\ owed' \in BOOLEAN
  BY DEF Disconnect, RetireAssociation, ApTypeOK
<1>3. conn' \in [Sta -> Int]
  BY DEF Disconnect, RetireAssociation, ApTypeOK
<1> QED  BY <1>1, <1>2, <1>3, NewStationType, StoreStation DEF Disconnect, ApTypeOK

\* Sending a Deauthentication keeps the types of the medium and of used.
LEMMA SendDeauthType ==
  ASSUME air \subseteq Frame, ApTypeOK, NEW s \in Sta, SendDeauth(s),
         st[s].associated => st[s].ptk \in Key
  PROVE  air' \subseteq Frame /\ used' \subseteq Key \X Nat
<1>1. st[s] \in Station
  BY DEF ApTypeOK
<1>2. st[s].pn \in Nat /\ st[s].ptk \in Key \cup {NoKey}
  BY <1>1, ApBounds DEF Station
<1>3. Deauth(s, st[s].ptk, st[s].pn) \in Frame /\ Deauth(s, NoKey, 0) \in Frame
  BY <1>2, FrameTypes
<1> QED  BY <1>2, <1>3 DEF SendDeauth, ApTypeOK

\* What TypeOK needs to be inductive: an open port and an installed key are real
\* keys, and a client in its last state has installed one.
KeysInstalled ==
  /\ \A s \in Sta : st[s].associated => st[s].ptk \in Key
  /\ \A s \in Sta : cl[s].installed => cl[s].ptk \in Key
  /\ \A s \in Sta : cl[s].conn = 4 => cl[s].installed

ApKeys == \A s \in Sta : st[s].associated => st[s].ptk \in Key
ClKeys == \A s \in Sta : /\ cl[s].installed => cl[s].ptk \in Key
                         /\ cl[s].conn = 4 => cl[s].installed

TInv == TypeOK /\ KeysInstalled

\* A step that stores one record keeps ApKeys when the record does.
LEMMA StoreKeys ==
  ASSUME ApTypeOK, ApKeys, NEW s \in Sta, NEW r \in Station, st' = [st EXCEPT ![s] = r],
         r.associated => r.ptk \in Key
  PROVE  ApKeys'
BY DEF ApKeys, ApTypeOK

\* disconnect leaves every associated station with an installed key.
LEMMA DisconnectKeys ==
  ASSUME ApTypeOK, ApKeys, NEW s \in Sta, Disconnect(s)
  PROVE  ApKeys'
BY NewStationType, StoreKeys DEF Disconnect, NewStation

\* The parts of the typing invariant that the later lemmas take from TInv.
LEMMA StationParts ==
  ASSUME NEW r \in Station
  PROVE  /\ r.associated \in BOOLEAN /\ r.ready \in BOOLEAN /\ r.awaiting \in BOOLEAN
         /\ r.rekeying \in BOOLEAN /\ r.lastAssoc \in BOOLEAN
         /\ r.anonce \in Nat /\ r.replay \in Nat /\ r.m1Replay \in Nat
         /\ r.cands \in Seq(Candidate) /\ r.ptk \in Key \cup {NoKey}
         /\ r.pmk \in Pmk \cup {NoPmk} /\ r.pn \in Nat /\ r.saQuery \in Nat
         /\ r.pending \in Frame \cup {NoFrame} /\ r.mgmtPn \in Nat
BY ApBounds DEF Station

\* The frames, types and keys of the authenticator's side.
ApSide == air \subseteq Frame /\ ApTypeOK /\ ApKeys

\* The actions that end a session preserve the AP's side of TInv.
LEMMA EndOfSession ==
  ASSUME ApSide, NEW s \in Sta,
         Kick(s) \/ PruneIdle(s) \/ RecvDeauth(s) \/ RecvBadM2(s) \/ TimeoutEapol(s)
           \/ SaQueryTimeout(s) \/ ExpireSae(s)
  PROVE  ApSide'
<1>0. Disconnect(s)
  BY DEF Kick, PruneIdle, RecvDeauth, RecvBadM2, TimeoutEapol,
         SaQueryTimeout, ExpireSae
<1>1. UNCHANGED <<held, ctr, gtk, saqId>> /\ failed' \subseteq Sta
  BY DEF Kick, PruneIdle, RecvDeauth, RecvBadM2, TimeoutEapol,
         SaQueryTimeout, ExpireSae, ApSide, ApTypeOK
<1>2. Deauth(s, NoKey, 0) \in Frame
  BY FrameTypes
<1>3. air' \subseteq Frame /\ used' \subseteq Key \X Nat
  <2>1. CASE SendDeauth(s)
    BY <2>1, SendDeauthType DEF ApSide, ApKeys
  <2>2. CASE UNCHANGED used /\ (UNCHANGED air \/ air' = air \cup {Deauth(s, NoKey, 0)})
    BY <1>2, <2>2 DEF ApSide, ApTypeOK
  <2> QED  BY <2>1, <2>2 DEF Kick, PruneIdle, RecvDeauth, RecvBadM2, TimeoutEapol,
         SaQueryTimeout, ExpireSae
<1> QED
  BY <1>0, <1>1, <1>3, DisconnectType, DisconnectKeys DEF ApSide, ApTypeOK

\* A contested request preserves the AP's side of TInv.
LEMMA ContestedRequestSide ==
  ASSUME ApSide, NEW s \in Sta, ContestedRequest(s)
  PROVE  ApSide'
<1> DEFINE id == IF st[s].saQuery # 0 THEN st[s].saQuery ELSE saqId + 1
           r == st[s]
<1>0. r \in Station /\ r.associated /\ r.ptk \in Key /\ saqId \in Nat
  BY DEF ApSide, ApTypeOK, ApKeys, ContestedRequest, PmfSessionProtected
<1>1. r.pn \in Nat /\ r.saQuery \in Nat /\ Len(r.cands) <= MaxCands
  BY <1>0, StationParts DEF ApSide, ApTypeOK
<1>2. id \in Nat /\ saqId' \in Nat
  BY <1>0, <1>1 DEF ContestedRequest
<1>3. CASE r.pn <= MaxPn
  <2> DEFINE q == Queried(r, id)
  <2>1. q \in Station
    BY <1>0, <1>2, <1>3, QueriedType
  <2>2. q.cands = r.cands /\ q.ptk = r.ptk
    BY <1>0 DEF Queried, Station
  <2>3. st' = [st EXCEPT ![s] = q]
    BY <1>3 DEF ContestedRequest
  <2>4. air' \subseteq Frame /\ used' \subseteq Key \X Nat
    BY <1>0, <1>1, <1>2, <1>3, FrameTypes DEF ContestedRequest, ApSide, ApTypeOK
  <2> HIDE DEF q, r
  <2>5. ApKeys'
    BY <1>0, <2>1, <2>2, <2>3, StoreKeys DEF ApSide
  <2>6. st' \in [Sta -> Station] /\ \A t \in Sta : Len(st'[t].cands) <= MaxCands
    BY <1>1, <2>1, <2>2, <2>3, StoreStation DEF ApSide
  <2> QED  BY <1>2, <2>4, <2>5, <2>6 DEF ContestedRequest, ApSide, ApTypeOK
<1>4. CASE ~(r.pn <= MaxPn)
  BY <1>2, <1>4 DEF ContestedRequest, ApSide, ApTypeOK, ApKeys
<1> QED  BY <1>3, <1>4

\* A step that only replaces one record by one of the type with the same
\* candidates and key, or none.
LEMMA RecordStep ==
  ASSUME ApSide, NEW s \in Sta, NEW r \in Station, st' = [st EXCEPT ![s] = r],
         r.cands = st[s].cands \/ r.cands = <<>>,
         r.associated => r.ptk \in Key
  PROVE  /\ st' \in [Sta -> Station] /\ \A t \in Sta : Len(st'[t].cands) <= MaxCands
         /\ ApKeys'
<1>1. Len(r.cands) <= MaxCands
  BY ApBounds DEF ApSide, ApTypeOK
<1> QED  BY <1>1, StoreStation, StoreKeys DEF ApSide

\* Everything of an entry but the PMK, the attributes and the backoff.
KeepsSession(q, r) ==
  /\ q.associated = r.associated /\ q.ready = r.ready /\ q.awaiting = r.awaiting
  /\ q.rekeying = r.rekeying /\ q.anonce = r.anonce /\ q.replay = r.replay
  /\ q.m1Replay = r.m1Replay /\ q.cands = r.cands /\ q.ptk = r.ptk
  /\ q.pn = r.pn /\ q.pending = r.pending /\ q.saQuery = r.saQuery

\* What a request or an SAE commit may do to the PMK and the attributes.
Labels(s, q) ==
  \/ q.pmk = st[s].pmk /\ q.pmf = st[s].pmf
  \/ Security = "transition" /\ q.pmk = st[s].pmk
  \/ SaeEnabled /\ q.pmk \in SaePmk(s) /\ q.pmf = TRUE

\* The steps that change nothing else of an entry.
Relabels(s) == RecvAssocBackoff(s) \/ RecvAssocRefused(s) \/ SaeCommitDone(s)

\* What an admitted request negotiates is such a change.
LEMMA NegotiationLabels ==
  ASSUME NEW s \in Sta, st[s] \in Station, NEW n \in Negotiations(s)
  PROVE  n \in Outcome /\ Labels(s, n) /\ (Security = "wpa3" => n.pmk # NoPmk)
<1>1. n \in Outcome
  BY NegotiationsType
<1>2. Labels(s, n)
  BY DEF Labels, Negotiations, RequestedPmf
<1>3. NoPmk \notin SaePmk(s)
  BY NegotiationsType, NoPmkAssumption
<1>4. Security = "wpa3" => n.pmk # NoPmk
  BY <1>3 DEF Negotiations
<1> QED  BY <1>1, <1>2, <1>4

\* A dropped or refused association request and a completed SAE commit move no session.
LEMMA RelabelEffect ==
  ASSUME ApTypeOK, NEW s \in Sta, Relabels(s)
  PROVE  \E q \in Station :
           /\ st' = [st EXCEPT ![s] = q] /\ KeepsSession(q, st[s]) /\ Labels(s, q)
           /\ known \subseteq known' /\ known' \subseteq known \cup {s}
           /\ UNCHANGED <<air, held, ctr, gtk, rekeyDue, saqId, conn, failed, used, owed>>
<1> DEFINE r == st[s]
<1>0. r \in Station /\ r.pmk \in Pmk \cup {NoPmk}
  BY StationParts DEF ApTypeOK
<1>1. CASE RecvAssocBackoff(s)
  <2>1. PICK b \in RequestedPmf(s) :
          st' = [st EXCEPT ![s] = Negotiated(r, [pmf |-> b, pmk |-> r.pmk])]
    BY <1>1 DEF RecvAssocBackoff
  <2> DEFINE n == [pmf |-> b, pmk |-> r.pmk]
             q == Negotiated(r, n)
  <2>2. n \in Outcome
    BY <1>0, NegotiationsType DEF Outcome
  <2>3. q \in Station
    BY <1>0, <2>2, NegotiatedType
  <2>4. KeepsSession(q, r) /\ q.pmf = b /\ q.pmk = r.pmk
    BY <1>0 DEF KeepsSession, Negotiated, Station
  <2>5. st' = [st EXCEPT ![s] = q]
    BY <2>1
  <2> HIDE DEF q, n
  <2>6. Labels(s, q)
    BY <2>4 DEF Labels, RequestedPmf
  <2> QED  BY <1>1, <2>3, <2>4, <2>5, <2>6 DEF RecvAssocBackoff
<1>2. CASE RecvAssocRefused(s)
  <2>1. PICK b \in RequestedPmf(s) : st' = [st EXCEPT ![s] = Refused(r, b)]
    BY <1>2 DEF RecvAssocRefused
  <2> DEFINE q == Refused(r, b)
  <2>3. q \in Station
    BY <1>0, NegotiationsType, RefusedType
  <2>4. KeepsSession(q, r) /\ q.pmf = b /\ q.pmk = r.pmk
    BY <1>0 DEF KeepsSession, Refused, Station
  <2>5. st' = [st EXCEPT ![s] = q]
    BY <2>1
  <2> HIDE DEF q
  <2>6. Labels(s, q)
    BY <2>4 DEF Labels, RequestedPmf
  <2> QED  BY <1>2, <2>3, <2>4, <2>5, <2>6 DEF RecvAssocRefused
<1>3. CASE SaeCommitDone(s)
  <2>1. PICK p \in SaePmk(s) : st' = [st EXCEPT ![s] = SaeKeyed(r, p)]
    BY <1>3 DEF SaeCommitDone
  <2> DEFINE q == SaeKeyed(r, p)
  <2>3. q \in Station
    BY <1>0, NegotiationsType, SaeKeyedType
  <2>4. KeepsSession(q, r) /\ q.pmf = TRUE /\ q.pmk = p
    BY <1>0 DEF KeepsSession, SaeKeyed, Station
  <2>5. st' = [st EXCEPT ![s] = q]
    BY <2>1
  <2> HIDE DEF q
  <2>6. Labels(s, q)
    BY <1>3, <2>4 DEF Labels, SaeCommitDone
  <2> QED  BY <1>3, <2>3, <2>4, <2>5, <2>6 DEF SaeCommitDone
<1> QED  BY <1>1, <1>2, <1>3 DEF Relabels

\* The actions that change one station record preserve the AP's side of TInv.
LEMMA SmallSteps ==
  ASSUME ApSide, NEW s \in Sta,
         RecvSaQueryResp(s) \/ Relabels(s) \/ RecvAssocAwaitingM4(s)
           \/ RecvG2(s) \/ RetryEapol(s) \/ DeliverToStation(s)
  PROVE  ApSide'
<1> DEFINE r == st[s]
<1>0. r \in Station /\ (r.associated => r.ptk \in Key)
  BY DEF ApSide, ApTypeOK, ApKeys
<1>p. r.pn \in Nat /\ r.pending \in Frame \cup {NoFrame}
  BY <1>0, StationParts
<1>1. CASE RecvSaQueryResp(s)
  <2>1. PICK m \in Received("SAR", s) : st' = [st EXCEPT ![s] = Answered(r, m)]
    BY <1>1 DEF RecvSaQueryResp
  <2> DEFINE q == Answered(r, m)
  <2>2. q \in Station
    BY <1>0, ReceivedType, AnsweredType DEF ApSide
  <2>3. q.cands = r.cands /\ q.ptk = r.ptk /\ q.associated = r.associated
    BY <1>0 DEF Answered, Station
  <2> HIDE DEF q
  <2> QED  BY <1>0, <1>1, <2>1, <2>2, <2>3, RecordStep DEF q, RecvSaQueryResp, ApSide, ApTypeOK
<1>2. CASE Relabels(s)
  <2>1. PICK q \in Station :
          /\ st' = [st EXCEPT ![s] = q] /\ KeepsSession(q, r)
          /\ known' \subseteq known \cup {s}
          /\ UNCHANGED <<air, held, ctr, gtk, rekeyDue, saqId, conn, failed, used, owed>>
    BY <1>2, RelabelEffect DEF ApSide
  <2>2. q.cands = r.cands /\ q.ptk = r.ptk /\ q.associated = r.associated
    BY <2>1 DEF KeepsSession
  <2>3. /\ st' \in [Sta -> Station] /\ \A t \in Sta : Len(st'[t].cands) <= MaxCands
        /\ ApKeys'
    BY <1>0, <2>1, <2>2, RecordStep
  <2> QED  BY <2>1, <2>3 DEF ApSide, ApTypeOK
<1>3. CASE RecvAssocAwaitingM4(s)
  <2>n. PICK n \in Negotiations(s) : st' = [st EXCEPT ![s] = Resent(Negotiated(r, n))]
    BY <1>3 DEF RecvAssocAwaitingM4
  <2> DEFINE o == Negotiated(r, n)
             q == Resent(o)
  <2>0. o \in Station /\ o.cands = r.cands /\ o.ptk = r.ptk /\ o.associated = r.associated
    BY <1>0, NegotiationsType, NegotiatedType DEF Negotiated, Station
  <2>3. st' = [st EXCEPT ![s] = q]
    BY <2>n
  <2> HIDE DEF o
  <2>1. q \in Station
    BY <2>0, ResentType
  <2>2. q.cands = o.cands /\ q.ptk = o.ptk /\ q.associated = o.associated
    BY <2>0 DEF Resent, Station
  <2>4. air' \subseteq Frame
    BY <1>3, <1>p, FrameTypes DEF RecvAssocAwaitingM4, ApSide
  <2> HIDE DEF q
  <2> QED
    BY <1>0, <1>3, <2>0, <2>1, <2>2, <2>3, <2>4, RecordStep
    DEF RecvAssocAwaitingM4, ApSide, ApTypeOK
<1>4. CASE RecvG2(s)
  <2> DEFINE q == G2Station(r)
  <2>1. q \in Station
    BY <1>0, G2StationType
  <2>2. q.cands = r.cands /\ q.ptk = r.ptk /\ q.associated = r.associated
    BY <1>0 DEF G2Station, Station
  <2>3. st' = [st EXCEPT ![s] = q]
    BY <1>4 DEF RecvG2
  <2> HIDE DEF q
  <2> QED  BY <1>0, <1>4, <2>1, <2>2, <2>3, RecordStep DEF RecvG2, ApSide, ApTypeOK
<1>5. CASE RetryEapol(s)
  <2> DEFINE q == [r EXCEPT !.retries = @ + 1]
  <2>0. r.retries + 1 \in 0..MaxRetries
    <3>1. r.retries \in 0..MaxRetries
      BY <1>0 DEF Station
    <3>2. r.retries < MaxRetries
      BY <1>5 DEF RetryEapol
    <3> QED  BY <3>1, <3>2, ApBounds
  <2>1. q \in Station
    BY <1>0, <2>0 DEF Station
  <2>2. q.cands = r.cands /\ q.ptk = r.ptk /\ q.associated = r.associated
    BY <1>0 DEF Station
  <2>3. st' = [st EXCEPT ![s] = q]
    BY <1>5 DEF RetryEapol
  <2>4. air' \subseteq Frame
    BY <1>5, <1>p DEF RetryEapol, ApSide
  <2> HIDE DEF q
  <2> QED
    BY <1>0, <1>5, <2>1, <2>2, <2>3, <2>4, RecordStep DEF RetryEapol, ApSide, ApTypeOK
<1>6. CASE DeliverToStation(s)
  <2> DEFINE q == [r EXCEPT !.pn = @ + 1]
  <2>0. r.pn + 1 \in 1..(MaxPn + 1)
    <3>1. r.pn \in 1..(MaxPn + 1)
      BY <1>0 DEF Station
    <3>2. r.pn <= MaxPn
      BY <1>6 DEF DeliverToStation
    <3> QED  BY <3>1, <3>2, ApBounds
  <2>1. q \in Station
    BY <1>0, <2>0 DEF Station
  <2>2. q.cands = r.cands /\ q.ptk = r.ptk /\ q.associated = r.associated
    BY <1>0 DEF Station
  <2>3. st' = [st EXCEPT ![s] = q]
    BY <1>6 DEF DeliverToStation
  <2>4. used' \subseteq Key \X Nat
    BY <1>0, <1>6, <1>p DEF DeliverToStation, ApSide, ApTypeOK
  <2> HIDE DEF q
  <2> QED
    BY <1>0, <1>6, <2>1, <2>2, <2>3, <2>4, RecordStep DEF DeliverToStation, ApSide, ApTypeOK
<1> QED  BY <1>1, <1>2, <1>3, <1>4, <1>5, <1>6

\* Open authentication preserves the AP's side of TInv.
LEMMA RecvAuthSide ==
  ASSUME ApSide, NEW s \in Sta, RecvAuth(s)
  PROVE  ApSide'
<1> DEFINE q == AuthReset(st[s])
<1>1. q \in Station
  BY AuthResetType DEF ApSide, ApTypeOK
<1>2. q.cands = <<>> /\ q.associated = FALSE
  BY DEF AuthReset, NewStation
<1>3. st' = [st EXCEPT ![s] = q] /\ RetireAssociation(s)
  BY DEF RecvAuth
<1> HIDE DEF q
<1>4. rekeyDue' \in BOOLEAN /\ owed' \in BOOLEAN
  BY <1>3 DEF RetireAssociation, ApSide, ApTypeOK
<1>5. conn' \in [Sta -> Int]
  BY <1>3 DEF RetireAssociation, ApSide, ApTypeOK
<1>6. /\ st' \in [Sta -> Station] /\ \A t \in Sta : Len(st'[t].cands) <= MaxCands
      /\ ApKeys'
  BY <1>1, <1>2, <1>3, RecordStep
<1>7. known' \subseteq Sta
  BY DEF RecvAuth, ApSide, ApTypeOK
<1> QED  BY <1>4, <1>5, <1>6, <1>7 DEF RecvAuth, ApSide, ApTypeOK

\* The basis of message 1 is a pair of natural numbers.
LEMMA BasisType ==
  ASSUME ApTypeOK, NEW s \in Sta
  PROVE  Message1Basis(s) \in Hold
<1>1. st[s] \in Station /\ held[s] \in Hold /\ ctr \in Nat
  BY DEF ApTypeOK
<1>2. st[s].anonce \in Nat /\ st[s].replay \in Nat
  BY <1>1, StationParts
<1> QED  BY <1>1, <1>2 DEF Message1Basis, Hold

\* Association preserves the AP's side of TInv.
LEMMA RecvAssocSide ==
  ASSUME ApSide, NEW s \in Sta, RecvAssoc(s)
  PROVE  ApSide'
<1>n. PICK n \in Negotiations(s) : st' = [st EXCEPT ![s] = M1Station(s, n, Message1Basis(s))]
  BY DEF RecvAssoc
<1>o. n \in Outcome
  BY NegotiationsType DEF ApSide, ApTypeOK
<1> DEFINE b == Message1Basis(s)
           q == M1Station(s, n, b)
<1>1. b \in Hold /\ b.rc \in Nat /\ b.an \in Nat
  BY BasisType DEF ApSide, Hold
<1>2. /\ ctr' = (IF b.rc > ctr THEN b.rc ELSE ctr) /\ held' = [held EXCEPT ![s] = b]
      /\ st' = [st EXCEPT ![s] = q] /\ known' = known \cup {s}
      /\ air' = air \cup {AssocResp(s), M1(s, b.rc, b.an)}
      /\ UNCHANGED <<gtk, rekeyDue, saqId, conn, failed, used, owed>>
  BY <1>n DEF RecvAssoc
<1> HIDE DEF b
<1>3. q \in Station
  BY <1>1, <1>o, M1StationType DEF ApSide, ApTypeOK
<1>4. q.cands = <<>> /\ q.associated = st[s].associated /\ q.ptk = st[s].ptk
  <2>1. st[s] \in Station
    BY DEF ApSide, ApTypeOK
  <2> QED  BY <2>1 DEF M1Station, Negotiated, Station
<1> HIDE DEF q
<1>5. /\ st' \in [Sta -> Station] /\ \A t \in Sta : Len(st'[t].cands) <= MaxCands
      /\ ApKeys'
  BY <1>2, <1>3, <1>4, RecordStep DEF ApSide, ApKeys
<1>6. air' \subseteq Frame
  BY <1>1, <1>2, FrameTypes DEF ApSide
<1> QED  BY <1>1, <1>2, <1>5, <1>6 DEF ApSide, ApTypeOK

\* Message 4 preserves the AP's side of TInv.
LEMMA RecvM4Side ==
  ASSUME ApSide, NEW s \in Sta, RecvM4(s)
  PROVE  ApSide'
<1>1. PICK m \in Received("M4", s), i \in DOMAIN st[s].cands :
        /\ st[s].cands[i].rc = m.rc /\ st[s].cands[i].key = m.key
        /\ st' = [st EXCEPT ![s] = M4Station(st[s], m.key)]
  BY DEF RecvM4
<1>2. st[s] \in Station /\ st[s].cands \in Seq(Candidate)
  BY StationParts DEF ApSide, ApTypeOK
<1>3. m.key \in Key
  <2>1. st[s].cands[i] \in Candidate
    BY <1>1, <1>2
  <2> QED  BY <1>1, <2>1 DEF Candidate
<1> DEFINE q == M4Station(st[s], m.key)
<1>4. q \in Station
  BY <1>2, <1>3, M4StationType
<1>5. q.cands = <<>> /\ q.ptk = m.key
  BY <1>2 DEF M4Station, Station
<1> HIDE DEF q
<1>6. /\ st' \in [Sta -> Station] /\ \A t \in Sta : Len(st'[t].cands) <= MaxCands
      /\ ApKeys'
  BY <1>1, <1>3, <1>4, <1>5, RecordStep DEF q
<1>7. NoHold \in Hold
  BY DEF NoHold, Hold
<1>8. conn' \in [Sta -> Int] /\ held' \in [Sta -> Hold]
  BY <1>7 DEF RecvM4, ApSide, ApTypeOK
<1> QED  BY <1>6, <1>8 DEF RecvM4, ApSide, ApTypeOK

\* Message 2 preserves the AP's side of TInv.
LEMMA RecvM2Side ==
  ASSUME ApSide, NEW s \in Sta, RecvM2(s)
  PROVE  ApSide'
<1> DEFINE rc == IF st[s].awaiting THEN st[s].replay ELSE ctr + 1
<1>1. PICK m \in Received("M2", s) :
        /\ ExpectsM2(s, m) /\ MicVerifies(s, m)
        /\ ctr' = IF st[s].awaiting THEN ctr ELSE rc
        /\ held' = IF st[s].awaiting THEN held ELSE [held EXCEPT ![s] = NoHold]
        /\ st' = [st EXCEPT ![s] = M2Station(s, m, rc)]
        /\ air' = air \cup {M3(s, rc, st[s].anonce, m.key, gtk)}
        /\ UNCHANGED <<known, gtk, rekeyDue, saqId, conn, failed, used, owed>>
  BY DEF RecvM2
<1>2. /\ st[s] \in Station /\ st[s].replay \in Nat /\ st[s].anonce \in Nat
      /\ st[s].cands \in Seq(Candidate) /\ st[s].pmk \in Pmk \cup {NoPmk}
      /\ Len(st[s].cands) <= MaxCands /\ st \in [Sta -> Station]
      /\ ctr \in Nat /\ gtk \in Nat
  BY StationParts DEF ApSide, ApTypeOK
<1>3. rc \in Nat
  BY <1>2
<1>4. m \in Frame /\ m.sn \in Nat
  BY ReceivedType DEF ApSide
<1>5. m.key \in Key
  <2>1. PICK pmk \in PmkCandidates(s) : m.key = PtkOf(s, pmk, st[s].anonce, m.sn)
    BY <1>1 DEF MicVerifies
  <2>2. pmk \in Pmk
    BY <1>2, CredAssumption DEF PmkCandidates
  <2> QED  BY <1>2, <1>4, <2>1, <2>2, PtkType
<1> HIDE DEF rc
<1> DEFINE q == M2Station(s, m, rc)
<1>6. q \in Station
  BY <1>2, <1>3, <1>4, <1>5, M2StationType
<1>7. /\ q.cands = Retain(st[s].cands, [rc |-> rc, key |-> m.key])
      /\ q.associated = st[s].associated /\ q.ptk = st[s].ptk
  BY <1>2 DEF M2Station, Station
<1>8. Len(q.cands) <= MaxCands
  BY <1>2, <1>3, <1>5, <1>7, RetainType DEF Candidate
<1> HIDE DEF q
<1>9. /\ st' \in [Sta -> Station] /\ \A t \in Sta : Len(st'[t].cands) <= MaxCands
      /\ ApKeys'
  BY <1>1, <1>6, <1>7, <1>8, StoreStation, StoreKeys DEF q, ApSide, ApKeys
<1>10. air' \subseteq Frame
  BY <1>1, <1>2, <1>3, <1>5, FrameTypes DEF ApSide
<1>11. held' \in [Sta -> Hold]
  BY <1>1 DEF ApSide, ApTypeOK, NoHold, Hold
<1> QED  BY <1>1, <1>2, <1>3, <1>9, <1>10, <1>11 DEF ApSide, ApTypeOK

\* A rotation preserves the AP's side of TInv, whatever order the counters go out in.
LEMMA RekeyGtkSide ==
  ASSUME ApSide, RekeyGtk
  PROVE  ApSide'
<1> DEFINE n == Cardinality(Associated)
<1>1. PICK rc \in [Associated -> (ctr + 1)..(ctr + n)] :
        /\ st' = [s \in Sta |-> IF s \in Associated THEN G1Station(s, rc[s]) ELSE st[s]]
        /\ air' = air \cup {G1(s, rc[s], st[s].ptk, gtk + 1) : s \in Associated}
  BY DEF RekeyGtk
<1>2. /\ st \in [Sta -> Station] /\ ctr \in Nat /\ gtk \in Nat
      /\ \A s \in Sta : Len(st[s].cands) <= MaxCands
  BY DEF ApSide, ApTypeOK
<1>3. n \in Nat
  BY StaAssumption, FS_Subset, FS_CardinalityType DEF Associated
<1>4. \A s \in Associated : s \in Sta /\ rc[s] \in Nat
  BY <1>2, <1>3 DEF Associated
<1>5. ASSUME NEW s \in Sta
      PROVE  /\ st'[s] \in Station /\ st'[s].cands = st[s].cands
             /\ st'[s].ptk = st[s].ptk /\ st'[s].associated = st[s].associated
  <2>1. CASE s \in Associated
    <3>1. st'[s] = G1Station(s, rc[s])
      BY <1>1, <2>1
    <3>2. G1Station(s, rc[s]) \in Station
      BY <1>2, <1>4, <2>1, G1StationType
    <3>3. st[s] \in Station
      BY <1>2
    <3> QED  BY <3>1, <3>2, <3>3 DEF G1Station, Station
  <2>2. CASE s \notin Associated
    BY <1>1, <1>2, <2>2
  <2> QED  BY <2>1, <2>2
<1>6. st' \in [Sta -> Station] /\ \A t \in Sta : Len(st'[t].cands) <= MaxCands
  BY <1>1, <1>2, <1>5
<1>7. ApKeys'
  BY <1>5 DEF ApKeys, ApSide
<1>8. air' \subseteq Frame
  <2>1. ASSUME NEW s \in Associated PROVE G1(s, rc[s], st[s].ptk, gtk + 1) \in Frame
    <3>1. st[s].ptk \in Key \cup {NoKey}
      BY <1>2, <1>4, StationParts
    <3> QED  BY <1>2, <1>4, <3>1, FrameTypes
  <2> QED  BY <1>1, <2>1 DEF ApSide
<1>9. ctr' \in Nat /\ gtk' \in Nat /\ rekeyDue' = FALSE /\ owed' = FALSE
  BY <1>2, <1>3 DEF RekeyGtk
<1> QED  BY <1>6, <1>7, <1>8, <1>9 DEF RekeyGtk, ApSide, ApTypeOK

\* The remaining actions of the AP preserve its side of TInv.
LEMMA OtherApSteps ==
  ASSUME ApSide, NEW s \in Sta, ExpireHeld(s) \/ RecvDataUnknown(s) \/ RekeyCoalesced
  PROVE  ApSide'
<1>1. CASE ExpireHeld(s)
  BY <1>1 DEF ExpireHeld, NoHold, Hold, ApSide, ApTypeOK, ApKeys
<1>2. CASE RecvDataUnknown(s)
  BY <1>2, FrameTypes DEF RecvDataUnknown, apVars, ApSide, ApTypeOK, ApKeys
<1>3. CASE RekeyCoalesced
  BY <1>3 DEF RekeyCoalesced, ApSide, ApTypeOK, ApKeys
<1> QED  BY <1>1, <1>2, <1>3
-----------------------------------------------------------------------------
(* Client steps *)

ClSide == air \subseteq Frame /\ ClTypeOK /\ ClKeys

\* What TInv says of one client.
LEMMA ClientParts ==
  ASSUME NEW r \in ClientState
  PROVE  /\ r.installed \in BOOLEAN /\ r.ptk \in Key \cup {NoKey} /\ r.pend \in Pending
         /\ r.pend.an \in Nat /\ r.pend.sn \in Nat /\ r.pend.rc \in Nat
         /\ r.replay \in Nat /\ r.gtk \in Nat /\ r.pn \in Nat /\ r.mgmtPn \in Nat
BY DEF ClientState, Pending

\* Storing a well-typed client record keeps the clients' side of TInv.
LEMMA StoreClient ==
  ASSUME ClTypeOK, ClKeys, NEW s \in Sta, NEW r \in ClientState,
         cl' = [cl EXCEPT ![s] = r],
         r.installed => r.ptk \in Key, r.conn = 4 => r.installed
  PROVE  cl' \in [Sta -> ClientState] /\ ClKeys'
BY DEF ClTypeOK, ClKeys

\* A client's disconnect preserves its side of TInv.
LEMMA ClientDisconnectSide ==
  ASSUME ClTypeOK, ClKeys, NEW s \in Sta, ClientDisconnect(s)
  PROVE  cl' \in [Sta -> ClientState] /\ ClKeys'
<1>1. ~NewClient.installed /\ NewClient.conn # 4
  BY DEF NewClient
<1> QED  BY <1>1, NewClientType, StoreClient DEF ClientDisconnect

\* Joining, timing out, being deauthenticated and leaving preserve the clients' side.
LEMMA ClientJoinsAndLeaves ==
  ASSUME ClSide, NEW s \in Sta,
         Beacon(s) \/ RecvAssocResp(s) \/ ClientTimeout(s) \/ ClientRecvDeauth(s)
           \/ ClientLeave(s)
  PROVE  ClSide'
<1>0. cl[s] \in ClientState /\ cl[s].pn \in Nat
  BY ClientParts DEF ClSide, ClTypeOK
<1>1. CASE Beacon(s)
  <2> DEFINE r == [NewClient EXCEPT !.conn = 1]
  <2>1. r \in ClientState
    BY NewClientType DEF ClientState
  <2>2. ~r.installed /\ r.conn # 4
    BY DEF NewClient
  <2>3. cl' = [cl EXCEPT ![s] = r]
    BY <1>1 DEF Beacon
  <2> HIDE DEF r
  <2>4. cl' \in [Sta -> ClientState] /\ ClKeys'
    BY <2>1, <2>2, <2>3, StoreClient DEF ClSide
  <2> QED  BY <1>1, <2>4 DEF Beacon, ClSide, ClTypeOK
<1>2. CASE RecvAssocResp(s)
  <2> DEFINE r == [cl[s] EXCEPT !.conn = 2]
  <2>1. r \in ClientState
    BY <1>0 DEF ClientState
  <2>2. r.installed = cl[s].installed /\ r.ptk = cl[s].ptk /\ r.conn = 2
    BY <1>0 DEF ClientState
  <2>3. cl' = [cl EXCEPT ![s] = r]
    BY <1>2 DEF RecvAssocResp
  <2> HIDE DEF r
  <2> QED  BY <1>2, <2>1, <2>2, <2>3, StoreClient
           DEF RecvAssocResp, ClSide, ClTypeOK, ClKeys
<1>3. CASE ClientTimeout(s)
  BY <1>3, ClientDisconnectSide DEF ClientTimeout, ClSide, ClTypeOK
<1>4. CASE ClientRecvDeauth(s)
  BY <1>4, ClientDisconnectSide DEF ClientRecvDeauth, ClSide, ClTypeOK
<1>5. CASE ClientLeave(s)
  <2>1. cl[s].ptk \in Key
    BY <1>5 DEF ClientLeave, ClSide, ClKeys
  <2>2. air' \subseteq Frame
    BY <1>0, <1>5, <2>1, FrameTypes DEF ClientLeave, ClSide
  <2>3. clUsed' \subseteq Key \X Nat
    BY <1>0, <1>5, <2>1 DEF ClientLeave, ClSide, ClTypeOK
  <2> QED  BY <1>5, <2>2, <2>3, ClientDisconnectSide DEF ClientLeave, ClSide, ClTypeOK
<1> QED  BY <1>1, <1>2, <1>3, <1>4, <1>5

\* Message 1, new or retried, preserves the clients' side.
LEMMA RecvM1Side ==
  ASSUME ClSide, NEW s \in Sta, RecvM1(s) \/ RecvM1Retry(s)
  PROVE  ClSide'
<1>0. /\ cl[s] \in ClientState /\ nsn[s] \in Nat /\ Psk[s] \in Pmk
      /\ cl[s].pend \in Pending /\ cl[s].pend.an \in Nat /\ cl[s].pend.sn \in Nat
  BY ClientParts, CredAssumption DEF ClSide, ClTypeOK
<1>1. CASE RecvM1(s)
  <2>1. PICK m \in Received("M1", s) : AnswerM1(s, m)
    BY <1>1 DEF RecvM1
  <2>2. m.rc \in Nat /\ m.an \in Nat
    BY ReceivedType DEF ClSide
  <2> DEFINE p == [an |-> m.an, sn |-> nsn[s] + 1, rc |-> m.rc]
             k == PtkOf(s, Psk[s], m.an, p.sn)
             r == M1Client(cl[s], p)
  <2>3. p \in Pending /\ p.sn \in Nat
    BY <1>0, <2>2 DEF Pending
  <2>4. /\ nsn' = [nsn EXCEPT ![s] = nsn[s] + 1] /\ cl' = [cl EXCEPT ![s] = r]
        /\ air' = air \cup {M2(s, m.rc, p.sn, k)}
    BY <2>1 DEF AnswerM1
  <2> HIDE DEF p
  <2>5. k \in Key
    BY <1>0, <2>2, <2>3, PtkType
  <2>6. r \in ClientState
    BY <1>0, <2>3, M1ClientType
  <2>7. r.installed = cl[s].installed /\ r.ptk = cl[s].ptk /\ r.conn = cl[s].conn
    BY <1>0 DEF M1Client, ClientState
  <2> HIDE DEF k, r
  <2>8. cl' \in [Sta -> ClientState] /\ ClKeys'
    BY <2>4, <2>6, <2>7, StoreClient DEF ClSide, ClKeys
  <2>9. air' \subseteq Frame
    BY <2>2, <2>3, <2>4, <2>5, FrameTypes DEF ClSide
  <2>10. nsn' \in [Sta -> Nat]
    BY <1>0, <2>4 DEF ClSide, ClTypeOK
  <2> QED  BY <1>1, <2>8, <2>9, <2>10 DEF RecvM1, ClSide, ClTypeOK
<1>2. CASE RecvM1Retry(s)
  <2>1. PICK m \in Received("M1", s) :
          /\ cl' = [cl EXCEPT ![s].pend = [@ EXCEPT !.rc = m.rc]]
          /\ air' = air \cup {M2(s, m.rc, cl[s].pend.sn, PendingKey(s))}
    BY <1>2 DEF RecvM1Retry
  <2>2. m.rc \in Nat
    BY ReceivedType DEF ClSide
  <2> DEFINE p == [cl[s].pend EXCEPT !.rc = m.rc]
             r == [cl[s] EXCEPT !.pend = p]
  <2>3. p \in Pending
    BY <1>0, <2>2 DEF Pending
  <2>4. cl' = [cl EXCEPT ![s] = r]
    BY <2>1
  <2> HIDE DEF p
  <2>5. r \in ClientState
    BY <1>0, <2>3 DEF ClientState
  <2>6. r.installed = cl[s].installed /\ r.ptk = cl[s].ptk /\ r.conn = cl[s].conn
    BY <1>0 DEF ClientState
  <2> HIDE DEF r
  <2>7. cl' \in [Sta -> ClientState] /\ ClKeys'
    BY <2>4, <2>5, <2>6, StoreClient DEF ClSide, ClKeys
  <2>8. PendingKey(s) \in Key
    BY <1>0, PtkType DEF PendingKey
  <2>9. air' \subseteq Frame
    BY <1>0, <2>1, <2>2, <2>8, FrameTypes DEF ClSide
  <2> QED  BY <1>2, <2>7, <2>9 DEF RecvM1Retry, ClSide, ClTypeOK
<1> QED  BY <1>1, <1>2

\* Message 3, new or retried, preserves the clients' side.
LEMMA RecvM3Side ==
  ASSUME ClSide, NEW s \in Sta, RecvM3(s) \/ RecvM3Retry(s)
  PROVE  ClSide'
<1>0. /\ cl[s] \in ClientState /\ Psk[s] \in Pmk
      /\ cl[s].pend.an \in Nat /\ cl[s].pend.sn \in Nat
      /\ cl[s].ptk \in Key \cup {NoKey}
  BY ClientParts, CredAssumption DEF ClSide, ClTypeOK
<1>1. CASE RecvM3(s)
  <2>1. PICK m \in Received("M3", s) :
          /\ m.key = PendingKey(s)
          /\ cl' = [cl EXCEPT ![s] = M3Client(s, m)]
          /\ committed' = committed \cup {m.key}
          /\ delivered' = [delivered EXCEPT ![s] = delivered[s] \cup {m.gtk}]
          /\ air' = air \cup {M4(s, m.rc, m.key)}
    BY <1>1 DEF RecvM3
  <2>2. m \in Frame /\ m.rc \in Nat /\ m.gtk \in Nat
    BY ReceivedType DEF ClSide
  <2>3. m.key \in Key
    BY <1>0, <2>1, PtkType DEF PendingKey
  <2> DEFINE r == M3Client(s, m)
  <2>4. r \in ClientState
    BY <2>2, <2>3, M3ClientType DEF ClSide, ClTypeOK
  <2>5. r.installed = TRUE /\ r.ptk = m.key
    BY <1>0 DEF M3Client, ClientState
  <2> HIDE DEF r
  <2>6. cl' \in [Sta -> ClientState] /\ ClKeys'
    BY <2>1, <2>3, <2>4, <2>5, StoreClient DEF ClSide, r
  <2>7. air' \subseteq Frame
    BY <2>1, <2>2, <2>3, FrameTypes DEF ClSide
  <2>8. delivered' \in [Sta -> SUBSET Nat]
    BY <2>1, <2>2 DEF ClSide, ClTypeOK
  <2> QED  BY <1>1, <2>1, <2>3, <2>6, <2>7, <2>8 DEF RecvM3, ClSide, ClTypeOK
<1>2. CASE RecvM3Retry(s)
  <2>1. PICK m \in Received("M3", s) :
          /\ cl' = [cl EXCEPT ![s].replay = m.rc]
          /\ air' = air \cup {M4(s, m.rc, cl[s].ptk)}
    BY <1>2 DEF RecvM3Retry
  <2>2. m.rc \in Nat
    BY ReceivedType DEF ClSide
  <2> DEFINE r == [cl[s] EXCEPT !.replay = m.rc]
  <2>3. r \in ClientState
    BY <1>0, <2>2 DEF ClientState
  <2>4. r.installed = cl[s].installed /\ r.ptk = cl[s].ptk /\ r.conn = cl[s].conn
    BY <1>0 DEF ClientState
  <2>5. cl' = [cl EXCEPT ![s] = r]
    BY <2>1
  <2> HIDE DEF r
  <2>6. cl' \in [Sta -> ClientState] /\ ClKeys'
    BY <2>3, <2>4, <2>5, StoreClient DEF ClSide, ClKeys
  <2>7. air' \subseteq Frame
    BY <1>0, <2>1, <2>2, FrameTypes DEF ClSide
  <2> QED  BY <1>2, <2>6, <2>7 DEF RecvM3Retry, ClSide, ClTypeOK
<1> QED  BY <1>1, <1>2

\* Group message 1 preserves the clients' side.
LEMMA RecvG1Side ==
  ASSUME ClSide, NEW s \in Sta, RecvG1(s)
  PROVE  ClSide'
<1>0. cl[s] \in ClientState /\ cl[s].ptk \in Key \cup {NoKey}
  BY ClientParts DEF ClSide, ClTypeOK
<1>1. PICK m \in Received("G1", s) :
        /\ \/ /\ cl' = [cl EXCEPT ![s] = G1Client(cl[s], m)]
              /\ delivered' = [delivered EXCEPT ![s] = delivered[s] \cup {m.gtk}]
           \/ UNCHANGED <<cl, delivered>>
        /\ air' = air \cup {G2(s, m.rc, cl[s].ptk)}
  BY DEF RecvG1
<1>2. m \in Frame /\ m.rc \in Nat /\ m.gtk \in Nat
  BY ReceivedType DEF ClSide
<1> DEFINE r == G1Client(cl[s], m)
<1>3. r \in ClientState
  BY <1>0, <1>2, G1ClientType
<1>4. r.installed = cl[s].installed /\ r.ptk = cl[s].ptk /\ r.conn = cl[s].conn
  BY <1>0 DEF G1Client, ClientState
<1> HIDE DEF r
<1>5. cl' \in [Sta -> ClientState] /\ ClKeys'
  <2>1. CASE cl' = [cl EXCEPT ![s] = r]
    BY <1>3, <1>4, <2>1, StoreClient DEF ClSide, ClKeys
  <2>2. CASE UNCHANGED cl
    BY <2>2 DEF ClSide, ClTypeOK, ClKeys
  <2> QED  BY <1>1, <2>1, <2>2 DEF r
<1>6. delivered' \in [Sta -> SUBSET Nat]
  BY <1>1, <1>2 DEF ClSide, ClTypeOK
<1>7. air' \subseteq Frame
  BY <1>0, <1>1, <1>2, FrameTypes DEF ClSide
<1> QED  BY <1>5, <1>6, <1>7 DEF RecvG1, ClSide, ClTypeOK

\* Uplink data and SA Query responses preserve the clients' side.
LEMMA ClientEncrypts ==
  ASSUME ClSide, NEW s \in Sta, ClientRecvSaQuery(s) \/ EncryptUplink(s)
  PROVE  ClSide'
<1>0. cl[s] \in ClientState /\ cl[s].pn \in Nat
  BY ClientParts DEF ClSide, ClTypeOK
<1>1. cl[s].ptk \in Key
  BY DEF ClientRecvSaQuery, ClProtectedMgmt, EncryptUplink, ClSide, ClKeys
<1>2. clUsed' \subseteq Key \X Nat
  BY <1>0, <1>1 DEF ClientRecvSaQuery, EncryptUplink, ClSide, ClTypeOK
<1>3. CASE ClientRecvSaQuery(s)
  <2>1. PICK m \in Received("SAQ", s) :
          /\ cl' = [cl EXCEPT ![s] = QueriedClient(cl[s], m)]
          /\ air' = air \cup {SaQueryResp(s, m.rc, cl[s].ptk, cl[s].pn)}
    BY <1>3 DEF ClientRecvSaQuery
  <2>2. m \in Frame /\ m.rc \in Nat
    BY ReceivedType DEF ClSide
  <2> DEFINE r == QueriedClient(cl[s], m)
  <2>3. r \in ClientState
    BY <1>0, <2>2, QueriedClientType
  <2>4. r.installed = cl[s].installed /\ r.ptk = cl[s].ptk /\ r.conn = cl[s].conn
    BY <1>0 DEF QueriedClient, ClientState
  <2> HIDE DEF r
  <2>5. cl' \in [Sta -> ClientState] /\ ClKeys'
    BY <2>1, <2>3, <2>4, StoreClient DEF ClSide, ClKeys, r
  <2>6. air' \subseteq Frame
    BY <1>0, <1>1, <2>1, <2>2, FrameTypes DEF ClSide
  <2> QED  BY <1>2, <1>3, <2>5, <2>6 DEF ClientRecvSaQuery, ClSide, ClTypeOK
<1>4. CASE EncryptUplink(s)
  <2> DEFINE r == [cl[s] EXCEPT !.pn = cl[s].pn + 1]
  <2>1. r \in ClientState
    BY <1>0 DEF ClientState
  <2>2. r.installed = cl[s].installed /\ r.ptk = cl[s].ptk /\ r.conn = cl[s].conn
    BY <1>0 DEF ClientState
  <2>3. cl' = [cl EXCEPT ![s] = r]
    BY <1>4 DEF EncryptUplink
  <2> HIDE DEF r
  <2>4. cl' \in [Sta -> ClientState] /\ ClKeys'
    BY <2>1, <2>2, <2>3, StoreClient DEF ClSide, ClKeys
  <2> QED  BY <1>2, <1>4, <2>4 DEF EncryptUplink, ClSide, ClTypeOK
<1> QED  BY <1>3, <1>4
-----------------------------------------------------------------------------
(* Type correctness *)

\* The initial state satisfies the typing invariant.
LEMMA TypeInit == Init => TInv
<1> SUFFICES ASSUME Init PROVE TInv
  OBVIOUS
<1>1. NoHold \in Hold /\ Len(NewStation.cands) = 0
  BY DEF NoHold, Hold, NewStation
<1>2. ApTypeOK
  <2>1. st \in [Sta -> Station] /\ \A s \in Sta : Len(st[s].cands) <= MaxCands
    BY <1>1, NewStationType, ApBounds DEF Init, ApInit
  <2>2. conn \in [Sta -> Int] /\ held \in [Sta -> Hold]
    BY <1>1 DEF Init, ApInit
  <2> QED  BY <2>1, <2>2 DEF Init, ApInit, ApTypeOK
<1>3. ClTypeOK
  BY NewClientType DEF Init, ClInit, ClTypeOK
<1>4. KeysInstalled
  BY DEF Init, ApInit, ClInit, KeysInstalled, NewStation, NewClient
<1> QED  BY <1>2, <1>3, <1>4 DEF Init, TInv, TypeOK

\* Every action of the AP preserves the typing invariant.
LEMMA ApStep ==
  ASSUME ApSide, NEW s \in Sta, ApAlone(s) \/ RekeyCoalesced \/ RekeyGtk \/ RecvDataUnknown(s)
  PROVE  ApSide'
BY EndOfSession, ContestedRequestSide, SmallSteps, RecvAuthSide, RecvAssocSide,
   RecvM4Side, RecvM2Side, RekeyGtkSide, OtherApSteps DEF ApAlone, Relabels

\* Every action of a client preserves the typing invariant.
LEMMA ClStep ==
  ASSUME ClSide, NEW s \in Sta, ClAlone(s)
  PROVE  ClSide'
BY ClientJoinsAndLeaves, RecvM1Side, RecvM3Side, RecvG1Side, ClientEncrypts DEF ClAlone

\* The typing invariant is inductive.
LEMMA TypeInductive == TInv /\ [Next]_vars => TInv'
<1> SUFFICES ASSUME ApSide, ClSide, [Next]_vars PROVE ApSide' /\ ClSide'
  BY DEF TInv, TypeOK, KeysInstalled, ApSide, ClSide, ApKeys, ClKeys
<1>1. ASSUME UNCHANGED clVars, ApSide' PROVE ClSide'
  BY <1>1 DEF clVars, ApSide, ClSide, ClTypeOK, ClKeys
<1>2. ASSUME UNCHANGED apVars, ClSide' PROVE ApSide'
  BY <1>2 DEF apVars, ApSide, ClSide, ApTypeOK, ApKeys
<1>3. CASE RekeyCoalesced /\ UNCHANGED clVars
  <2>1. ApSide'
    BY <1>3 DEF RekeyCoalesced, ApSide, ApTypeOK, ApKeys
  <2> QED  BY <1>1, <1>3, <2>1
<1>4. CASE RekeyGtk /\ UNCHANGED clVars
  BY <1>1, <1>4, RekeyGtkSide
<1>5. ASSUME NEW s \in Sta, ApAlone(s) PROVE ApSide' /\ ClSide'
  <2>1. UNCHANGED clVars
    BY <1>5 DEF ApAlone
  <2> QED  BY <1>1, <1>5, <2>1, ApStep
<1>6. ASSUME NEW s \in Sta, ClAlone(s) PROVE ApSide' /\ ClSide'
  <2>1. UNCHANGED apVars
    BY <1>6 DEF ClAlone
  <2> QED  BY <1>2, <1>6, <2>1, ClStep
<1>7. ASSUME NEW s \in Sta, DataToUnknown(s) PROVE ApSide' /\ ClSide'
  BY <1>1, <1>7, ApStep DEF DataToUnknown
<1>8. CASE UNCHANGED vars
  BY <1>8 DEF vars, apVars, clVars, ApSide, ClSide, ApTypeOK, ApKeys, ClTypeOK, ClKeys
<1> QED  BY <1>3, <1>4, <1>5, <1>6, <1>7, <1>8 DEF Next

\* The engine keeps its types for ever, whatever the number of stations: packet
\* numbers stop at MAX_PACKET_NUMBER, retries at MAX_EAPOL_RETRIES, retained PTK
\* candidates at their capacity, and every open port has a real key under it.
THEOREM TypeCorrect == Spec => []TypeOK
<1>1. Spec => []TInv
  BY TypeInit, TypeInductive, PTL DEF Spec
<1> QED  BY <1>1, PTL DEF TInv
=============================================================================
