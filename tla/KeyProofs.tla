------------------------------ MODULE KeyProofs ------------------------------
(***************************************************************************)
(* For every number of stations, keys and frames: the two ends agree on    *)
(* the pairwise key, no station is blamed for a message 2 it answered      *)
(* correctly, no client reuses a packet number, an acknowledged group key  *)
(* was delivered, and on a WPA3 BSS events alternate and a rekey stays     *)
(* armed.                                                                  *)
(*                                                                         *)
(* None of these is inductive: each needs what the frames on the air say   *)
(* of the past.  The module first reduces the actions of the AP to a few   *)
(* effects, then proves one inductive invariant after the other.           *)
(***************************************************************************)
EXTENDS NonceProofs

-----------------------------------------------------------------------------
(* Effects of the AP's actions *)

\* Frames of the given types, and no others, may be added to the air.
Sends(T) == air \subseteq air' /\ \A m \in air' : m \in air \/ m.type \in T

\* What the invariants read of a station's entry is as before, but for what an
\* association request or an SAE commit may do to the PMK and to PMF.
SameEntry(s) ==
  /\ st'[s].associated = st[s].associated /\ st'[s].ready = st[s].ready
  /\ st'[s].awaiting = st[s].awaiting /\ st'[s].rekeying = st[s].rekeying
  /\ st'[s].anonce = st[s].anonce /\ st'[s].replay = st[s].replay
  /\ st'[s].m1Replay = st[s].m1Replay /\ st'[s].cands = st[s].cands
  /\ st'[s].ptk = st[s].ptk /\ st'[s].pending = st[s].pending
  /\ Labels(s, st'[s])

\* Retransmissions, management frames and data: no session moves.
Quiet ==
  /\ \A s \in Sta : SameEntry(s) /\ (held'[s] = held[s] \/ held'[s] = NoHold)
  /\ ctr' = ctr /\ gtk' = gtk /\ conn' = conn /\ failed' = failed
  /\ Sends({"ASSOC_RESP", "SAQ", "DEAUTH"})

\* The session of s ends, or starts over with an authentication.
Cleared(s) ==
  /\ ~st'[s].associated /\ ~st'[s].ready /\ ~st'[s].awaiting /\ ~st'[s].rekeying
  /\ st'[s].replay = 0 /\ st'[s].cands = <<>> /\ st'[s].pmk = NoPmk
  /\ st'[s].pending = NoFrame
  /\ \A t \in Sta : t # s => st'[t] = st[t] /\ (t \in known => t \in known')
  /\ conn' = IF st[s].associated THEN [conn EXCEPT ![s] = @ - 1] ELSE conn
  /\ held' = held /\ ctr' = ctr /\ gtk' = gtk
  /\ Sends({"DEAUTH"})

\* An armed frame has been sent before: what a retry sends is already on the air.
PendingSent(s) == st[s].pending # NoFrame => st[s].pending \in air

\* Management frames leave the EAPOL-Key frames on the air as they are.
LEMMA HandshakeFramesSame ==
  ASSUME NEW T, Sends(T), T \subseteq {"ASSOC_RESP", "SAQ", "SAR", "DEAUTH", "LEAVE"}
  PROVE  /\ air \subseteq air'
         /\ \A s : \A t \in {"M1", "M2", "M3", "M4", "G1", "G2"} :
              Received(t, s)' = Received(t, s)
<1>1. \A t \in {"M1", "M2", "M3", "M4", "G1", "G2"} : t \notin T
  OBVIOUS
<1> QED  BY <1>1 DEF Sends, Received

\* A step that stores one record and keeps the invariants' fields is quiet for
\* every station's entry.
LEMMA StoreSame ==
  ASSUME st \in [Sta -> Station], NEW s \in Sta, NEW r, st' = [st EXCEPT ![s] = r],
         r.associated = st[s].associated, r.ready = st[s].ready,
         r.awaiting = st[s].awaiting, r.rekeying = st[s].rekeying,
         r.anonce = st[s].anonce, r.replay = st[s].replay,
         r.m1Replay = st[s].m1Replay, r.cands = st[s].cands,
         r.ptk = st[s].ptk, r.pending = st[s].pending, Labels(s, r)
  PROVE  \A t \in Sta : SameEntry(t)
<1>1. st'[s] = r /\ \A t \in Sta : t # s => st'[t] = st[t]
  OBVIOUS
<1> QED  BY <1>1 DEF SameEntry, Labels

\* SA Query traffic, refused and repeated association requests, SAE commits,
\* retransmission and downlink data are quiet.
LEMMA QuietActions ==
  ASSUME TInv, NEW s \in Sta, PendingSent(s),
         RecvSaQueryResp(s) \/ Relabels(s) \/ RecvAssocAwaitingM4(s)
           \/ RetryEapol(s) \/ DeliverToStation(s) \/ ContestedRequest(s)
  PROVE  Quiet
<1>0. st[s] \in Station /\ st \in [Sta -> Station]
  BY DEF TInv, TypeOK, ApTypeOK
<1>h. /\ ctr' = ctr /\ gtk' = gtk /\ conn' = conn /\ failed' = failed
      /\ held' = held
  BY DEF RecvSaQueryResp, Relabels, RecvAssocBackoff, RecvAssocRefused, SaeCommitDone,
         RecvAssocAwaitingM4, RetryEapol, DeliverToStation, ContestedRequest
<1>a. Sends({"ASSOC_RESP", "SAQ", "DEAUTH"})
  <2>1. AssocResp(s).type = "ASSOC_RESP"
    BY DEF AssocResp, MkFrame
  <2>2. \A id : SaQueryReq(s, id, st[s].ptk, st[s].pn).type = "SAQ"
    BY DEF SaQueryReq, MkFrame
  <2>3. CASE RecvAssocAwaitingM4(s)
    BY <2>1, <2>3 DEF RecvAssocAwaitingM4, PendingSent, Sends
  <2>4. CASE RetryEapol(s)
    BY <2>4 DEF RetryEapol, PendingSent, Sends
  <2>5. CASE RecvSaQueryResp(s) \/ Relabels(s) \/ DeliverToStation(s)
    BY <2>5 DEF RecvSaQueryResp, Relabels, RecvAssocBackoff, RecvAssocRefused,
                SaeCommitDone, DeliverToStation, Sends
  <2>6. CASE ContestedRequest(s)
    BY <2>2, <2>6 DEF ContestedRequest, Sends
  <2> QED  BY <2>3, <2>4, <2>5, <2>6
<1>e. \A t \in Sta : SameEntry(t)
  <2>1. CASE RecvSaQueryResp(s)
    <3>1. PICK m \in Received("SAR", s) : st' = [st EXCEPT ![s] = Answered(st[s], m)]
      BY <2>1 DEF RecvSaQueryResp
    <3> QED  BY <1>0, <3>1, StoreSame DEF Answered, Station, Labels
  <2>2. CASE Relabels(s)
    <3>1. PICK q \in Station :
            st' = [st EXCEPT ![s] = q] /\ KeepsSession(q, st[s]) /\ Labels(s, q)
      BY <2>2, RelabelEffect DEF TInv, TypeOK
    <3> QED  BY <1>0, <3>1, StoreSame DEF KeepsSession
  <2>3. CASE RecvAssocAwaitingM4(s)
    <3>1. PICK n \in Negotiations(s) : st' = [st EXCEPT ![s] = Resent(Negotiated(st[s], n))]
      BY <2>3 DEF RecvAssocAwaitingM4
    <3> DEFINE q == Resent(Negotiated(st[s], n))
    <3>2. q.pmf = n.pmf /\ q.pmk = n.pmk
      BY <1>0 DEF Negotiated, Resent, Station
    <3>3. KeepsSession(q, st[s])
      BY <1>0 DEF Negotiated, Resent, Station, KeepsSession
    <3> HIDE DEF q
    <3>4. Labels(s, q)
      BY <1>0, <3>2, NegotiationLabels DEF Labels
    <3> QED  BY <1>0, <3>1, <3>3, <3>4, StoreSame DEF KeepsSession, q
  <2>4. CASE RetryEapol(s)
    BY <1>0, <2>4, StoreSame DEF RetryEapol, Station, Labels
  <2>5. CASE DeliverToStation(s)
    BY <1>0, <2>5, StoreSame DEF DeliverToStation, Station, Labels
  <2>6. CASE ContestedRequest(s)
    <3> DEFINE id == IF st[s].saQuery # 0 THEN st[s].saQuery ELSE saqId + 1
    <3>1. CASE st' = [st EXCEPT ![s] = Queried(st[s], id)]
      BY <1>0, <3>1, StoreSame DEF Queried, Station, Labels
    <3>2. CASE st' = st
      BY <3>2 DEF SameEntry, Labels
    <3> QED  BY <2>6, <3>1, <3>2 DEF ContestedRequest
  <2> QED  BY <2>1, <2>2, <2>3, <2>4, <2>5, <2>6
<1> QED  BY <1>a, <1>e, <1>h DEF Quiet

\* Steps that touch no entry of the table are quiet.
LEMMA QuietOthers ==
  ASSUME TInv, \/ UNCHANGED <<air, apVars>>
               \/ RekeyCoalesced
               \/ \E s \in Sta : ExpireHeld(s) \/ RecvDataUnknown(s)
  PROVE  Quiet
<1>1. CASE UNCHANGED <<air, apVars>> \/ RekeyCoalesced
  BY <1>1 DEF apVars, RekeyCoalesced, Quiet, SameEntry, Labels, Sends
<1>2. ASSUME NEW s \in Sta, ExpireHeld(s) PROVE Quiet
  <2>1. held \in [Sta -> Hold]
    BY DEF TInv, TypeOK, ApTypeOK
  <2> QED  BY <1>2, <2>1 DEF ExpireHeld, Quiet, SameEntry, Labels, Sends
<1>3. ASSUME NEW s \in Sta, RecvDataUnknown(s) PROVE Quiet
  <2>1. Deauth(s, NoKey, 0).type = "DEAUTH"
    BY DEF Deauth, MkFrame
  <2> QED  BY <1>3, <2>1 DEF RecvDataUnknown, apVars, Quiet, SameEntry, Labels, Sends
<1> QED  BY <1>1, <1>2, <1>3

\* Every action that ends a session, and a fresh authentication, clears the entry.
LEMMA ClearingActions ==
  ASSUME TInv, NEW s \in Sta,
         Kick(s) \/ PruneIdle(s) \/ RecvDeauth(s) \/ RecvBadM2(s) \/ TimeoutEapol(s)
           \/ SaQueryTimeout(s) \/ ExpireSae(s) \/ RecvAuth(s)
  PROVE  Cleared(s)
<1>0. st \in [Sta -> Station]
  BY DEF TInv, TypeOK, ApTypeOK
<1>1. RetireAssociation(s) /\ held' = held /\ ctr' = ctr /\ gtk' = gtk
  BY DEF Kick, PruneIdle, RecvDeauth, RecvBadM2, TimeoutEapol, SaQueryTimeout,
         ExpireSae, RecvAuth, Disconnect
<1>2. Sends({"DEAUTH"})
  <2>1. \A k, n : Deauth(s, k, n).type = "DEAUTH"
    BY DEF Deauth, MkFrame
  <2> QED
    BY <2>1 DEF Kick, PruneIdle, RecvDeauth, RecvBadM2, TimeoutEapol, SaQueryTimeout,
                ExpireSae, RecvAuth, SendDeauth, Sends
<1>3. /\ known \ {s} \subseteq known'
      /\ \/ st' = [st EXCEPT ![s] = NewStation]
         \/ st' = [st EXCEPT ![s] = AuthReset(st[s])]
  BY DEF Kick, PruneIdle, RecvDeauth, RecvBadM2, TimeoutEapol, SaQueryTimeout,
         ExpireSae, RecvAuth, Disconnect
<1>r. PICK r : st' = [st EXCEPT ![s] = r] /\ (r = NewStation \/ r = AuthReset(st[s]))
  BY <1>3
<1>4. /\ ~r.associated /\ ~r.ready /\ ~r.awaiting /\ ~r.rekeying
      /\ r.replay = 0 /\ r.cands = <<>> /\ r.pmk = NoPmk /\ r.pending = NoFrame
  <2>1. CASE r = NewStation
    BY <2>1 DEF NewStation
  <2>2. CASE r = AuthReset(st[s])
    BY <2>2 DEF NewStation, AuthReset
  <2> QED  BY <1>r, <2>1, <2>2
<1>5. st'[s] = r /\ \A t \in Sta : t # s => st'[t] = st[t]
  BY <1>0, <1>r
<1> QED  BY <1>1, <1>2, <1>3, <1>4, <1>5 DEF Cleared, RetireAssociation

\* A fresh association request opens a handshake with the basis of message 1.
LEMMA AssocEffect ==
  ASSUME TInv, NEW s \in Sta, RecvAssoc(s), NEW b, b = Message1Basis(s)
  PROVE  /\ b \in Hold /\ b.rc \in Nat /\ b.an \in Nat
         /\ ctr' = IF b.rc > ctr THEN b.rc ELSE ctr
         /\ held' = [held EXCEPT ![s] = b]
         /\ air' = air \cup {AssocResp(s), M1(s, b.rc, b.an)}
         /\ \A t \in Sta : t # s => st'[t] = st[t] /\ held'[t] = held[t]
         /\ held'[s] = b
         /\ st'[s].ready /\ st'[s].anonce = b.an /\ st'[s].replay = b.rc
         /\ st'[s].m1Replay = b.rc /\ st'[s].cands = <<>>
         /\ st'[s].pending = M1(s, b.rc, b.an)
         /\ st'[s].associated = st[s].associated /\ st'[s].awaiting = st[s].awaiting
         /\ st'[s].rekeying = st[s].rekeying /\ st'[s].ptk = st[s].ptk
         /\ Labels(s, st'[s]) /\ (Security = "wpa3" => st'[s].pmk # NoPmk)
         /\ gtk' = gtk /\ conn' = conn /\ failed' = failed /\ known' = known \cup {s}
<1>0. st \in [Sta -> Station] /\ held \in [Sta -> Hold] /\ st[s] \in Station
  BY DEF TInv, TypeOK, ApTypeOK
<1>1. b \in Hold /\ b.rc \in Nat /\ b.an \in Nat
  BY BasisType DEF TInv, TypeOK, Hold
<1>n. PICK n \in Negotiations(s) : st' = [st EXCEPT ![s] = M1Station(s, n, b)]
  BY DEF RecvAssoc
<1>l. Labels(s, n) /\ (Security = "wpa3" => n.pmk # NoPmk)
  BY <1>0, NegotiationLabels
<1>2. /\ ctr' = (IF b.rc > ctr THEN b.rc ELSE ctr) /\ held' = [held EXCEPT ![s] = b]
      /\ st' = [st EXCEPT ![s] = M1Station(s, n, b)]
      /\ air' = air \cup {AssocResp(s), M1(s, b.rc, b.an)}
      /\ gtk' = gtk /\ conn' = conn /\ failed' = failed /\ known' = known \cup {s}
  BY <1>n DEF RecvAssoc
<1> DEFINE r == M1Station(s, n, b)
<1>3. /\ r.ready /\ r.anonce = b.an /\ r.replay = b.rc /\ r.m1Replay = b.rc
      /\ r.cands = <<>> /\ r.pending = M1(s, b.rc, b.an)
      /\ r.associated = st[s].associated /\ r.awaiting = st[s].awaiting
      /\ r.rekeying = st[s].rekeying /\ r.ptk = st[s].ptk
      /\ r.pmk = n.pmk /\ r.pmf = n.pmf
  BY <1>0 DEF M1Station, Negotiated, Station
<1>4. st'[s] = r /\ held'[s] = b /\ \A t \in Sta : t # s => st'[t] = st[t] /\ held'[t] = held[t]
  BY <1>0, <1>2
<1> HIDE DEF r
<1>5. Labels(s, r)
  BY <1>l, <1>3 DEF Labels
<1> QED  BY <1>l, <1>1, <1>2, <1>3, <1>4, <1>5

\* Message 2 retains its key as a candidate and moves the handshake to message 3.
LEMMA M2Effect ==
  ASSUME TInv, NEW s \in Sta, RecvM2(s)
  PROVE  \E m \in Received("M2", s), rc \in Nat :
         /\ ExpectsM2(s, m) /\ MicVerifies(s, m) /\ m.key \in Key
         /\ st[s].awaiting => rc = st[s].replay /\ ctr' = ctr /\ held'[s] = held[s]
         /\ ~st[s].awaiting => rc = ctr + 1 /\ ctr' = rc /\ held'[s] = NoHold
         /\ air' = air \cup {M3(s, rc, st[s].anonce, m.key, gtk)}
         /\ \A t \in Sta : t # s => st'[t] = st[t] /\ held'[t] = held[t]
         /\ ~st'[s].ready /\ st'[s].awaiting /\ st'[s].anonce = st[s].anonce
         /\ st'[s].replay = rc /\ st'[s].pmk = m.key.pmk
         /\ st'[s].cands = Retain(st[s].cands, [rc |-> rc, key |-> m.key])
         /\ st'[s].pending = M3(s, rc, st[s].anonce, m.key, gtk)
         /\ st'[s].associated = st[s].associated /\ st'[s].rekeying = st[s].rekeying
         /\ st'[s].ptk = st[s].ptk /\ st'[s].pmf = st[s].pmf
         /\ gtk' = gtk /\ conn' = conn /\ failed' = failed /\ known' = known
<1> DEFINE rc == IF st[s].awaiting THEN st[s].replay ELSE ctr + 1
<1>1. PICK m \in Received("M2", s) :
        /\ ExpectsM2(s, m) /\ MicVerifies(s, m)
        /\ ctr' = IF st[s].awaiting THEN ctr ELSE rc
        /\ held' = IF st[s].awaiting THEN held ELSE [held EXCEPT ![s] = NoHold]
        /\ st' = [st EXCEPT ![s] = M2Station(s, m, rc)]
        /\ air' = air \cup {M3(s, rc, st[s].anonce, m.key, gtk)}
        /\ gtk' = gtk /\ conn' = conn /\ failed' = failed /\ known' = known
  BY DEF RecvM2
<1>2. /\ st \in [Sta -> Station] /\ held \in [Sta -> Hold] /\ st[s] \in Station
      /\ ctr \in Nat /\ st[s].replay \in Nat /\ st[s].anonce \in Nat
      /\ st[s].pmk \in Pmk \cup {NoPmk}
  BY StationParts DEF TInv, TypeOK, ApTypeOK
<1>3. rc \in Nat
  BY <1>2
<1>4. m.key \in Key
  <2>1. PICK pmk \in PmkCandidates(s) : m.key = PtkOf(s, pmk, st[s].anonce, m.sn)
    BY <1>1 DEF MicVerifies
  <2>2. pmk \in Pmk
    BY <1>2, CredAssumption DEF PmkCandidates
  <2>3. m.sn \in Nat
    BY ReceivedType DEF TInv, TypeOK
  <2> QED  BY <1>2, <2>1, <2>2, <2>3, PtkType
<1>5. /\ st[s].awaiting => rc = st[s].replay /\ ctr' = ctr /\ held'[s] = held[s]
      /\ ~st[s].awaiting => rc = ctr + 1 /\ ctr' = rc /\ held'[s] = NoHold
      /\ \A t \in Sta : t # s => held'[t] = held[t]
  BY <1>1, <1>2
<1> HIDE DEF rc
<1> DEFINE r == M2Station(s, m, rc)
<1>6. /\ ~r.ready /\ r.awaiting /\ r.anonce = st[s].anonce
      /\ r.replay = rc /\ r.pmk = m.key.pmk
      /\ r.cands = Retain(st[s].cands, [rc |-> rc, key |-> m.key])
      /\ r.pending = M3(s, rc, st[s].anonce, m.key, gtk)
      /\ r.associated = st[s].associated /\ r.rekeying = st[s].rekeying
      /\ r.ptk = st[s].ptk /\ r.pmf = st[s].pmf
  BY <1>2 DEF M2Station, Station
<1>7. st'[s] = r /\ \A t \in Sta : t # s => st'[t] = st[t]
  BY <1>1, <1>2
<1> HIDE DEF r
<1> QED  BY <1>1, <1>3, <1>4, <1>5, <1>6, <1>7

\* Message 4 installs the candidate it names.
LEMMA M4Effect ==
  ASSUME TInv, NEW s \in Sta, RecvM4(s)
  PROVE  \E m \in Received("M4", s), i \in DOMAIN st[s].cands :
         /\ st[s].cands[i].key = m.key /\ ~GroupParserClaims(s, m)
         /\ st[s].awaiting /\ s \in known
         /\ \A t \in Sta : t # s => st'[t] = st[t] /\ held'[t] = held[t]
         /\ st'[s].associated /\ ~st'[s].awaiting /\ st'[s].ptk = m.key
         /\ st'[s].cands = <<>> /\ st'[s].pending = NoFrame
         /\ st'[s].ready = st[s].ready /\ st'[s].rekeying = st[s].rekeying
         /\ st'[s].anonce = st[s].anonce /\ st'[s].replay = st[s].replay
         /\ st'[s].m1Replay = st[s].m1Replay
         /\ st'[s].pmk = st[s].pmk /\ st'[s].pmf = st[s].pmf
         /\ held'[s] = NoHold /\ conn' = [conn EXCEPT ![s] = conn[s] + 1]
         /\ air' = air /\ ctr' = ctr /\ gtk' = gtk /\ failed' = failed /\ known' = known
<1>1. PICK m \in Received("M4", s), i \in DOMAIN st[s].cands :
        /\ ~GroupParserClaims(s, m) /\ st[s].cands[i].key = m.key
        /\ st' = [st EXCEPT ![s] = M4Station(st[s], m.key)]
  BY DEF RecvM4
<1>2. /\ held' = [held EXCEPT ![s] = NoHold] /\ conn' = [conn EXCEPT ![s] = conn[s] + 1]
      /\ air' = air /\ ctr' = ctr /\ gtk' = gtk /\ failed' = failed /\ known' = known
      /\ st[s].awaiting /\ s \in known
  BY DEF RecvM4
<1>3. st \in [Sta -> Station] /\ held \in [Sta -> Hold] /\ st[s] \in Station
  BY DEF TInv, TypeOK, ApTypeOK
<1> DEFINE r == M4Station(st[s], m.key)
<1>4. /\ r.associated /\ ~r.awaiting /\ r.ptk = m.key
      /\ r.cands = <<>> /\ r.pending = NoFrame
      /\ r.ready = st[s].ready /\ r.rekeying = st[s].rekeying
      /\ r.anonce = st[s].anonce /\ r.replay = st[s].replay /\ r.m1Replay = st[s].m1Replay
      /\ r.pmk = st[s].pmk /\ r.pmf = st[s].pmf
  BY <1>3 DEF M4Station, Station
<1>5. /\ st'[s] = r /\ held'[s] = NoHold
      /\ \A t \in Sta : t # s => st'[t] = st[t] /\ held'[t] = held[t]
  BY <1>1, <1>2, <1>3
<1> HIDE DEF r
<1> QED  BY <1>1, <1>2, <1>4, <1>5

\* Group message 2 clears the rekey and its armed frame.
LEMMA G2Effect ==
  ASSUME TInv, NEW s \in Sta, RecvG2(s)
  PROVE  \E m \in Received("G2", s) :
         /\ st[s].rekeying /\ m.rc = st[s].replay /\ m.key = st[s].ptk
         /\ \A t \in Sta : t # s => st'[t] = st[t]
         /\ ~st'[s].rekeying /\ st'[s].pending = NoFrame
         /\ st'[s].associated = st[s].associated /\ st'[s].ready = st[s].ready
         /\ st'[s].awaiting = st[s].awaiting /\ st'[s].anonce = st[s].anonce
         /\ st'[s].replay = st[s].replay /\ st'[s].m1Replay = st[s].m1Replay
         /\ st'[s].cands = st[s].cands /\ st'[s].ptk = st[s].ptk
         /\ st'[s].pmk = st[s].pmk /\ st'[s].pmf = st[s].pmf
         /\ air' = air /\ ctr' = ctr /\ gtk' = gtk /\ held' = held
         /\ conn' = conn /\ failed' = failed /\ known' = known
<1>1. PICK m \in Received("G2", s) :
        st[s].rekeying /\ m.rc = st[s].replay /\ m.key = st[s].ptk
  BY DEF RecvG2, GroupParserClaims
<1>2. /\ st' = [st EXCEPT ![s] = G2Station(st[s])]
      /\ air' = air /\ ctr' = ctr /\ gtk' = gtk /\ held' = held
      /\ conn' = conn /\ failed' = failed /\ known' = known
  BY DEF RecvG2
<1>3. st \in [Sta -> Station] /\ st[s] \in Station
  BY DEF TInv, TypeOK, ApTypeOK
<1> DEFINE r == G2Station(st[s])
<1>4. /\ ~r.rekeying /\ r.pending = NoFrame
      /\ r.associated = st[s].associated /\ r.ready = st[s].ready
      /\ r.awaiting = st[s].awaiting /\ r.anonce = st[s].anonce
      /\ r.replay = st[s].replay /\ r.m1Replay = st[s].m1Replay
      /\ r.cands = st[s].cands /\ r.ptk = st[s].ptk
      /\ r.pmk = st[s].pmk /\ r.pmf = st[s].pmf
  BY <1>3 DEF G2Station, Station
<1>5. st'[s] = r /\ \A t \in Sta : t # s => st'[t] = st[t]
  BY <1>2, <1>3
<1> HIDE DEF r
<1> QED  BY <1>1, <1>2, <1>4, <1>5

\* A rotation arms a fresh counter and a group message 1 for every associated
\* station, and leaves the others alone.
LEMMA RekeyEffect ==
  ASSUME TInv, RekeyGtk
  PROVE  \E rc \in [Associated -> Nat] :
         /\ \A s \in Associated : rc[s] > ctr /\ rc[s] <= ctr'
         /\ ctr' \in Nat /\ ctr <= ctr' /\ gtk' = gtk + 1 /\ ~RekeyInFlight
         /\ air' = air \cup {G1(s, rc[s], st[s].ptk, gtk + 1) : s \in Associated}
         /\ \A s \in Sta \ Associated : st'[s] = st[s]
         /\ \A s \in Associated :
              /\ st'[s].rekeying /\ st'[s].replay = rc[s]
              /\ st'[s].pending = G1(s, rc[s], st[s].ptk, gtk + 1)
              /\ st'[s].associated = st[s].associated /\ st'[s].ready = st[s].ready
              /\ st'[s].awaiting = st[s].awaiting /\ st'[s].anonce = st[s].anonce
              /\ st'[s].m1Replay = st[s].m1Replay /\ st'[s].cands = st[s].cands
              /\ st'[s].ptk = st[s].ptk /\ st'[s].pmk = st[s].pmk
              /\ st'[s].pmf = st[s].pmf
         /\ held' = held /\ conn' = conn /\ failed' = failed /\ known' = known
<1> DEFINE n == Cardinality(Associated)
<1>1. PICK rc \in [Associated -> (ctr + 1)..(ctr + n)] :
        /\ st' = [s \in Sta |-> IF s \in Associated THEN G1Station(s, rc[s]) ELSE st[s]]
        /\ air' = air \cup {G1(s, rc[s], st[s].ptk, gtk + 1) : s \in Associated}
  BY DEF RekeyGtk
<1>2. /\ ctr' = ctr + n /\ gtk' = gtk + 1 /\ ~RekeyInFlight
      /\ held' = held /\ conn' = conn /\ failed' = failed /\ known' = known
  BY DEF RekeyGtk
<1>3. n \in Nat /\ ctr \in Nat
  BY StaAssumption, FS_Subset, FS_CardinalityType DEF Associated, TInv, TypeOK, ApTypeOK
<1> HIDE DEF n
<1>4. \A s \in Associated : rc[s] \in Nat /\ rc[s] > ctr /\ rc[s] <= ctr'
  BY <1>1, <1>2, <1>3
<1>5. rc \in [Associated -> Nat]
  BY <1>1, <1>4
<1>6. ctr' \in Nat /\ ctr <= ctr'
  BY <1>2, <1>3
<1>7. ASSUME NEW s \in Associated
      PROVE  /\ st'[s].rekeying /\ st'[s].replay = rc[s]
             /\ st'[s].pending = G1(s, rc[s], st[s].ptk, gtk + 1)
             /\ st'[s].associated = st[s].associated /\ st'[s].ready = st[s].ready
             /\ st'[s].awaiting = st[s].awaiting /\ st'[s].anonce = st[s].anonce
             /\ st'[s].m1Replay = st[s].m1Replay /\ st'[s].cands = st[s].cands
             /\ st'[s].ptk = st[s].ptk /\ st'[s].pmk = st[s].pmk
             /\ st'[s].pmf = st[s].pmf
  <2>1. s \in Sta /\ st'[s] = G1Station(s, rc[s])
    BY <1>1 DEF Associated
  <2>2. st[s] \in Station
    BY <2>1 DEF TInv, TypeOK, ApTypeOK
  <2> QED  BY <2>1, <2>2 DEF G1Station, Station
<1>8. \A s \in Sta \ Associated : st'[s] = st[s]
  BY <1>1
<1> QED  BY <1>1, <1>2, <1>4, <1>5, <1>6, <1>7, <1>8

-----------------------------------------------------------------------------
(* Effects of the clients' actions *)

\* The installed key's packet number is used, or nothing is.
ClMayEncrypt(s) ==
  \/ clUsed' = clUsed
  \/ cl[s].installed /\ clUsed' = clUsed \cup {<<cl[s].ptk, cl[s].pn>>}

\* reset_session_keys
ClCleared(s) ==
  /\ ~cl'[s].installed /\ cl'[s].pend = NoPending /\ cl'[s].replay = 0
  /\ \A t \in Sta : t # s => cl'[t] = cl[t]
  /\ ClMayEncrypt(s)
  /\ nsn' = nsn /\ committed' = committed /\ delivered' = delivered
  /\ Sends({"LEAVE"})

\* The client keeps its keys, and advances the packet number it uses.
ClKept(s) ==
  /\ cl'[s].installed = cl[s].installed /\ cl'[s].ptk = cl[s].ptk
  /\ cl'[s].pend = cl[s].pend /\ cl'[s].replay = cl[s].replay
  /\ \/ clUsed' = clUsed /\ cl'[s].pn = cl[s].pn
     \/ /\ cl[s].installed /\ clUsed' = clUsed \cup {<<cl[s].ptk, cl[s].pn>>}
        /\ cl'[s].pn = cl[s].pn + 1
  /\ \A t \in Sta : t # s => cl'[t] = cl[t]
  /\ nsn' = nsn /\ committed' = committed /\ delivered' = delivered
  /\ Sends({"SAR"})

\* Joining anew and every way of leaving forget the keys.
LEMMA ClClearingActions ==
  ASSUME TInv, NEW s \in Sta,
         Beacon(s) \/ ClientTimeout(s) \/ ClientRecvDeauth(s) \/ ClientLeave(s)
  PROVE  ClCleared(s)
<1>0. cl \in [Sta -> ClientState]
  BY DEF TInv, TypeOK, ClTypeOK
<1>1. /\ \/ cl' = [cl EXCEPT ![s] = NewClient]
         \/ cl' = [cl EXCEPT ![s] = [NewClient EXCEPT !.conn = 1]]
      /\ nsn' = nsn /\ committed' = committed /\ delivered' = delivered
  BY DEF Beacon, ClientTimeout, ClientRecvDeauth, ClientLeave, ClientDisconnect
<1>2. /\ ~cl'[s].installed /\ cl'[s].pend = NoPending /\ cl'[s].replay = 0
      /\ \A t \in Sta : t # s => cl'[t] = cl[t]
  BY <1>0, <1>1 DEF NewClient
<1>3. ClMayEncrypt(s)
  BY DEF Beacon, ClientTimeout, ClientRecvDeauth, ClientLeave, ClMayEncrypt
<1>4. Sends({"LEAVE"})
  <2>1. Leave(s, cl[s].ptk, cl[s].pn).type = "LEAVE"
    BY DEF Leave, MkFrame
  <2> QED  BY <2>1 DEF Beacon, ClientTimeout, ClientRecvDeauth, ClientLeave, Sends
<1> QED  BY <1>1, <1>2, <1>3, <1>4 DEF ClCleared

\* Association responses, SA Queries and uplink data keep the keys.
LEMMA ClKeepingActions ==
  ASSUME TInv, NEW s \in Sta, RecvAssocResp(s) \/ ClientRecvSaQuery(s) \/ EncryptUplink(s)
  PROVE  ClKept(s)
<1>0. cl \in [Sta -> ClientState] /\ cl[s] \in ClientState /\ (cl[s].conn = 4 => cl[s].installed)
  BY DEF TInv, TypeOK, ClTypeOK, KeysInstalled
<1>1. nsn' = nsn /\ committed' = committed /\ delivered' = delivered
  BY DEF RecvAssocResp, ClientRecvSaQuery, EncryptUplink
<1>2. Sends({"SAR"})
  <2>1. \A id : SaQueryResp(s, id, cl[s].ptk, cl[s].pn).type = "SAR"
    BY DEF SaQueryResp, MkFrame
  <2> QED  BY <2>1 DEF RecvAssocResp, ClientRecvSaQuery, EncryptUplink, Sends
<1>3. CASE RecvAssocResp(s)
  <2>1. cl' = [cl EXCEPT ![s] = [cl[s] EXCEPT !.conn = 2]] /\ clUsed' = clUsed
    BY <1>3 DEF RecvAssocResp
  <2> QED  BY <1>0, <1>1, <1>2, <2>1 DEF ClKept, ClientState
<1>4. CASE ClientRecvSaQuery(s)
  <2>1. PICK m \in Received("SAQ", s) : cl' = [cl EXCEPT ![s] = QueriedClient(cl[s], m)]
    BY <1>4 DEF ClientRecvSaQuery
  <2>2. cl[s].installed /\ clUsed' = clUsed \cup {<<cl[s].ptk, cl[s].pn>>}
    BY <1>4 DEF ClientRecvSaQuery, ClProtectedMgmt
  <2> QED  BY <1>0, <1>1, <1>2, <2>1, <2>2 DEF ClKept, QueriedClient, ClientState
<1>5. CASE EncryptUplink(s)
  <2>1. /\ cl' = [cl EXCEPT ![s] = [cl[s] EXCEPT !.pn = cl[s].pn + 1]]
        /\ cl[s].installed /\ clUsed' = clUsed \cup {<<cl[s].ptk, cl[s].pn>>}
    BY <1>0, <1>5 DEF EncryptUplink
  <2> QED  BY <1>0, <1>1, <1>2, <2>1 DEF ClKept, ClientState
<1> QED  BY <1>3, <1>4, <1>5

\* A new message 1 is answered under a new SNonce.
LEMMA M1Effect ==
  ASSUME TInv, NEW s \in Sta, RecvM1(s)
  PROVE  \E m \in Received("M1", s) :
         /\ nsn' = [nsn EXCEPT ![s] = nsn[s] + 1]
         /\ cl'[s].pend = [an |-> m.an, sn |-> nsn[s] + 1, rc |-> m.rc]
         /\ cl'[s].installed = cl[s].installed /\ cl'[s].ptk = cl[s].ptk
         /\ cl'[s].replay = cl[s].replay /\ cl'[s].pn = cl[s].pn
         /\ \A t \in Sta : t # s => cl'[t] = cl[t]
         /\ air' = air \cup {M2(s, m.rc, nsn[s] + 1, PtkOf(s, Psk[s], m.an, nsn[s] + 1))}
         /\ committed' = committed /\ clUsed' = clUsed /\ delivered' = delivered
<1>0. cl \in [Sta -> ClientState] /\ cl[s] \in ClientState
  BY DEF TInv, TypeOK, ClTypeOK
<1>1. PICK m \in Received("M1", s) : AnswerM1(s, m)
  BY DEF RecvM1
<1> DEFINE p == [an |-> m.an, sn |-> nsn[s] + 1, rc |-> m.rc]
<1>2. /\ nsn' = [nsn EXCEPT ![s] = nsn[s] + 1] /\ cl' = [cl EXCEPT ![s] = M1Client(cl[s], p)]
      /\ air' = air \cup {M2(s, m.rc, nsn[s] + 1, PtkOf(s, Psk[s], m.an, nsn[s] + 1))}
  BY <1>1 DEF AnswerM1
<1>3. committed' = committed /\ clUsed' = clUsed /\ delivered' = delivered
  BY DEF RecvM1
<1> HIDE DEF p
<1>4. /\ cl'[s].pend = p /\ cl'[s].installed = cl[s].installed /\ cl'[s].ptk = cl[s].ptk
      /\ cl'[s].replay = cl[s].replay /\ cl'[s].pn = cl[s].pn
      /\ \A t \in Sta : t # s => cl'[t] = cl[t]
  BY <1>0, <1>2 DEF M1Client, ClientState
<1> QED  BY <1>2, <1>3, <1>4 DEF p

\* A retried message 1 is answered under the SNonce of the message 2 that was lost.
LEMMA M1RetryEffect ==
  ASSUME TInv, NEW s \in Sta, RecvM1Retry(s)
  PROVE  \E m \in Received("M1", s) :
         /\ m.an = cl[s].pend.an
         /\ cl'[s].pend.an = cl[s].pend.an /\ cl'[s].pend.sn = cl[s].pend.sn
         /\ cl'[s].installed = cl[s].installed /\ cl'[s].ptk = cl[s].ptk
         /\ cl'[s].replay = cl[s].replay /\ cl'[s].pn = cl[s].pn
         /\ \A t \in Sta : t # s => cl'[t] = cl[t]
         /\ air' = air \cup {M2(s, m.rc, cl[s].pend.sn, PendingKey(s))}
         /\ nsn' = nsn /\ committed' = committed /\ clUsed' = clUsed
         /\ delivered' = delivered
<1>0. cl \in [Sta -> ClientState] /\ cl[s] \in ClientState /\ cl[s].pend \in Pending
  BY ClientParts DEF TInv, TypeOK, ClTypeOK
<1>1. PICK m \in Received("M1", s) :
        /\ m.an = cl[s].pend.an
        /\ cl' = [cl EXCEPT ![s] = [cl[s] EXCEPT !.pend = [cl[s].pend EXCEPT !.rc = m.rc]]]
        /\ air' = air \cup {M2(s, m.rc, cl[s].pend.sn, PendingKey(s))}
  BY DEF RecvM1Retry, IsM1Retry
<1>2. nsn' = nsn /\ committed' = committed /\ clUsed' = clUsed /\ delivered' = delivered
  BY DEF RecvM1Retry
<1> DEFINE p == [cl[s].pend EXCEPT !.rc = m.rc]
<1>3. p.an = cl[s].pend.an /\ p.sn = cl[s].pend.sn
  BY <1>0 DEF Pending
<1> HIDE DEF p
<1>4. /\ cl'[s].pend = p /\ cl'[s].installed = cl[s].installed /\ cl'[s].ptk = cl[s].ptk
      /\ cl'[s].replay = cl[s].replay /\ cl'[s].pn = cl[s].pn
      /\ \A t \in Sta : t # s => cl'[t] = cl[t]
  BY <1>0, <1>1 DEF p, ClientState
<1> QED  BY <1>1, <1>2, <1>3, <1>4

\* Message 3 commits the pending key.
LEMMA M3Effect ==
  ASSUME TInv, NEW s \in Sta, RecvM3(s)
  PROVE  \E m \in Received("M3", s) :
         /\ cl[s].pend.an # 0 /\ m.key = PendingKey(s) /\ m.key \in Key
         /\ m.rc > cl[s].replay
         /\ cl'[s].installed /\ cl'[s].ptk = m.key /\ cl'[s].pend = NoPending
         /\ cl'[s].replay = m.rc /\ cl'[s].pn = ClPnAfterInstall(cl[s], m.key)
         /\ \A t \in Sta : t # s => cl'[t] = cl[t]
         /\ committed' = committed \cup {m.key}
         /\ delivered' = [delivered EXCEPT ![s] = delivered[s] \cup {m.gtk}]
         /\ air' = air \cup {M4(s, m.rc, m.key)}
         /\ nsn' = nsn /\ clUsed' = clUsed
<1>0. /\ cl \in [Sta -> ClientState] /\ cl[s] \in ClientState /\ Psk[s] \in Pmk
      /\ cl[s].pend.an \in Nat /\ cl[s].pend.sn \in Nat
  BY ClientParts, CredAssumption DEF TInv, TypeOK, ClTypeOK
<1>1. PICK m \in Received("M3", s) :
        /\ cl[s].pend.an # 0 /\ m.key = PendingKey(s) /\ m.rc > cl[s].replay
        /\ cl' = [cl EXCEPT ![s] = M3Client(s, m)]
        /\ committed' = committed \cup {m.key}
        /\ delivered' = [delivered EXCEPT ![s] = delivered[s] \cup {m.gtk}]
        /\ air' = air \cup {M4(s, m.rc, m.key)}
        /\ nsn' = nsn /\ clUsed' = clUsed
  BY DEF RecvM3
<1>2. m.key \in Key
  BY <1>0, <1>1, PtkType DEF PendingKey
<1> DEFINE r == M3Client(s, m)
<1>3. /\ r.installed /\ r.ptk = m.key /\ r.pend = NoPending /\ r.replay = m.rc
      /\ r.pn = ClPnAfterInstall(cl[s], m.key)
  BY <1>0 DEF M3Client, ClientState
<1>4. cl'[s] = r /\ \A t \in Sta : t # s => cl'[t] = cl[t]
  BY <1>0, <1>1
<1> HIDE DEF r
<1> QED  BY <1>1, <1>2, <1>3, <1>4

\* A repeated message 3 is acknowledged again and installs nothing.
LEMMA M3RetryEffect ==
  ASSUME TInv, NEW s \in Sta, RecvM3Retry(s)
  PROVE  \E m \in Received("M3", s) :
         /\ cl[s].installed /\ m.key = cl[s].ptk /\ m.rc >= cl[s].replay
         /\ cl'[s].installed = cl[s].installed /\ cl'[s].ptk = cl[s].ptk
         /\ cl'[s].pend = cl[s].pend /\ cl'[s].pn = cl[s].pn /\ cl'[s].replay = m.rc
         /\ \A t \in Sta : t # s => cl'[t] = cl[t]
         /\ air' = air \cup {M4(s, m.rc, cl[s].ptk)}
         /\ nsn' = nsn /\ committed' = committed /\ clUsed' = clUsed
         /\ delivered' = delivered
<1>0. cl \in [Sta -> ClientState] /\ cl[s] \in ClientState
  BY DEF TInv, TypeOK, ClTypeOK
<1>1. PICK m \in Received("M3", s) :
        /\ cl[s].installed /\ m.key = cl[s].ptk /\ m.rc >= cl[s].replay
        /\ cl' = [cl EXCEPT ![s] = [cl[s] EXCEPT !.replay = m.rc]]
        /\ air' = air \cup {M4(s, m.rc, cl[s].ptk)}
        /\ nsn' = nsn /\ committed' = committed /\ clUsed' = clUsed
        /\ delivered' = delivered
  BY DEF RecvM3Retry, IsM3Retry
<1>2. /\ cl'[s].installed = cl[s].installed /\ cl'[s].ptk = cl[s].ptk
      /\ cl'[s].pend = cl[s].pend /\ cl'[s].pn = cl[s].pn /\ cl'[s].replay = m.rc
      /\ \A t \in Sta : t # s => cl'[t] = cl[t]
  BY <1>0, <1>1 DEF ClientState
<1> QED  BY <1>1, <1>2

\* Group message 1 is installed when it is new, and always acknowledged.
LEMMA G1Effect ==
  ASSUME TInv, NEW s \in Sta, RecvG1(s)
  PROVE  \E m \in Received("G1", s) :
         /\ cl[s].installed /\ m.key = cl[s].ptk
         /\ \/ /\ m.rc > cl[s].replay /\ cl'[s].replay = m.rc
               /\ delivered' = [delivered EXCEPT ![s] = delivered[s] \cup {m.gtk}]
            \/ /\ m.rc = cl[s].replay /\ cl'[s].replay = cl[s].replay
               /\ delivered' = delivered
         /\ cl'[s].installed = cl[s].installed /\ cl'[s].ptk = cl[s].ptk
         /\ cl'[s].pend = cl[s].pend /\ cl'[s].pn = cl[s].pn
         /\ \A t \in Sta : t # s => cl'[t] = cl[t]
         /\ air' = air \cup {G2(s, m.rc, cl[s].ptk)}
         /\ nsn' = nsn /\ committed' = committed /\ clUsed' = clUsed
<1>0. /\ cl \in [Sta -> ClientState] /\ cl[s] \in ClientState /\ cl[s].replay \in Nat
      /\ (cl[s].conn = 4 => cl[s].installed)
  BY ClientParts DEF TInv, TypeOK, ClTypeOK, KeysInstalled
<1>1. PICK m \in Received("G1", s) :
        /\ cl[s].conn = 4 /\ m.key = cl[s].ptk /\ m.rc >= cl[s].replay
        /\ IF m.rc > cl[s].replay
           THEN /\ cl' = [cl EXCEPT ![s] = G1Client(cl[s], m)]
                /\ delivered' = [delivered EXCEPT ![s] = delivered[s] \cup {m.gtk}]
           ELSE UNCHANGED <<cl, delivered>>
        /\ air' = air \cup {G2(s, m.rc, cl[s].ptk)}
        /\ nsn' = nsn /\ committed' = committed /\ clUsed' = clUsed
  BY DEF RecvG1
<1>2. m.rc \in Nat
  BY ReceivedType DEF TInv, TypeOK
<1>3. CASE m.rc > cl[s].replay
  <2>1. /\ cl'[s].installed = cl[s].installed /\ cl'[s].ptk = cl[s].ptk
        /\ cl'[s].pend = cl[s].pend /\ cl'[s].pn = cl[s].pn /\ cl'[s].replay = m.rc
        /\ \A t \in Sta : t # s => cl'[t] = cl[t]
    <3> DEFINE r == G1Client(cl[s], m)
    <3>1. /\ r.installed = cl[s].installed /\ r.ptk = cl[s].ptk
          /\ r.pend = cl[s].pend /\ r.pn = cl[s].pn /\ r.replay = m.rc
      BY <1>0 DEF G1Client, ClientState
    <3>2. cl' = [cl EXCEPT ![s] = r]
      BY <1>1, <1>3
    <3> HIDE DEF r
    <3> QED  BY <1>0, <3>1, <3>2
  <2> QED  BY <1>0, <1>1, <1>3, <2>1
<1>4. CASE ~(m.rc > cl[s].replay)
  <2>1. m.rc = cl[s].replay /\ cl' = cl /\ delivered' = delivered
    BY <1>0, <1>1, <1>2, <1>4
  <2> QED  BY <1>0, <1>1, <2>1
<1> QED  BY <1>3, <1>4

-----------------------------------------------------------------------------
(* What the frames say *)

\* The fields the invariants read of each EAPOL-Key frame.
LEMMA FrameFields ==
  ASSUME NEW s, NEW a, NEW b, NEW k, NEW g
  PROVE  /\ M1(s, a, b).type = "M1" /\ M1(s, a, b).sta = s
         /\ M1(s, a, b).rc = a /\ M1(s, a, b).an = b
         /\ M2(s, a, b, k).type = "M2" /\ M2(s, a, b, k).sta = s
         /\ M2(s, a, b, k).rc = a /\ M2(s, a, b, k).sn = b /\ M2(s, a, b, k).key = k
         /\ M3(s, a, b, k, g).type = "M3" /\ M3(s, a, b, k, g).sta = s
         /\ M3(s, a, b, k, g).rc = a /\ M3(s, a, b, k, g).key = k
         /\ M4(s, a, k).type = "M4" /\ M4(s, a, k).sta = s /\ M4(s, a, k).key = k
         /\ G1(s, a, k, g).type = "G1" /\ G1(s, a, k, g).sta = s
         /\ G1(s, a, k, g).rc = a /\ G1(s, a, k, g).key = k /\ G1(s, a, k, g).gtk = g
         /\ G2(s, a, k).type = "G2" /\ G2(s, a, k).sta = s
         /\ G2(s, a, k).rc = a /\ G2(s, a, k).key = k
         /\ AssocResp(s).type = "ASSOC_RESP"
BY DEF M1, M2, M3, M4, G1, G2, AssocResp, MkFrame

-----------------------------------------------------------------------------
(* Key agreement, and whom a message 2 failure blames *)

\* Every message 1 of s that carries counter rc carries ANonce an.
Stands(s, rc, an) == \A m \in Received("M1", s) : m.rc = rc => m.an = an

\* A pinned PMK that the station shares is an admitted one; so are the candidates',
\* and without SAE nothing but the station's own message 2 pins one.
Origin(s) ==
  /\ st[s].pmk = Psk[s] => st[s].pmk \in Cred[s]
  /\ Security = "wpa2" => st[s].pmk \in {NoPmk, Psk[s]}
  /\ \A i \in DOMAIN st[s].cands : st[s].cands[i].key.pmk \in Cred[s]

Agreed(s) ==
  st[s].associated => /\ st[s].ptk \in committed
                      /\ st[s].ptk.sta = s /\ st[s].ptk.pmk \in Cred[s]

\* Only a client that installed the key acknowledges it with message 4.
Proved(s) ==
  /\ cl[s].installed => cl[s].ptk \in committed
  /\ \A m \in Received("M4", s) : m.key \in committed

\* Every message 2 answers a message 1, with the station's own PMK.
Answers(s) ==
  \A m \in Received("M2", s) : \E n \in Received("M1", s) :
    n.rc = m.rc /\ m.key = PtkOf(s, Psk[s], n.an, m.sn)

\* A replay counter stands for one ANonce, in the messages sent, in the open
\* handshake and in the store of held ANonces.
Counters(s) ==
  /\ \A m \in Received("M1", s) : m.rc <= ctr /\ Stands(s, m.rc, m.an)
  /\ st[s].ready => /\ Stands(s, st[s].m1Replay, st[s].anonce)
                    /\ Stands(s, st[s].replay, st[s].anonce)
  /\ held[s].an # 0 => Stands(s, held[s].rc, held[s].an)

Blameless(s) == Security = "wpa2" /\ s \in failed => Psk[s] \notin Cred[s]

AgreeInv(s) ==
  /\ PendingSent(s) /\ Origin(s) /\ Agreed(s) /\ Proved(s)
  /\ Answers(s) /\ Counters(s) /\ Blameless(s)

\* The inductive invariant.
AInv == \A s \in Sta : AgreeInv(s)

\* The inductive invariant implies both properties.
LEMMA AInvImplies ==
  TInv /\ AInv => KeyAgreement /\ (Security = "wpa2" => NoFalseMicFailure)
BY DEF TInv, TypeOK, ApTypeOK, AInv, AgreeInv, Agreed, Blameless, KeyAgreement, NoFalseMicFailure

\* No request and no SAE commit gives the entry a PMK that the station shares and
\* that is not admitted.
LEMMA OriginKept ==
  ASSUME NEW s \in Sta, Origin(s), Labels(s, st'[s]),
         st'[s].cands = st[s].cands \/ st'[s].cands = <<>>
  PROVE  Origin(s)'
<1>1. \A i \in DOMAIN st'[s].cands : st'[s].cands[i].key.pmk \in Cred[s]
  BY DEF Origin
<1>2. CASE st'[s].pmk = st[s].pmk
  BY <1>1, <1>2 DEF Origin
<1>3. CASE SaeEnabled /\ st'[s].pmk \in SaePmk(s)
  <2>1. Security # "wpa2" /\ (st'[s].pmk = Psk[s] => st'[s].pmk \in Cred[s])
    BY <1>3 DEF SaeEnabled, SaePmk
  <2> QED  BY <1>1, <2>1 DEF Origin
<1> QED  BY <1>2, <1>3 DEF Labels

\* A station keeps the invariant when its entry, its client and its frames of the
\* handshake are as before.
LEMMA AgreeKept ==
  ASSUME TInv, NEW s \in Sta, AgreeInv(s), SameEntry(s),
         held'[s] = held[s] \/ held'[s] = NoHold,
         cl'[s].installed = cl[s].installed, cl'[s].ptk = cl[s].ptk,
         committed \subseteq committed', ctr \in Nat, ctr' \in Nat, ctr <= ctr',
         s \in failed' => s \in failed, air \subseteq air',
         Received("M1", s)' = Received("M1", s), Received("M2", s)' = Received("M2", s),
         Received("M4", s)' = Received("M4", s)
  PROVE  AgreeInv(s)'
<1>1. PendingSent(s)'
  BY DEF AgreeInv, PendingSent, SameEntry
<1>2. Origin(s)'
  BY OriginKept DEF AgreeInv, SameEntry
<1>3. Agreed(s)'
  BY DEF AgreeInv, Agreed, SameEntry
<1>4. Proved(s)'
  BY DEF AgreeInv, Proved
<1>5. Answers(s)'
  BY DEF AgreeInv, Answers
<1>6. Counters(s)'
  <2>1. \A rc, an : Stands(s, rc, an) => Stands(s, rc, an)'
    BY DEF Stands
  <2>2. \A m \in Received("M1", s) : m.rc \in Nat
    BY ReceivedType DEF TInv, TypeOK
  <2>3. \A m \in Received("M1", s)' : m.rc <= ctr' /\ Stands(s, m.rc, m.an)'
    BY <2>1, <2>2 DEF AgreeInv, Counters
  <2>4. st'[s].ready => /\ Stands(s, st[s].m1Replay, st[s].anonce)'
                        /\ Stands(s, st[s].replay, st[s].anonce)'
    BY <2>1 DEF AgreeInv, Counters, SameEntry
  <2>5. held'[s].an # 0 => held'[s] = held[s] /\ Stands(s, held[s].rc, held[s].an)
    BY DEF AgreeInv, Counters, NoHold
  <2> QED  BY <2>3, <2>4, <2>5 DEF Counters, SameEntry, Stands
<1>7. Blameless(s)'
  BY DEF AgreeInv, Blameless
<1> QED  BY <1>1, <1>2, <1>3, <1>4, <1>5, <1>6, <1>7 DEF AgreeInv

\* A step that adds no handshake message, and leaves keys and entries as they
\* are, keeps the invariant.
LEMMA QuietAgree ==
  ASSUME TInv, AInv, Quiet, UNCHANGED clVars
  PROVE  AInv'
<1> SUFFICES ASSUME NEW s \in Sta PROVE AgreeInv(s)'
  BY DEF AInv
<1>1. /\ Received("M1", s)' = Received("M1", s) /\ Received("M2", s)' = Received("M2", s)
      /\ Received("M4", s)' = Received("M4", s) /\ air \subseteq air'
  <2>1. Sends({"ASSOC_RESP", "SAQ", "DEAUTH"})
    BY DEF Quiet
  <2> QED  BY <2>1, HandshakeFramesSame
<1>2. ctr \in Nat /\ ctr' = ctr /\ failed' = failed
  BY DEF Quiet, TInv, TypeOK, ApTypeOK
<1>3. cl' = cl /\ committed' = committed
  BY DEF clVars
<1>4. AgreeInv(s) /\ SameEntry(s) /\ (held'[s] = held[s] \/ held'[s] = NoHold)
  BY DEF AInv, Quiet
<1> QED  BY <1>1, <1>2, <1>3, <1>4, AgreeKept

\* What the step of one party does to the others: nothing they can see.
LEMMA AgreeOther ==
  ASSUME TInv, TInv', NEW s \in Sta, AgreeInv(s), st'[s] = st[s], held'[s] = held[s],
         cl'[s] = cl[s], committed \subseteq committed', ctr <= ctr',
         s \in failed' => s \in failed, air \subseteq air',
         Received("M1", s)' = Received("M1", s), Received("M2", s)' = Received("M2", s),
         Received("M4", s)' = Received("M4", s)
  PROVE  AgreeInv(s)'
<1>1. SameEntry(s)
  BY DEF SameEntry, Labels
<1>2. ctr \in Nat /\ ctr' \in Nat
  BY DEF TInv, TypeOK, ApTypeOK
<1> QED  BY <1>1, <1>2, AgreeKept

\* On a BSS with one PSK suite, a message 2 that fails under every admitted PMK was
\* not derived from one.
LEMMA BadM2Blames ==
  ASSUME TInv, NEW s \in Sta, AgreeInv(s), RecvBadM2(s), Security = "wpa2"
  PROVE  Psk[s] \notin Cred[s]
<1>1. PICK m \in Received("M2", s) :
        ExpectsM2(s, m) /\ ~MicVerifies(s, m) /\ ~st[s].awaiting
  BY DEF RecvBadM2
<1>2. PICK n \in Received("M1", s) :
        n.rc = m.rc /\ m.key = PtkOf(s, Psk[s], n.an, m.sn)
  BY DEF AgreeInv, Answers
<1>3. st[s].ready /\ m.rc = st[s].m1Replay
  BY <1>1 DEF ExpectsM2
<1>4. n.an = st[s].anonce
  BY <1>2, <1>3 DEF AgreeInv, Counters, Stands
<1>5. Psk[s] \notin PmkCandidates(s)
  BY <1>1, <1>2, <1>4 DEF MicVerifies
<1> QED  BY <1>5 DEF PmkCandidates, AgreeInv, Origin

\* Ending a session, or starting it over, keeps the invariant.
LEMMA ClearAgree ==
  ASSUME TInv, TInv', AInv, UNCHANGED clVars, NEW s \in Sta,
         Kick(s) \/ PruneIdle(s) \/ RecvDeauth(s) \/ RecvBadM2(s) \/ TimeoutEapol(s)
           \/ SaQueryTimeout(s) \/ ExpireSae(s) \/ RecvAuth(s)
  PROVE  AInv'
<1>1. Cleared(s)
  BY ClearingActions
<1>2. \A t : /\ Received("M1", t)' = Received("M1", t) /\ Received("M2", t)' = Received("M2", t)
             /\ Received("M4", t)' = Received("M4", t)
  <2>1. Sends({"DEAUTH"})
    BY <1>1 DEF Cleared
  <2> QED  BY <2>1, HandshakeFramesSame
<1>3. /\ air \subseteq air' /\ cl' = cl /\ committed' = committed
      /\ ctr' = ctr /\ ctr \in Nat /\ held' = held
  BY <1>1 DEF Cleared, Sends, clVars, TInv, TypeOK, ApTypeOK
<1>4. /\ Security = "wpa2" /\ s \in failed' => s \in failed \/ Psk[s] \notin Cred[s]
      /\ \A t \in Sta : t # s => (t \in failed' => t \in failed)
  <2>1. CASE RecvBadM2(s)
    <3>1. failed' = failed \cup {s}
      BY <2>1 DEF RecvBadM2
    <3> QED  BY <2>1, <3>1, BadM2Blames DEF AInv
  <2>2. CASE failed' = failed
    BY <2>2
  <2> QED
    BY <2>1, <2>2 DEF Kick, PruneIdle, RecvDeauth, TimeoutEapol, SaQueryTimeout, ExpireSae,
                     RecvAuth
<1>5. AgreeInv(s)'
  <2>0. AgreeInv(s)
    BY DEF AInv
  <2>1. PendingSent(s)' /\ Agreed(s)'
    BY <1>1 DEF Cleared, PendingSent, Agreed
  <2>5. Origin(s)'
    <3>1. Psk[s] # NoPmk
      BY CredAssumption, NoPmkAssumption
    <3> QED  BY <1>1, <3>1 DEF Cleared, Origin
  <2>2. Proved(s)' /\ Answers(s)'
    BY <1>2, <1>3, <2>0 DEF AgreeInv, Proved, Answers
  <2>3. Counters(s)'
    BY <1>1, <1>2, <1>3, <2>0 DEF AgreeInv, Counters, Stands, Cleared
  <2>4. Blameless(s)'
    BY <1>4, <2>0 DEF AgreeInv, Blameless
  <2> QED  BY <2>1, <2>2, <2>3, <2>4, <2>5 DEF AgreeInv
<1>6. ASSUME NEW t \in Sta, t # s PROVE AgreeInv(t)'
  <2>1. st'[t] = st[t] /\ AgreeInv(t) /\ ctr <= ctr'
    BY <1>1, <1>3, <1>6 DEF Cleared, AInv
  <2> QED  BY <1>2, <1>3, <1>4, <1>6, <2>1, AgreeOther
<1> QED  BY <1>5, <1>6 DEF AInv

\* Message 1 goes out with a counter that stands for its ANonce.
LEMMA AssocAgree ==
  ASSUME TInv, TInv', AInv, UNCHANGED clVars, NEW s \in Sta, RecvAssoc(s)
  PROVE  AInv'
<1>b. PICK b : b = Message1Basis(s)
  OBVIOUS
<1>0. AgreeInv(s) /\ ctr \in Nat /\ ctr' \in Nat /\ cl' = cl /\ committed' = committed
  BY DEF AInv, TInv, TypeOK, ApTypeOK, clVars
<1>1. Stands(s, b.rc, b.an)
  <2>1. CASE st[s].ready /\ st[s].anonce # 0
    BY <1>0, <1>b, <2>1 DEF Message1Basis, AgreeInv, Counters
  <2>2. CASE ~(st[s].ready /\ st[s].anonce # 0) /\ held[s].an # 0
    BY <1>0, <1>b, <2>2 DEF Message1Basis, AgreeInv, Counters
  <2>3. CASE ~(st[s].ready /\ st[s].anonce # 0) /\ held[s].an = 0
    <3>1. b.rc = ctr + 1
      BY <1>b, <2>3 DEF Message1Basis
    <3>2. \A m \in Received("M1", s) : m.rc \in Nat /\ m.rc <= ctr
      BY <1>0, ReceivedType DEF TInv, TypeOK, AgreeInv, Counters
    <3>3. \A n \in Nat : n <= ctr => n # ctr + 1
      BY <1>0
    <3> QED  BY <3>1, <3>2, <3>3 DEF Stands
  <2> QED  BY <2>1, <2>2, <2>3
<1>2. /\ b.rc \in Nat /\ b.an \in Nat
      /\ ctr' = (IF b.rc > ctr THEN b.rc ELSE ctr) /\ failed' = failed
      /\ air' = air \cup {AssocResp(s), M1(s, b.rc, b.an)}
      /\ \A t \in Sta : t # s => st'[t] = st[t] /\ held'[t] = held[t]
      /\ held'[s] = b
      /\ st'[s].anonce = b.an /\ st'[s].replay = b.rc
      /\ st'[s].m1Replay = b.rc /\ st'[s].cands = <<>>
      /\ st'[s].pending = M1(s, b.rc, b.an)
      /\ st'[s].associated = st[s].associated /\ st'[s].ptk = st[s].ptk
      /\ Labels(s, st'[s])
  BY <1>b, AssocEffect
<1>3. ctr <= ctr' /\ b.rc <= ctr'
  BY <1>0, <1>2
<1>4. /\ Received("M1", s)' = Received("M1", s) \cup {M1(s, b.rc, b.an)}
      /\ Received("M2", s)' = Received("M2", s) /\ Received("M4", s)' = Received("M4", s)
      /\ \A t : t # s => /\ Received("M1", t)' = Received("M1", t)
                         /\ Received("M2", t)' = Received("M2", t)
                         /\ Received("M4", t)' = Received("M4", t)
  BY <1>2, FrameFields DEF Received
<1>5. AgreeInv(s)'
  <2>1. PendingSent(s)'
    BY <1>2 DEF PendingSent
  <2>0. Origin(s)'
    BY <1>0, <1>2, OriginKept DEF AgreeInv
  <2>2. Agreed(s)' /\ Proved(s)' /\ Blameless(s)'
    BY <1>0, <1>2, <1>4 DEF AgreeInv, Agreed, Proved, Blameless
  <2>3. Answers(s)'
    BY <1>0, <1>4 DEF AgreeInv, Answers
  <2>4. \A rc, an : Stands(s, rc, an) /\ (rc = b.rc => an = b.an) => Stands(s, rc, an)'
    BY <1>4, FrameFields DEF Stands
  <2>5. Stands(s, b.rc, b.an)'
    BY <1>1, <2>4
  <2>6. ASSUME NEW m \in Received("M1", s)' PROVE m.rc <= ctr' /\ Stands(s, m.rc, m.an)'
    <3>1. CASE m = M1(s, b.rc, b.an)
      BY <1>3, <2>5, <3>1, FrameFields
    <3>2. CASE m \in Received("M1", s)
      <4>1. m.rc \in Nat /\ m.rc <= ctr /\ Stands(s, m.rc, m.an)
        BY <1>0, <3>2, ReceivedType DEF TInv, TypeOK, AgreeInv, Counters
      <4>2. m.rc = b.rc => m.an = b.an
        BY <1>1, <3>2 DEF Stands
      <4> QED  BY <1>0, <1>3, <2>4, <4>1, <4>2
    <3> QED  BY <1>4, <3>1, <3>2
  <2>7. Counters(s)'
    BY <1>2, <2>5, <2>6 DEF Counters
  <2> QED  BY <2>0, <2>1, <2>2, <2>3, <2>7 DEF AgreeInv
<1>6. ASSUME NEW t \in Sta, t # s PROVE AgreeInv(t)'
  <2>1. st'[t] = st[t] /\ held'[t] = held[t] /\ AgreeInv(t) /\ air \subseteq air'
    BY <1>2, <1>6 DEF AInv
  <2> QED  BY <1>0, <1>2, <1>3, <1>4, <1>6, <2>1, AgreeOther
<1> QED  BY <1>5, <1>6 DEF AInv

\* Message 2 pins the PMK it was derived from: the station's, and an admitted one.
LEMMA M2Agree ==
  ASSUME TInv, TInv', AInv, UNCHANGED clVars, NEW s \in Sta, RecvM2(s)
  PROVE  AInv'
<1>0. AgreeInv(s) /\ ctr \in Nat /\ ctr' \in Nat /\ cl' = cl /\ committed' = committed
  BY DEF AInv, TInv, TypeOK, ApTypeOK, clVars
<1>1. PICK m \in Received("M2", s), rc \in Nat :
        /\ MicVerifies(s, m) /\ m.key \in Key
        /\ st[s].awaiting => ctr' = ctr /\ held'[s] = held[s]
        /\ ~st[s].awaiting => rc = ctr + 1 /\ ctr' = rc /\ held'[s] = NoHold
        /\ air' = air \cup {M3(s, rc, st[s].anonce, m.key, gtk)}
        /\ \A t \in Sta : t # s => st'[t] = st[t] /\ held'[t] = held[t]
        /\ ~st'[s].ready /\ st'[s].pmk = m.key.pmk
        /\ st'[s].cands = Retain(st[s].cands, [rc |-> rc, key |-> m.key])
        /\ st'[s].pending = M3(s, rc, st[s].anonce, m.key, gtk)
        /\ st'[s].associated = st[s].associated /\ st'[s].ptk = st[s].ptk
        /\ failed' = failed
  BY M2Effect
<1>2. /\ air \subseteq air' /\ ctr <= ctr'
      /\ \A t : /\ Received("M1", t)' = Received("M1", t)
                /\ Received("M2", t)' = Received("M2", t)
                /\ Received("M4", t)' = Received("M4", t)
  BY <1>0, <1>1, FrameFields DEF Received
<1>3. m.key.pmk = Psk[s] /\ m.key.pmk \in Cred[s]
  <2>1. PICK pmk \in PmkCandidates(s) : m.key = PtkOf(s, pmk, st[s].anonce, m.sn)
    BY <1>1 DEF MicVerifies
  <2>2. PICK n : m.key = PtkOf(s, Psk[s], n, m.sn)
    BY <1>0 DEF AgreeInv, Answers
  <2>3. pmk = Psk[s] /\ m.key.pmk = Psk[s]
    BY <2>1, <2>2 DEF PtkOf
  <2>4. pmk \in Cred[s]
    BY <1>0, <2>1, <2>3 DEF PmkCandidates, AgreeInv, Origin
  <2> QED  BY <2>3, <2>4
<1>4. AgreeInv(s)'
  <2>1. PendingSent(s)'
    BY <1>1 DEF PendingSent
  <2>2. ASSUME NEW i \in DOMAIN st'[s].cands PROVE st'[s].cands[i].key.pmk \in Cred[s]
    <3> DEFINE c == [rc |-> rc, key |-> m.key]
    <3>1. c \in Candidate /\ c.key = m.key
      BY <1>1 DEF Candidate
    <3>2. st[s].cands \in Seq(Candidate)
      BY StationParts DEF TInv, TypeOK, ApTypeOK
    <3>3. st'[s].cands = Retain(st[s].cands, c)
      BY <1>1
    <3> HIDE DEF c
    <3>4. st'[s].cands[i] = c \/ \E j \in DOMAIN st[s].cands : st'[s].cands[i] = st[s].cands[j]
      BY <3>1, <3>2, <3>3, RetainElements
    <3> QED  BY <1>0, <1>3, <3>1, <3>4 DEF AgreeInv, Origin
  <2>3. Origin(s)'
    BY <1>1, <1>3, <2>2 DEF Origin
  <2>4. Agreed(s)' /\ Proved(s)' /\ Blameless(s)' /\ Answers(s)'
    BY <1>0, <1>1, <1>2 DEF AgreeInv, Agreed, Proved, Blameless, Answers
  <2>5. \A r, a : Stands(s, r, a) => Stands(s, r, a)'
    BY <1>2 DEF Stands
  <2>6. \A n \in Received("M1", s)' : n.rc <= ctr' /\ Stands(s, n.rc, n.an)'
    <3>1. \A n \in Received("M1", s) : n.rc \in Nat
      BY ReceivedType DEF TInv, TypeOK
    <3> QED  BY <1>0, <1>2, <2>5, <3>1 DEF AgreeInv, Counters
  <2>7. held'[s].an # 0 => held'[s] = held[s]
    BY <1>1 DEF NoHold
  <2>8. Counters(s)'
    BY <1>0, <1>1, <1>2, <2>6, <2>7 DEF AgreeInv, Counters, Stands
  <2> QED  BY <2>1, <2>3, <2>4, <2>8 DEF AgreeInv
<1>5. ASSUME NEW t \in Sta, t # s PROVE AgreeInv(t)'
  <2>1. st'[t] = st[t] /\ held'[t] = held[t] /\ AgreeInv(t)
    BY <1>1, <1>5 DEF AInv
  <2> QED  BY <1>0, <1>1, <1>2, <1>5, <2>1, AgreeOther
<1> QED  BY <1>4, <1>5 DEF AInv

\* Message 4 opens the port under a candidate that the client has installed.
LEMMA M4Agree ==
  ASSUME TInv, TInv', NInv, AInv, UNCHANGED clVars, NEW s \in Sta, RecvM4(s)
  PROVE  AInv'
<1>0. AgreeInv(s) /\ ctr \in Nat /\ cl' = cl /\ committed' = committed
  BY DEF AInv, TInv, TypeOK, ApTypeOK, clVars
<1>1. PICK m \in Received("M4", s), i \in DOMAIN st[s].cands :
        /\ st[s].cands[i].key = m.key
        /\ \A t \in Sta : t # s => st'[t] = st[t] /\ held'[t] = held[t]
        /\ st'[s].associated /\ st'[s].ptk = m.key
        /\ st'[s].cands = <<>> /\ st'[s].pending = NoFrame
        /\ st'[s].ready = st[s].ready
        /\ st'[s].anonce = st[s].anonce /\ st'[s].replay = st[s].replay
        /\ st'[s].m1Replay = st[s].m1Replay /\ st'[s].pmk = st[s].pmk
        /\ held'[s] = NoHold /\ air' = air /\ ctr' = ctr /\ failed' = failed
  BY M4Effect
<1>2. \A t, u : Received(t, u)' = Received(t, u)
  BY <1>1 DEF Received
<1>3. m.key.sta = s /\ m.key.pmk \in Cred[s] /\ m.key \in committed
  BY <1>0, <1>1 DEF NInv, NonceInv, Candidates, AgreeInv, Origin, Proved
<1>4. AgreeInv(s)'
  <2>1. PendingSent(s)' /\ Origin(s)' /\ Agreed(s)'
    BY <1>0, <1>1, <1>3 DEF AgreeInv, PendingSent, Origin, Agreed
  <2>2. Proved(s)' /\ Blameless(s)' /\ Answers(s)'
    BY <1>0, <1>1, <1>2 DEF AgreeInv, Proved, Blameless, Answers
  <2>3. Counters(s)'
    BY <1>0, <1>1, <1>2 DEF AgreeInv, Counters, Stands, NoHold
  <2> QED  BY <2>1, <2>2, <2>3 DEF AgreeInv
<1>5. ASSUME NEW t \in Sta, t # s PROVE AgreeInv(t)'
  <2>1. st'[t] = st[t] /\ held'[t] = held[t] /\ AgreeInv(t) /\ ctr <= ctr'
    BY <1>0, <1>1, <1>5 DEF AInv
  <2> QED  BY <1>0, <1>1, <1>2, <1>5, <2>1, AgreeOther
<1> QED  BY <1>4, <1>5 DEF AInv

\* An acknowledged group key moves no pairwise key.
LEMMA G2Agree ==
  ASSUME TInv, TInv', AInv, UNCHANGED clVars, NEW s \in Sta, RecvG2(s)
  PROVE  AInv'
<1>0. AgreeInv(s) /\ ctr \in Nat /\ cl' = cl /\ committed' = committed
  BY DEF AInv, TInv, TypeOK, ApTypeOK, clVars
<1>1. /\ \A t \in Sta : t # s => st'[t] = st[t]
      /\ st'[s].pending = NoFrame
      /\ st'[s].associated = st[s].associated /\ st'[s].ready = st[s].ready
      /\ st'[s].anonce = st[s].anonce
      /\ st'[s].replay = st[s].replay /\ st'[s].m1Replay = st[s].m1Replay
      /\ st'[s].cands = st[s].cands /\ st'[s].ptk = st[s].ptk
      /\ st'[s].pmk = st[s].pmk
      /\ air' = air /\ ctr' = ctr /\ held' = held /\ failed' = failed
  BY G2Effect
<1>2. \A t, u : Received(t, u)' = Received(t, u)
  BY <1>1 DEF Received
<1>3. AgreeInv(s)'
  <2>1. PendingSent(s)' /\ Origin(s)' /\ Agreed(s)'
    BY <1>0, <1>1 DEF AgreeInv, PendingSent, Origin, Agreed
  <2>2. Proved(s)' /\ Blameless(s)' /\ Answers(s)'
    BY <1>0, <1>1, <1>2 DEF AgreeInv, Proved, Blameless, Answers
  <2>3. Counters(s)'
    BY <1>0, <1>1, <1>2 DEF AgreeInv, Counters, Stands
  <2> QED  BY <2>1, <2>2, <2>3 DEF AgreeInv
<1>4. ASSUME NEW t \in Sta, t # s PROVE AgreeInv(t)'
  <2>1. st'[t] = st[t] /\ AgreeInv(t) /\ ctr <= ctr'
    BY <1>0, <1>1, <1>4 DEF AInv
  <2> QED  BY <1>0, <1>1, <1>2, <1>4, <2>1, AgreeOther
<1> QED  BY <1>3, <1>4 DEF AInv

\* A rotation takes fresh counters, which no message 1 has carried.
LEMMA RekeyAgree ==
  ASSUME TInv, TInv', AInv, UNCHANGED clVars, RekeyGtk
  PROVE  AInv'
<1>0. ctr \in Nat /\ ctr' \in Nat /\ cl' = cl /\ committed' = committed
  BY DEF TInv, TypeOK, ApTypeOK, clVars
<1>1. PICK rc \in [Associated -> Nat] :
        /\ \A s \in Associated : rc[s] > ctr /\ rc[s] <= ctr'
        /\ ctr <= ctr'
        /\ air' = air \cup {G1(s, rc[s], st[s].ptk, gtk + 1) : s \in Associated}
        /\ \A s \in Sta \ Associated : st'[s] = st[s]
        /\ \A s \in Associated :
             /\ st'[s].replay = rc[s]
             /\ st'[s].pending = G1(s, rc[s], st[s].ptk, gtk + 1)
             /\ st'[s].associated = st[s].associated /\ st'[s].ready = st[s].ready
             /\ st'[s].anonce = st[s].anonce
             /\ st'[s].m1Replay = st[s].m1Replay /\ st'[s].cands = st[s].cands
             /\ st'[s].ptk = st[s].ptk /\ st'[s].pmk = st[s].pmk
        /\ held' = held /\ failed' = failed
  BY RekeyEffect
<1>2. \A m \in air' : m \in air \/ m.type = "G1"
  <2>1. \A s \in Associated : G1(s, rc[s], st[s].ptk, gtk + 1).type = "G1"
    BY FrameFields
  <2> QED  BY <1>1, <2>1
<1>3. /\ air \subseteq air'
      /\ \A t : /\ Received("M1", t)' = Received("M1", t)
                /\ Received("M2", t)' = Received("M2", t)
                /\ Received("M4", t)' = Received("M4", t)
  BY <1>1, <1>2 DEF Received
<1>4. ASSUME NEW s \in Associated PROVE AgreeInv(s)'
  <2>0. AgreeInv(s)
    BY DEF AInv, Associated
  <2>1. PendingSent(s)'
    BY <1>1 DEF PendingSent
  <2>2. Origin(s)' /\ Agreed(s)'
    BY <1>0, <1>1, <2>0 DEF AgreeInv, Origin, Agreed
  <2>3. Proved(s)' /\ Blameless(s)' /\ Answers(s)'
    BY <1>0, <1>1, <1>3, <2>0 DEF AgreeInv, Proved, Blameless, Answers
  <2>4. \A m \in Received("M1", s) : m.rc \in Nat /\ m.rc <= ctr
    BY <2>0, ReceivedType DEF TInv, TypeOK, AgreeInv, Counters, Associated
  <2>5. \A a : Stands(s, rc[s], a)'
    <3>1. rc[s] \in Nat /\ rc[s] > ctr
      BY <1>1
    <3>2. \A m \in Received("M1", s) : m.rc # rc[s]
      BY <1>0, <2>4, <3>1
    <3> QED  BY <1>3, <3>2 DEF Stands
  <2>6. \A r, a : Stands(s, r, a) => Stands(s, r, a)'
    BY <1>3 DEF Stands
  <2>7. \A m \in Received("M1", s)' : m.rc <= ctr' /\ Stands(s, m.rc, m.an)'
    BY <1>0, <1>1, <1>3, <2>0, <2>4, <2>6 DEF AgreeInv, Counters
  <2>8. st'[s].ready => /\ Stands(s, st[s].m1Replay, st[s].anonce)'
                        /\ Stands(s, st[s].replay, st[s].anonce)'
    BY <1>1, <2>0, <2>5, <2>6 DEF AgreeInv, Counters
  <2>9. held[s].an # 0 => Stands(s, held[s].rc, held[s].an)'
    BY <1>1, <2>0, <2>6 DEF AgreeInv, Counters
  <2>10. Counters(s)'
    BY <1>1, <2>7, <2>8, <2>9 DEF Counters
  <2> QED  BY <2>1, <2>2, <2>3, <2>10 DEF AgreeInv
<1>5. ASSUME NEW s \in Sta \ Associated PROVE AgreeInv(s)'
  <2>1. st'[s] = st[s] /\ AgreeInv(s)
    BY <1>1 DEF AInv
  <2> QED  BY <1>0, <1>1, <1>3, <2>1, AgreeOther
<1> QED  BY <1>4, <1>5 DEF AInv

\* A client that forgets its keys, or keeps them, changes nothing of the handshake.
LEMMA ClientAgree ==
  ASSUME TInv, TInv', AInv, UNCHANGED apVars, NEW s \in Sta, ClCleared(s) \/ ClKept(s)
  PROVE  AInv'
<1> SUFFICES ASSUME NEW t \in Sta PROVE AgreeInv(t)'
  BY DEF AInv
<1>0. /\ st' = st /\ held' = held /\ ctr' = ctr /\ failed' = failed /\ ctr \in Nat
      /\ committed' = committed /\ AgreeInv(t)
  BY DEF apVars, ClCleared, ClKept, TInv, TypeOK, ApTypeOK, AInv
<1>1. /\ air \subseteq air'
      /\ Received("M1", t)' = Received("M1", t) /\ Received("M2", t)' = Received("M2", t)
      /\ Received("M4", t)' = Received("M4", t)
  <2>1. Sends({"LEAVE"}) \/ Sends({"SAR"})
    BY DEF ClCleared, ClKept
  <2> QED  BY <2>1, HandshakeFramesSame
<1>2. CASE t = s
  <2>1. Proved(s)'
    BY <1>0, <1>1, <1>2 DEF AgreeInv, Proved, ClCleared, ClKept
  <2>2. PendingSent(s)' /\ Origin(s)' /\ Agreed(s)' /\ Blameless(s)' /\ Answers(s)'
    BY <1>0, <1>1, <1>2 DEF AgreeInv, PendingSent, Origin, Agreed, Blameless, Answers
  <2>3. Counters(s)'
    BY <1>0, <1>1, <1>2 DEF AgreeInv, Counters, Stands
  <2> QED  BY <1>2, <2>1, <2>2, <2>3 DEF AgreeInv
<1>3. CASE t # s
  <2>1. cl'[t] = cl[t] /\ ctr <= ctr'
    BY <1>0, <1>3 DEF ClCleared, ClKept
  <2> QED  BY <1>0, <1>1, <2>1, AgreeOther
<1> QED  BY <1>2, <1>3

\* A client's answer to message 1 is a message 2 for that message 1.
LEMMA M1Agree ==
  ASSUME TInv, TInv', AInv, UNCHANGED apVars, NEW s \in Sta, RecvM1(s) \/ RecvM1Retry(s)
  PROVE  AInv'
<1>0. /\ st' = st /\ held' = held /\ ctr' = ctr /\ failed' = failed /\ ctr \in Nat
      /\ AgreeInv(s)
  BY DEF apVars, TInv, TypeOK, ApTypeOK, AInv
<1>1. PICK m, n :
        /\ m \in Received("M1", s)
        /\ air' = air \cup {M2(s, m.rc, n, PtkOf(s, Psk[s], m.an, n))}
        /\ cl'[s].installed = cl[s].installed /\ cl'[s].ptk = cl[s].ptk
        /\ \A t \in Sta : t # s => cl'[t] = cl[t]
        /\ committed' = committed
  <2>1. CASE RecvM1(s)
    BY <2>1, M1Effect
  <2>2. CASE RecvM1Retry(s)
    BY <2>2, M1RetryEffect DEF PendingKey
  <2> QED  BY <2>1, <2>2
<1> DEFINE f == M2(s, m.rc, n, PtkOf(s, Psk[s], m.an, n))
<1>2. f.type = "M2" /\ f.sta = s /\ f.rc = m.rc /\ f.sn = n /\ f.key = PtkOf(s, Psk[s], m.an, n)
  BY FrameFields
<1> HIDE DEF f
<1>3. air' = air \cup {f} /\ air \subseteq air'
  BY <1>1 DEF f
<1>4. /\ \A t : Received("M1", t)' = Received("M1", t) /\ Received("M4", t)' = Received("M4", t)
      /\ Received("M2", s)' = Received("M2", s) \cup {f}
      /\ \A t : t # s => Received("M2", t)' = Received("M2", t)
  BY <1>2, <1>3 DEF Received
<1>5. AgreeInv(s)'
  <2>1. Answers(s)'
    BY <1>0, <1>1, <1>2, <1>4 DEF AgreeInv, Answers
  <2>2. PendingSent(s)' /\ Origin(s)' /\ Agreed(s)' /\ Blameless(s)' /\ Proved(s)'
    BY <1>0, <1>1, <1>3, <1>4 DEF AgreeInv, PendingSent, Origin, Agreed, Blameless, Proved
  <2>3. Counters(s)'
    BY <1>0, <1>4 DEF AgreeInv, Counters, Stands
  <2> QED  BY <2>1, <2>2, <2>3 DEF AgreeInv
<1>6. ASSUME NEW t \in Sta, t # s PROVE AgreeInv(t)'
  <2>1. cl'[t] = cl[t] /\ ctr <= ctr' /\ AgreeInv(t)
    BY <1>0, <1>1, <1>6 DEF AInv
  <2> QED  BY <1>0, <1>1, <1>3, <1>4, <1>6, <2>1, AgreeOther
<1> QED  BY <1>5, <1>6 DEF AInv

\* Message 4 is sent under a key the client has committed.
LEMMA M3Agree ==
  ASSUME TInv, TInv', AInv, UNCHANGED apVars, NEW s \in Sta, RecvM3(s) \/ RecvM3Retry(s)
  PROVE  AInv'
<1>0. /\ st' = st /\ held' = held /\ ctr' = ctr /\ failed' = failed /\ ctr \in Nat
      /\ AgreeInv(s)
  BY DEF apVars, TInv, TypeOK, ApTypeOK, AInv
<1>1. PICK m \in Received("M3", s) :
        /\ air' = air \cup {M4(s, m.rc, m.key)}
        /\ cl'[s].installed /\ cl'[s].ptk = m.key /\ m.key \in committed'
        /\ committed \subseteq committed'
        /\ \A t \in Sta : t # s => cl'[t] = cl[t]
  <2>1. CASE RecvM3(s)
    BY <2>1, M3Effect
  <2>2. CASE RecvM3Retry(s)
    <3>1. cl[s].installed => cl[s].ptk \in committed
      BY <1>0 DEF AgreeInv, Proved
    <3> QED  BY <2>2, <3>1, M3RetryEffect
  <2> QED  BY <2>1, <2>2
<1> DEFINE f == M4(s, m.rc, m.key)
<1>2. f.type = "M4" /\ f.sta = s /\ f.key = m.key
  BY FrameFields
<1> HIDE DEF f
<1>3. air' = air \cup {f} /\ air \subseteq air'
  BY <1>1 DEF f
<1>4. /\ \A t : Received("M1", t)' = Received("M1", t) /\ Received("M2", t)' = Received("M2", t)
      /\ Received("M4", s)' = Received("M4", s) \cup {f}
      /\ \A t : t # s => Received("M4", t)' = Received("M4", t)
  BY <1>2, <1>3 DEF Received
<1>5. AgreeInv(s)'
  <2>1. Proved(s)'
    BY <1>0, <1>1, <1>2, <1>4 DEF AgreeInv, Proved
  <2>2. PendingSent(s)' /\ Origin(s)' /\ Agreed(s)' /\ Blameless(s)' /\ Answers(s)'
    BY <1>0, <1>1, <1>3, <1>4 DEF AgreeInv, PendingSent, Origin, Agreed, Blameless, Answers
  <2>3. Counters(s)'
    BY <1>0, <1>4 DEF AgreeInv, Counters, Stands
  <2> QED  BY <2>1, <2>2, <2>3 DEF AgreeInv
<1>6. ASSUME NEW t \in Sta, t # s PROVE AgreeInv(t)'
  <2>1. cl'[t] = cl[t] /\ ctr <= ctr' /\ AgreeInv(t)
    BY <1>0, <1>1, <1>6 DEF AInv
  <2> QED  BY <1>0, <1>1, <1>3, <1>4, <1>6, <2>1, AgreeOther
<1> QED  BY <1>5, <1>6 DEF AInv

\* A group message leaves the pairwise handshake alone.
LEMMA G1Agree ==
  ASSUME TInv, TInv', AInv, UNCHANGED apVars, NEW s \in Sta, RecvG1(s)
  PROVE  AInv'
<1> SUFFICES ASSUME NEW t \in Sta PROVE AgreeInv(t)'
  BY DEF AInv
<1>0. /\ st' = st /\ held' = held /\ ctr' = ctr /\ failed' = failed /\ ctr \in Nat
      /\ AgreeInv(t) /\ SameEntry(t)
  BY DEF apVars, TInv, TypeOK, ApTypeOK, AInv, SameEntry, Labels
<1>1. PICK m \in Received("G1", s) :
        /\ air' = air \cup {G2(s, m.rc, cl[s].ptk)}
        /\ cl'[s].installed = cl[s].installed /\ cl'[s].ptk = cl[s].ptk
        /\ committed' = committed
        /\ \A u \in Sta : u # s => cl'[u] = cl[u]
  BY G1Effect
<1>2. /\ air \subseteq air'
      /\ Received("M1", t)' = Received("M1", t) /\ Received("M2", t)' = Received("M2", t)
      /\ Received("M4", t)' = Received("M4", t)
  BY <1>1, FrameFields DEF Received
<1>3. cl'[t].installed = cl[t].installed /\ cl'[t].ptk = cl[t].ptk /\ ctr <= ctr'
  BY <1>0, <1>1
<1> QED  BY <1>0, <1>1, <1>2, <1>3, AgreeKept

\* The initial state satisfies AInv.
LEMMA AgreeInit == Init => AInv
<1> SUFFICES ASSUME Init, NEW s \in Sta PROVE AgreeInv(s)
  BY DEF AInv
<1>1. /\ st[s] = NewStation /\ held[s] = NoHold /\ cl[s] = NewClient
      /\ air = {} /\ failed = {}
  BY DEF Init, ApInit, ClInit
<1>2. \A t : Received(t, s) = {}
  BY <1>1 DEF Received
<1> QED
  BY <1>1, <1>2, CredAssumption, NoPmkAssumption
  DEF AgreeInv, PendingSent, Origin, Agreed, Proved, Answers, Counters, Stands,
      Blameless, NewStation, NewClient, NoHold

\* AInv is inductive relative to the typing invariant and the ANonces' order.
LEMMA AgreeInductive == TInv /\ TInv' /\ NInv /\ AInv /\ [Next]_vars => AInv'
<1> SUFFICES ASSUME TInv, TInv', NInv, AInv, [Next]_vars PROVE AInv'
  OBVIOUS
<1>0. \A s \in Sta : PendingSent(s)
  BY DEF AInv, AgreeInv
<1>1. CASE UNCHANGED vars
  BY <1>1, QuietOthers, QuietAgree DEF vars
<1>2. CASE RekeyCoalesced /\ UNCHANGED clVars
  BY <1>2, QuietOthers, QuietAgree
<1>3. CASE RekeyGtk /\ UNCHANGED clVars
  BY <1>3, RekeyAgree
<1>4. ASSUME NEW s \in Sta, DataToUnknown(s) PROVE AInv'
  BY <1>4, QuietOthers, QuietAgree DEF DataToUnknown
<1>5. ASSUME NEW s \in Sta, ApAlone(s) PROVE AInv'
  <2>1. UNCHANGED clVars
    BY <1>5 DEF ApAlone
  <2>2. CASE RecvSaQueryResp(s) \/ Relabels(s) \/ RecvAssocAwaitingM4(s)
               \/ RetryEapol(s) \/ DeliverToStation(s) \/ ContestedRequest(s)
    BY <1>0, <2>1, <2>2, QuietActions, QuietAgree
  <2>3. CASE ExpireHeld(s)
    BY <2>1, <2>3, QuietOthers, QuietAgree
  <2>4. CASE Kick(s) \/ PruneIdle(s) \/ RecvDeauth(s) \/ RecvBadM2(s) \/ TimeoutEapol(s)
               \/ SaQueryTimeout(s) \/ ExpireSae(s) \/ RecvAuth(s)
    BY <2>1, <2>4, ClearAgree
  <2> QED  BY <1>5, <2>1, <2>2, <2>3, <2>4, AssocAgree, M2Agree, M4Agree, G2Agree
           DEF ApAlone, Relabels
<1>6. ASSUME NEW s \in Sta, ClAlone(s) PROVE AInv'
  <2>1. UNCHANGED apVars
    BY <1>6 DEF ClAlone
  <2>2. CASE Beacon(s) \/ ClientTimeout(s) \/ ClientRecvDeauth(s) \/ ClientLeave(s)
    BY <2>1, <2>2, ClClearingActions, ClientAgree
  <2>3. CASE RecvAssocResp(s) \/ ClientRecvSaQuery(s) \/ EncryptUplink(s)
    BY <2>1, <2>3, ClKeepingActions, ClientAgree
  <2> QED  BY <1>6, <2>1, <2>2, <2>3, M1Agree, M3Agree, G1Agree DEF ClAlone
<1> QED  BY <1>1, <1>2, <1>3, <1>4, <1>5, <1>6 DEF Next

\* The invariants the later ones rest on.
LEMMA AgreeHolds == Spec => [](TInv /\ NInv /\ AInv)
<1>1. Spec => []TInv
  BY TypeInit, TypeInductive, PTL DEF Spec
<1>2. Spec => []NInv
  BY <1>1, NonceInit, NonceInductive, PTL DEF Spec
<1>3. Spec => []AInv
  BY <1>1, <1>2, AgreeInit, AgreeInductive, PTL DEF Spec
<1> QED  BY <1>1, <1>2, <1>3, PTL

\* Whatever the medium loses, repeats or reorders, the AP opens its port only under
\* a key that this station's client installed and an admitted credential derives.
THEOREM PortOpensOnAgreement == Spec => []KeyAgreement
BY AgreeHolds, AInvImplies, PTL

\* On a BSS with one PSK suite, no station that holds an admitted credential is logged
\* or dropped for a message 2 MIC failure: a counter the AP accepts stands for the
\* ANonce it verifies with.
THEOREM NoStationBlamed ==
  ASSUME Security = "wpa2"
  PROVE  Spec => []NoFalseMicFailure
<1>1. TInv /\ AInv => NoFalseMicFailure
  BY AInvImplies
<1> QED  BY <1>1, AgreeHolds, PTL

-----------------------------------------------------------------------------
(* Client packet numbers *)

\* An open handshake's SNonce is above those of all committed keys, and those are
\* among the drawn ones: a key is committed once.
PendingIsNew(s) ==
  /\ cl[s].pend.sn <= nsn[s]
  /\ \A k \in committed : k.sta = s => k.sn <= nsn[s]
  /\ cl[s].pend.an # 0 => \A k \in committed : k.sta = s => k.sn < cl[s].pend.sn

ClFresh(s) ==
  /\ \A u \in clUsed : u[1] \in committed
  /\ cl[s].installed =>
       /\ cl[s].ptk \in committed /\ cl[s].ptk.sta = s
       /\ \A u \in clUsed : u[1] = cl[s].ptk => u[2] < cl[s].pn

\* The inductive invariant.
CInv == \A s \in Sta : PendingIsNew(s) /\ ClFresh(s)

\* The numbers the invariant compares are numbers.
LEMMA ClNumbers ==
  ASSUME TInv, NEW s \in Sta
  PROVE  /\ cl[s].pend.sn \in Nat /\ nsn[s] \in Nat /\ cl[s].pn \in Nat
         /\ \A k \in committed : k \in Key /\ k.sn \in Nat
         /\ \A u \in clUsed : u[1] \in Key /\ u[2] \in Nat
BY ClientParts DEF TInv, TypeOK, ClTypeOK, Key

\* What the client of s encrypts or commits is under a key of s.
LEMMA ClOther ==
  ASSUME CInv, NEW s \in Sta, NEW t \in Sta, t # s, cl'[t] = cl[t], nsn'[t] = nsn[t],
         ClMayEncrypt(s), NEW k, k.sta = s, committed' = committed \/ committed' = committed \cup {k}
  PROVE  PendingIsNew(t)' /\ ClFresh(t)'
<1>1. PendingIsNew(t) /\ ClFresh(t) /\ ClFresh(s)
  BY DEF CInv
<1>2. PendingIsNew(t)'
  BY <1>1 DEF PendingIsNew
<1>3. \A u \in clUsed' : u \in clUsed \/ (u[1] \in committed /\ u[1].sta = s)
  BY <1>1 DEF ClMayEncrypt, ClFresh
<1> QED  BY <1>1, <1>2, <1>3 DEF ClFresh

\* A client that forgets its keys keeps the history consistent.
LEMMA ClClearedFresh ==
  ASSUME TInv, CInv, NEW s \in Sta, ClCleared(s)
  PROVE  CInv'
<1>0. PendingIsNew(s) /\ ClFresh(s) /\ nsn[s] \in Nat
  BY ClNumbers DEF CInv
<1>1. PendingIsNew(s)'
  BY <1>0 DEF ClCleared, PendingIsNew, NoPending
<1>2. ClFresh(s)'
  BY <1>0 DEF ClCleared, ClMayEncrypt, ClFresh
<1>3. ASSUME NEW t \in Sta, t # s PROVE PendingIsNew(t)' /\ ClFresh(t)'
  <2>1. PICK k : k.sta = s
    <3>1. [sta |-> s].sta = s
      OBVIOUS
    <3> QED  BY <3>1
  <2> QED  BY <1>3, <2>1, ClOther DEF ClCleared
<1> QED  BY <1>1, <1>2, <1>3 DEF CInv

\* The packet number moves past what it was used for.
LEMMA ClKeptFresh ==
  ASSUME TInv, CInv, NEW s \in Sta, ClKept(s)
  PROVE  CInv'
<1>0. PendingIsNew(s) /\ ClFresh(s)
  BY DEF CInv
<1>1. PendingIsNew(s)'
  BY <1>0 DEF ClKept, PendingIsNew
<1>2. ClFresh(s)'
  BY <1>0, ClNumbers DEF ClKept, ClFresh
<1>3. ASSUME NEW t \in Sta, t # s PROVE PendingIsNew(t)' /\ ClFresh(t)'
  <2>1. PICK k : k.sta = s
    <3>1. [sta |-> s].sta = s
      OBVIOUS
    <3> QED  BY <3>1
  <2>2. ClMayEncrypt(s)
    BY DEF ClKept, ClMayEncrypt
  <2> QED  BY <1>3, <2>1, <2>2, ClOther DEF ClKept
<1> QED  BY <1>1, <1>2, <1>3 DEF CInv

\* Steps of the client that encrypt nothing and commit nothing.
LEMMA ClHandshakeFresh ==
  ASSUME TInv, CInv, NEW s \in Sta, RecvM1(s) \/ RecvM1Retry(s) \/ RecvM3Retry(s) \/ RecvG1(s)
  PROVE  CInv'
<1>0. PendingIsNew(s) /\ ClFresh(s) /\ nsn \in [Sta -> Nat]
  BY DEF CInv, TInv, TypeOK, ClTypeOK
<1>1. /\ cl'[s].installed = cl[s].installed /\ cl'[s].ptk = cl[s].ptk /\ cl'[s].pn = cl[s].pn
      /\ \A t \in Sta : t # s => cl'[t] = cl[t] /\ nsn'[t] = nsn[t]
      /\ committed' = committed /\ clUsed' = clUsed
  BY <1>0, M1Effect, M1RetryEffect, M3RetryEffect, G1Effect
<1>2. PendingIsNew(s)'
  <2>1. CASE RecvM1(s)
    <3>1. cl'[s].pend.sn = nsn[s] + 1 /\ nsn'[s] = nsn[s] + 1
      <4>1. PICK m : /\ cl'[s].pend = [an |-> m.an, sn |-> nsn[s] + 1, rc |-> m.rc]
                     /\ nsn' = [nsn EXCEPT ![s] = nsn[s] + 1]
        BY <2>1, M1Effect
      <4> QED  BY <1>0, <4>1
    <3> QED  BY <1>0, <1>1, <3>1, ClNumbers DEF PendingIsNew
  <2>2. CASE RecvM1Retry(s) \/ RecvM3Retry(s) \/ RecvG1(s)
    <3>1. /\ cl'[s].pend.sn = cl[s].pend.sn /\ cl'[s].pend.an = cl[s].pend.an
          /\ nsn' = nsn
      BY <2>2, M1RetryEffect, M3RetryEffect, G1Effect
    <3> QED  BY <1>0, <1>1, <3>1 DEF PendingIsNew
  <2> QED  BY <2>1, <2>2
<1>3. ClFresh(s)'
  BY <1>0, <1>1 DEF ClFresh
<1>4. ASSUME NEW t \in Sta, t # s PROVE PendingIsNew(t)' /\ ClFresh(t)'
  <2>1. PendingIsNew(t) /\ ClFresh(t) /\ cl'[t] = cl[t] /\ nsn'[t] = nsn[t]
    BY <1>1, <1>4 DEF CInv
  <2> QED  BY <1>1, <2>1 DEF PendingIsNew, ClFresh
<1> QED  BY <1>2, <1>3, <1>4 DEF CInv

\* Message 3 commits a key that was never committed, so packet number 1 is unused.
LEMMA M3Fresh ==
  ASSUME TInv, CInv, NEW s \in Sta, RecvM3(s)
  PROVE  CInv'
<1>0. PendingIsNew(s) /\ ClFresh(s)
  BY DEF CInv
<1>1. PICK m \in Received("M3", s) :
         /\ cl[s].pend.an # 0 /\ m.key = PendingKey(s)
         /\ cl'[s].installed /\ cl'[s].ptk = m.key /\ cl'[s].pend = NoPending
         /\ cl'[s].pn = ClPnAfterInstall(cl[s], m.key)
         /\ \A t \in Sta : t # s => cl'[t] = cl[t]
         /\ committed' = committed \cup {m.key}
         /\ nsn' = nsn /\ clUsed' = clUsed
  BY M3Effect
<1>2. m.key.sta = s /\ m.key.sn = cl[s].pend.sn
  BY <1>1 DEF PendingKey, PtkOf
<1>3. m.key \notin committed
  BY <1>0, <1>1, <1>2, ClNumbers DEF PendingIsNew
<1>4. PendingIsNew(s)'
  BY <1>0, <1>1, <1>2, ClNumbers DEF PendingIsNew, NoPending
<1>5. ClFresh(s)'
  BY <1>0, <1>1, <1>2, <1>3 DEF ClFresh
<1>6. ASSUME NEW t \in Sta, t # s PROVE PendingIsNew(t)' /\ ClFresh(t)'
  BY <1>1, <1>2, <1>6, ClOther DEF ClMayEncrypt
<1> QED  BY <1>4, <1>5, <1>6 DEF CInv

\* CInv holds initially and is inductive relative to the typing invariant.
LEMMA ClFreshInductive == (Init => CInv) /\ (TInv /\ CInv /\ [Next]_vars => CInv')
<1>1. ASSUME Init PROVE CInv
  BY <1>1 DEF Init, ClInit, CInv, PendingIsNew, ClFresh, NewClient, NoPending
<1>2. ASSUME TInv, CInv, [Next]_vars PROVE CInv'
  <2>1. ASSUME UNCHANGED clVars PROVE CInv'
    BY <1>2, <2>1 DEF clVars, CInv, PendingIsNew, ClFresh
  <2>2. ASSUME NEW s \in Sta, ClAlone(s) PROVE CInv'
    BY <1>2, <2>2, ClClearingActions, ClKeepingActions, ClClearedFresh, ClKeptFresh,
       ClHandshakeFresh, M3Fresh DEF ClAlone
  <2>3. ASSUME NEW s \in Sta, ApAlone(s) \/ DataToUnknown(s) PROVE UNCHANGED clVars
    BY <2>3 DEF ApAlone, DataToUnknown
  <2> QED  BY <1>2, <2>1, <2>2, <2>3 DEF Next, vars
<1> QED  BY <1>1, <1>2

\* The client never encrypts twice with one packet number under one PTK, however
\* messages 1 and 3 are repeated: no key is committed a second time.
THEOREM NoClientPnReuse == Spec => []ClientNonceFresh
<1>1. Spec => [](TInv /\ NInv /\ AInv)
  BY AgreeHolds
<1>2. Spec => []CInv
  BY <1>1, ClFreshInductive, PTL DEF Spec
<1>3. CInv => ClientNonceFresh
  BY DEF CInv, ClFresh, ClientNonceFresh
<1> QED  BY <1>2, <1>3, PTL

-----------------------------------------------------------------------------
(* Sessions of a WPA3 BSS *)

\* SAE and cached PMKs bring PMF with them, and without a PMK there is no handshake.
\* A protected session is never renegotiated: no handshake runs beside it, it has
\* been announced once, and its rekey is armed.
PmfInv(s) ==
  /\ st[s].pmk # NoPmk => st[s].pmf
  /\ st[s].ready \/ st[s].awaiting \/ st[s].associated => st[s].pmk # NoPmk
  /\ st[s].associated => ~st[s].ready /\ ~st[s].awaiting
  /\ st[s].awaiting => ~st[s].ready /\ st[s].pending # NoFrame
  /\ conn[s] = IF st[s].associated THEN 1 ELSE 0
  /\ st[s].rekeying => st[s].associated /\ st[s].pending # NoFrame

\* The inductive invariant.
PInv == Security = "wpa3" => \A s \in Sta : PmfInv(s)

\* An armed EAPOL-Key frame is a frame.
LEMMA ArmedIsFrame ==
  ASSUME NEW s \in Sta, NEW a \in Nat, NEW b \in Nat, NEW g \in Nat,
         NEW k \in Key \cup {NoKey}
  PROVE  M1(s, a, b) # NoFrame /\ M3(s, a, b, k, g) # NoFrame /\ G1(s, a, k, g) # NoFrame
BY FrameTypes, NoFrameAssumption

\* Flags are Boolean and event counts are integers.
LEMMA Flags ==
  ASSUME TInv, NEW s \in Sta
  PROVE  /\ st[s].associated \in BOOLEAN /\ st[s].ready \in BOOLEAN
         /\ st[s].awaiting \in BOOLEAN /\ st[s].rekeying \in BOOLEAN
         /\ st[s].pmf \in BOOLEAN /\ conn[s] \in Int /\ conn \in [Sta -> Int]
BY DEF TInv, TypeOK, ApTypeOK, Station

\* Every step of the AP preserves PInv for the station it serves and for the others.
LEMMA PmfApStep ==
  ASSUME TInv, AInv, PInv, NEW s \in Sta, ApAlone(s)
  PROVE  PInv'
<1> SUFFICES ASSUME Security = "wpa3", NEW t \in Sta PROVE PmfInv(t)'
  BY DEF PInv
<1>0. t \in Sta /\ PmfInv(t) /\ PendingSent(s)
  BY DEF PInv, AInv, AgreeInv
<1>n. NoPmk \notin SaePmk(t)
  BY NoPmkAssumption DEF SaePmk
<1>f. /\ st[t].associated \in BOOLEAN /\ st[t].ready \in BOOLEAN
      /\ st[t].awaiting \in BOOLEAN /\ st[t].rekeying \in BOOLEAN
      /\ st[t].pmf \in BOOLEAN /\ conn[t] \in Int /\ conn \in [Sta -> Int]
  BY <1>0, Flags
<1>l. ASSUME Labels(t, st'[t])
      PROVE  (st'[t].pmk # NoPmk => st'[t].pmf) /\ (st[t].pmk # NoPmk => st'[t].pmk # NoPmk)
  BY <1>0, <1>n, <1>l DEF Labels, PmfInv
<1>1. ASSUME Quiet PROVE PmfInv(t)'
  <2>1. SameEntry(t) /\ conn' = conn
    BY <1>1 DEF Quiet
  <2> QED  BY <1>0, <1>l, <2>1 DEF SameEntry, PmfInv
<1>2. ASSUME Cleared(s) PROVE PmfInv(t)'
  <2>1. CASE t = s
    <3>1. conn'[s] = IF st[s].associated THEN conn[s] - 1 ELSE conn[s]
      BY <1>2, <1>f, <2>1 DEF Cleared
    <3>2. conn'[s] = 0
      BY <1>0, <2>1, <3>1 DEF PmfInv
    <3> QED  BY <1>2, <2>1, <3>2 DEF Cleared, PmfInv
  <2>2. CASE t # s
    <3>1. st'[t] = st[t] /\ conn'[t] = conn[t]
      BY <1>0, <1>2, <1>f, <2>2 DEF Cleared
    <3> QED  BY <1>0, <3>1 DEF PmfInv
  <2> QED  BY <2>1, <2>2
<1>3. ASSUME t # s, st'[t] = st[t], conn'[t] = conn[t] PROVE PmfInv(t)'
  BY <1>0, <1>3 DEF PmfInv
<1>4. CASE RecvAssoc(s)
  <2>1. PICK b : b = Message1Basis(s)
    OBVIOUS
  <2>2. /\ b.rc \in Nat /\ b.an \in Nat
        /\ \A u \in Sta : u # s => st'[u] = st[u]
        /\ st'[s].ready /\ st'[s].pending = M1(s, b.rc, b.an)
        /\ st'[s].associated = st[s].associated /\ st'[s].awaiting = st[s].awaiting
        /\ st'[s].rekeying = st[s].rekeying
        /\ Labels(s, st'[s]) /\ st'[s].pmk # NoPmk
        /\ conn' = conn
    BY <1>4, <2>1, AssocEffect
  <2>3. M1(s, b.rc, b.an) # NoFrame
    BY <2>2, FrameTypes, NoFrameAssumption
  <2>4. CASE t = s
    <3>1. ~(st[s].associated /\ st[s].pmf) /\ ~(st[s].awaiting /\ st[s].pending # NoFrame)
      BY <1>4 DEF RecvAssoc, PmfSessionProtected
    <3>2. ~st[s].associated /\ ~st[s].awaiting /\ ~st[s].rekeying
      BY <1>0, <2>4, <3>1 DEF PmfInv
    <3>3. st'[s].pmf
      BY <1>l, <2>2, <2>4
    <3> QED  BY <1>0, <2>2, <2>3, <2>4, <3>2, <3>3 DEF PmfInv
  <2> QED  BY <1>0, <1>3, <2>2, <2>4
<1>5. CASE RecvM2(s)
  <2>1. PICK m \in Received("M2", s), rc \in Nat :
        /\ ExpectsM2(s, m) /\ m.key \in Key
        /\ \A u \in Sta : u # s => st'[u] = st[u]
        /\ ~st'[s].ready /\ st'[s].awaiting
        /\ st'[s].pending = M3(s, rc, st[s].anonce, m.key, gtk)
        /\ st'[s].associated = st[s].associated /\ st'[s].rekeying = st[s].rekeying
        /\ st'[s].pmf = st[s].pmf /\ st'[s].pmk = m.key.pmk /\ conn' = conn
    BY <1>5, M2Effect
  <2>0. st'[s].pmk # NoPmk
    BY <2>1, NoPmkAssumption DEF Key
  <2>2. st[s].anonce \in Nat /\ gtk \in Nat
    BY StationParts DEF TInv, TypeOK, ApTypeOK
  <2>3. st'[s].pending # NoFrame
    BY <2>1, <2>2, ArmedIsFrame
  <2>4. CASE t = s
    <3>1. st[s].ready \/ st[s].awaiting
      BY <2>1 DEF ExpectsM2
    <3>2. ~st[s].associated /\ ~st[s].rekeying /\ st[s].pmf
      BY <1>0, <2>4, <3>1 DEF PmfInv
    <3> QED  BY <1>0, <2>0, <2>1, <2>3, <2>4, <3>2 DEF PmfInv
  <2> QED  BY <1>0, <1>3, <2>1, <2>4
<1>6. CASE RecvM4(s)
  <2>1. /\ st[s].awaiting
        /\ \A u \in Sta : u # s => st'[u] = st[u]
        /\ st'[s].associated /\ ~st'[s].awaiting
        /\ st'[s].ready = st[s].ready /\ st'[s].rekeying = st[s].rekeying
        /\ st'[s].pmf = st[s].pmf /\ st'[s].pmk = st[s].pmk
        /\ conn' = [conn EXCEPT ![s] = conn[s] + 1]
    BY <1>6, M4Effect
  <2>2. CASE t = s
    <3>1. /\ ~st[s].associated /\ ~st[s].rekeying /\ ~st[s].ready /\ conn[s] = 0
          /\ st[s].pmf /\ st[s].pmk # NoPmk
      BY <1>0, <2>1, <2>2 DEF PmfInv
    <3>2. conn'[s] = 1
      BY <1>f, <2>1, <3>1
    <3> QED  BY <2>1, <2>2, <3>1, <3>2 DEF PmfInv
  <2>3. CASE t # s
    <3>1. conn'[t] = conn[t]
      BY <1>f, <2>1, <2>3
    <3> QED  BY <1>0, <1>3, <2>1, <2>3, <3>1
  <2> QED  BY <2>2, <2>3
<1>7. CASE RecvG2(s)
  <2>1. /\ st[s].rekeying /\ \A u \in Sta : u # s => st'[u] = st[u]
        /\ ~st'[s].rekeying
        /\ st'[s].associated = st[s].associated /\ st'[s].ready = st[s].ready
        /\ st'[s].awaiting = st[s].awaiting /\ st'[s].pmf = st[s].pmf
        /\ st'[s].pmk = st[s].pmk /\ conn' = conn
    BY <1>7, G2Effect
  <2>2. CASE t = s
    BY <1>0, <2>1, <2>2 DEF PmfInv
  <2> QED  BY <1>0, <1>3, <2>1, <2>2
<1>8. CASE RecvSaQueryResp(s) \/ Relabels(s) \/ RecvAssocAwaitingM4(s)
             \/ RetryEapol(s) \/ DeliverToStation(s) \/ ContestedRequest(s) \/ ExpireHeld(s)
  BY <1>0, <1>1, <1>8, QuietActions, QuietOthers
<1>9. CASE Kick(s) \/ PruneIdle(s) \/ RecvDeauth(s) \/ RecvBadM2(s) \/ TimeoutEapol(s)
             \/ SaQueryTimeout(s) \/ ExpireSae(s) \/ RecvAuth(s)
  BY <1>2, <1>9, ClearingActions
<1> QED  BY <1>4, <1>5, <1>6, <1>7, <1>8, <1>9 DEF ApAlone, Relabels

\* A rotation arms a frame for every protected session.
LEMMA PmfRekey ==
  ASSUME TInv, PInv, RekeyGtk
  PROVE  PInv'
<1> SUFFICES ASSUME Security = "wpa3", NEW t \in Sta PROVE PmfInv(t)'
  BY DEF PInv
<1>0. t \in Sta /\ PmfInv(t) /\ gtk + 1 \in Nat
  BY DEF PInv, TInv, TypeOK, ApTypeOK
<1>1. PICK rc \in [Associated -> Nat] :
         /\ \A s \in Sta \ Associated : st'[s] = st[s]
         /\ \A s \in Associated :
              /\ st'[s].pending = G1(s, rc[s], st[s].ptk, gtk + 1)
              /\ st'[s].associated = st[s].associated /\ st'[s].ready = st[s].ready
              /\ st'[s].awaiting = st[s].awaiting /\ st'[s].pmf = st[s].pmf
              /\ st'[s].pmk = st[s].pmk
         /\ conn' = conn
  BY RekeyEffect
<1>2. CASE t \in Associated
  <2>1. st[t].associated /\ st[t].ptk \in Key \cup {NoKey} /\ rc[t] \in Nat
    BY <1>1, <1>2, StationParts DEF Associated, TInv, TypeOK, ApTypeOK
  <2>2. st'[t].pending # NoFrame
    BY <1>0, <1>1, <1>2, <2>1, ArmedIsFrame
  <2> QED  BY <1>0, <1>1, <1>2, <2>1, <2>2 DEF PmfInv
<1>3. CASE t \notin Associated
  <2>1. st'[t] = st[t]
    BY <1>0, <1>1, <1>3
  <2> QED  BY <1>0, <1>1, <2>1 DEF PmfInv
<1> QED  BY <1>2, <1>3

\* PInv holds initially and is inductive relative to the invariants before it.
LEMMA PmfInductive == (Init => PInv) /\ (TInv /\ AInv /\ PInv /\ [Next]_vars => PInv')
<1>1. ASSUME Init PROVE PInv
  BY <1>1 DEF Init, ApInit, PInv, PmfInv, NewStation
<1>2. ASSUME TInv, AInv, PInv, [Next]_vars PROVE PInv'
  <2>1. ASSUME UNCHANGED <<st, conn>> PROVE PInv'
    BY <1>2, <2>1 DEF PInv, PmfInv
  <2>2. ASSUME NEW s \in Sta, ClAlone(s) \/ DataToUnknown(s) PROVE UNCHANGED <<st, conn>>
    BY <2>2 DEF ClAlone, DataToUnknown, RecvDataUnknown, apVars
  <2>3. CASE RekeyCoalesced
    BY <2>1, <2>3 DEF RekeyCoalesced
  <2>4. CASE UNCHANGED vars
    BY <2>1, <2>4 DEF vars, apVars
  <2> QED  BY <1>2, <2>1, <2>2, <2>3, <2>4, PmfApStep, PmfRekey DEF Next
<1> QED  BY <1>1, <1>2

\* The invariants of the protected sessions hold.
LEMMA PmfHolds == Spec => [](NInv /\ PInv)
BY AgreeHolds, PmfInductive, PTL DEF Spec

\* On a WPA3 BSS, Connected and Disconnected events of a station
\* alternate: a port is announced when it opens and not again.
THEOREM EventsAlternate ==
  ASSUME Security = "wpa3"
  PROVE  Spec => []EventsPaired
<1>1. PInv => EventsPaired
  BY DEF PInv, PmfInv, EventsPaired
<1> QED  BY <1>1, PmfHolds, PTL

\* On a WPA3 BSS, a station that owes its group message 2 has a
\* frame armed for retransmission.
THEOREM RekeyStaysArmed ==
  ASSUME Security = "wpa3"
  PROVE  Spec => []RekeyArmed
<1>1. PInv => RekeyArmed
  BY DEF PInv, PmfInv, RekeyArmed
<1> QED  BY <1>1, PmfHolds, PTL

\* On a WPA3 BSS, the group parser never takes the counter of a
\* four-way message: no four-way handshake is open while a rekey is.
THEOREM ParsersApart ==
  ASSUME Security = "wpa3"
  PROVE  Spec => []ParserUnambiguous
<1>1. NInv /\ PInv => ParserUnambiguous
  BY DEF NInv, NonceInv, Candidates, PInv, PmfInv, ParserUnambiguous
<1> QED  BY <1>1, PmfHolds, PTL

-----------------------------------------------------------------------------
(* Group keys are delivered before they count as acknowledged *)

\* Counters on the air, in the entry and in the client are counters the AP took,
\* and a group message 2 answers a group message 1.
Bounded(s) ==
  /\ \A m \in Received("M3", s) : m.rc <= ctr
  /\ \A g \in Received("G1", s) : g.rc <= ctr /\ g.key \in Key /\ g.key.an <= ctr
  /\ \A m \in Received("G2", s) : \E g \in Received("G1", s) : g.rc = m.rc /\ g.key = m.key
  /\ cl[s].replay <= ctr /\ st[s].replay <= ctr /\ held[s].rc <= ctr

\* A rekey belongs to an open port; while a handshake awaits message 4 beside it a
\* frame is armed, so that no association request replaces its counter.
Owing(s) ==
  /\ st[s].rekeying => st[s].associated
  /\ st[s].ready => st[s].anonce # 0
  /\ st[s].associated /\ ~st[s].awaiting /\ held[s].an # 0 => st[s].ready
  /\ st[s].rekeying /\ st[s].awaiting => st[s].pending # NoFrame

\* A group message 1 under the station's counter carries the current GTK and is
\* told apart, by its key, from the four-way messages that may share the counter.
Current(s, g) ==
  /\ g.gtk = gtk
  /\ st[s].ready \/ st[s].awaiting => g.key.an # st[s].anonce
  /\ \A m \in Received("M3", s) : m.rc = st[s].replay => m.key # g.key
  /\ /\ cl[s].installed /\ cl[s].ptk = st[s].ptk /\ g.key = st[s].ptk
     /\ cl[s].replay = st[s].replay
     => gtk \in delivered[s]

\* The acknowledgement the AP waits for follows the delivery.
Acked(s) ==
  st[s].rekeying =>
    /\ \A g \in Received("G1", s) : g.rc = st[s].replay => Current(s, g)
    /\ \A m \in Received("G2", s) :
         m.rc = st[s].replay /\ m.key = st[s].ptk => gtk \in delivered[s]

\* The inductive invariant.
DInv == \A s \in Sta : Bounded(s) /\ Owing(s) /\ Acked(s)

\* The numbers the invariant compares are numbers.
LEMMA CounterNumbers ==
  ASSUME TInv, NEW s \in Sta
  PROVE  /\ ctr \in Nat /\ gtk \in Nat /\ cl[s].replay \in Nat /\ st[s].replay \in Nat
         /\ held[s].rc \in Nat /\ st[s].anonce \in Nat /\ held[s].an \in Nat
         /\ \A t, m : m \in Received(t, s) => m.rc \in Nat
<1>1. ctr \in Nat /\ gtk \in Nat /\ held[s] \in Hold /\ st[s] \in Station /\ cl[s] \in ClientState
  BY DEF TInv, TypeOK, ApTypeOK, ClTypeOK
<1>2. \A t, m : m \in Received(t, s) => m.rc \in Nat
  BY ReceivedType DEF TInv, TypeOK
<1> QED  BY <1>1, <1>2, StationParts, ClientParts DEF Hold

\* Counters that were taken stay below a counter that grows.
LEMMA BoundedKept ==
  ASSUME TInv, TInv', NEW s \in Sta, Bounded(s), ctr <= ctr',
         st'[s].replay = st[s].replay \/ st'[s].replay = 0,
         held'[s] = held[s] \/ held'[s] = NoHold,
         cl'[s].replay = cl[s].replay \/ cl'[s].replay = 0,
         Received("M3", s)' = Received("M3", s), Received("G1", s)' = Received("G1", s),
         Received("G2", s)' = Received("G2", s)
  PROVE  Bounded(s)'
<1>1. ctr \in Nat /\ ctr' \in Nat
  BY DEF TInv, TypeOK, ApTypeOK
<1>2. \A n \in Nat : n <= ctr => n <= ctr'
  BY <1>1
<1>3. \A m \in Received("M3", s) : m.rc <= ctr'
  BY <1>2, CounterNumbers DEF Bounded
<1>4. \A g \in Received("G1", s) : g.rc <= ctr' /\ g.key \in Key /\ g.key.an <= ctr'
  BY <1>2, CounterNumbers DEF Bounded, Key
<1>5. cl[s].replay <= ctr' /\ st[s].replay <= ctr' /\ held[s].rc <= ctr' /\ 0 <= ctr'
  BY <1>1, <1>2, CounterNumbers DEF Bounded
<1>6. cl'[s].replay <= ctr' /\ st'[s].replay <= ctr' /\ held'[s].rc <= ctr'
  BY <1>5 DEF NoHold
<1> QED  BY <1>3, <1>4, <1>6 DEF Bounded

\* A station keeps the invariant when its entry, its client and its frames of the
\* two handshakes are as before.
LEMMA DeliveryKept ==
  ASSUME TInv, TInv', NEW s \in Sta, Bounded(s), Owing(s), Acked(s), SameEntry(s),
         held'[s] = held[s] \/ held'[s] = NoHold,
         cl'[s].installed = cl[s].installed, cl'[s].ptk = cl[s].ptk,
         cl'[s].replay = cl[s].replay, delivered[s] \subseteq delivered'[s],
         gtk' = gtk, ctr <= ctr',
         Received("M3", s)' = Received("M3", s), Received("G1", s)' = Received("G1", s),
         Received("G2", s)' = Received("G2", s)
  PROVE  Bounded(s)' /\ Owing(s)' /\ Acked(s)'
<1>1. Bounded(s)'
  BY BoundedKept DEF SameEntry
<1>2. Owing(s)'
  BY DEF SameEntry, Owing, NoHold
<1>3. \A g : Current(s, g) => Current(s, g)'
  BY DEF Current, SameEntry
<1>4. Acked(s)'
  BY <1>3 DEF Acked, SameEntry
<1> QED  BY <1>1, <1>2, <1>4

\* Quiet steps of the AP.
LEMMA QuietDelivers ==
  ASSUME TInv, TInv', DInv, Quiet, UNCHANGED clVars
  PROVE  DInv'
<1> SUFFICES ASSUME NEW s \in Sta PROVE Bounded(s)' /\ Owing(s)' /\ Acked(s)'
  BY DEF DInv
<1>1. /\ Received("M3", s)' = Received("M3", s) /\ Received("G1", s)' = Received("G1", s)
      /\ Received("G2", s)' = Received("G2", s)
  <2>1. Sends({"ASSOC_RESP", "SAQ", "DEAUTH"})
    BY DEF Quiet
  <2> QED  BY <2>1, HandshakeFramesSame
<1>2. /\ cl' = cl /\ delivered' = delivered /\ gtk' = gtk /\ ctr <= ctr'
      /\ Bounded(s) /\ Owing(s) /\ Acked(s) /\ SameEntry(s)
      /\ (held'[s] = held[s] \/ held'[s] = NoHold)
  BY CounterNumbers DEF clVars, Quiet, DInv
<1> QED  BY <1>1, <1>2, DeliveryKept

\* What the AP does for one station leaves the rekeys of the others alone.
LEMMA DeliveryOther ==
  ASSUME TInv, TInv', DInv, NEW s \in Sta, st'[s] = st[s], held'[s] = held[s],
         cl'[s] = cl[s], delivered'[s] = delivered[s], gtk' = gtk, ctr <= ctr',
         Received("M3", s)' = Received("M3", s), Received("G1", s)' = Received("G1", s),
         Received("G2", s)' = Received("G2", s)
  PROVE  Bounded(s)' /\ Owing(s)' /\ Acked(s)'
<1>1. Bounded(s) /\ Owing(s) /\ Acked(s) /\ SameEntry(s)
  BY DEF DInv, SameEntry, Labels
<1> QED  BY <1>1, DeliveryKept

\* A session that ends takes its rekey with it.
LEMMA ClearDelivers ==
  ASSUME TInv, TInv', DInv, UNCHANGED clVars, NEW s \in Sta, Cleared(s)
  PROVE  DInv'
<1>1. \A t : /\ Received("M3", t)' = Received("M3", t) /\ Received("G1", t)' = Received("G1", t)
             /\ Received("G2", t)' = Received("G2", t)
  <2>1. Sends({"DEAUTH"})
    BY DEF Cleared
  <2> QED  BY <2>1, HandshakeFramesSame
<1>2. /\ cl' = cl /\ delivered' = delivered /\ gtk' = gtk /\ ctr <= ctr' /\ held' = held
      /\ Bounded(s) /\ Owing(s)
  BY CounterNumbers DEF clVars, Cleared, DInv
<1>3. Bounded(s)' /\ Owing(s)' /\ Acked(s)'
  <2>1. Bounded(s)'
    BY <1>1, <1>2, BoundedKept DEF Cleared
  <2> QED  BY <2>1 DEF Cleared, Owing, Acked
<1>4. ASSUME NEW t \in Sta, t # s PROVE Bounded(t)' /\ Owing(t)' /\ Acked(t)'
  BY <1>1, <1>2, <1>4, DeliveryOther DEF Cleared
<1> QED  BY <1>3, <1>4 DEF DInv

\* No group message has carried a counter above the AP's.
LEMMA FreshCounter ==
  ASSUME TInv, NEW s \in Sta, Bounded(s), NEW rc \in Nat, rc > ctr
  PROVE  /\ \A m \in Received("M3", s) \cup Received("G1", s) \cup Received("G2", s) : m.rc # rc
         /\ cl[s].replay # rc
<1>1. \A n \in Nat : n <= ctr => n # rc
  BY CounterNumbers
<1>2. \A m \in Received("M3", s) \cup Received("G1", s) : m.rc \in Nat /\ m.rc <= ctr
  BY CounterNumbers DEF Bounded
<1>3. \A m \in Received("G2", s) : m.rc \in Nat /\ m.rc <= ctr
  BY CounterNumbers DEF Bounded
<1>4. cl[s].replay \in Nat /\ cl[s].replay <= ctr
  BY CounterNumbers DEF Bounded
<1> QED  BY <1>1, <1>2, <1>3, <1>4

\* An association request beside a rekey repeats the rekey's counter or takes a
\* fresh one.
LEMMA AssocDelivers ==
  ASSUME TInv, TInv', DInv, UNCHANGED clVars, NEW s \in Sta, RecvAssoc(s)
  PROVE  DInv'
<1>b. PICK b : b = Message1Basis(s)
  OBVIOUS
<1>0. /\ Bounded(s) /\ Owing(s) /\ Acked(s) /\ cl' = cl /\ delivered' = delivered
      /\ ctr \in Nat /\ ctr' \in Nat
  BY DEF DInv, clVars, TInv, TypeOK, ApTypeOK
<1>1. /\ b.rc \in Nat /\ b.an \in Nat
      /\ ctr' = (IF b.rc > ctr THEN b.rc ELSE ctr)
      /\ air' = air \cup {AssocResp(s), M1(s, b.rc, b.an)}
      /\ \A t \in Sta : t # s => st'[t] = st[t] /\ held'[t] = held[t]
      /\ held'[s] = b
      /\ st'[s].ready /\ st'[s].anonce = b.an /\ st'[s].replay = b.rc
      /\ st'[s].pending = M1(s, b.rc, b.an)
      /\ st'[s].associated = st[s].associated /\ st'[s].awaiting = st[s].awaiting
      /\ st'[s].rekeying = st[s].rekeying /\ st'[s].ptk = st[s].ptk
      /\ gtk' = gtk
  BY <1>b, AssocEffect
<1>2. \A t : /\ Received("M3", t)' = Received("M3", t) /\ Received("G1", t)' = Received("G1", t)
             /\ Received("G2", t)' = Received("G2", t)
  BY <1>1, FrameFields DEF Received
<1>3. ctr <= ctr' /\ b.rc <= ctr'
  BY <1>0, <1>1
<1>4. Bounded(s)'
  <2>1. \A n \in Nat : n <= ctr => n <= ctr'
    BY <1>0, <1>3
  <2>2. \A m \in Received("M3", s) : m.rc <= ctr'
    BY <1>0, <2>1, CounterNumbers DEF Bounded
  <2>3. \A g \in Received("G1", s) : g.rc <= ctr' /\ g.key \in Key /\ g.key.an <= ctr'
    BY <1>0, <2>1, CounterNumbers DEF Bounded, Key
  <2>4. cl[s].replay <= ctr'
    BY <1>0, <2>1, CounterNumbers DEF Bounded
  <2> QED  BY <1>0, <1>1, <1>2, <1>3, <2>2, <2>3, <2>4 DEF Bounded
<1>5. Owing(s)'
  <2>1. b.an # 0
    BY <1>b, CounterNumbers DEF Message1Basis
  <2>2. M1(s, b.rc, b.an) # NoFrame
    BY <1>1, FrameTypes, NoFrameAssumption
  <2> QED  BY <1>0, <1>1, <2>1, <2>2 DEF Owing
<1>6. Acked(s)'
  <2> SUFFICES ASSUME st[s].rekeying PROVE Acked(s)'
    BY <1>1 DEF Acked
  <2>1. st[s].associated /\ ~st[s].awaiting
    BY <1>0 DEF Owing, RecvAssoc
  <2>2. CASE st[s].ready
    <3>1. b.an = st[s].anonce /\ b.rc = st[s].replay
      BY <1>0, <1>b, <2>2 DEF Owing, Message1Basis
    <3>2. \A g : Current(s, g) => Current(s, g)'
      BY <1>0, <1>1, <1>2, <2>2, <3>1 DEF Current
    <3> QED  BY <1>0, <1>1, <1>2, <3>1, <3>2 DEF Acked
  <2>3. CASE ~st[s].ready
    <3>1. b.rc = ctr + 1
      BY <1>0, <1>b, <2>1, <2>3 DEF Owing, Message1Basis
    <3>2. b.rc > ctr
      BY <1>0, <3>1
    <3>3. \A m \in Received("G1", s) \cup Received("G2", s) : m.rc # b.rc
      BY <1>0, <1>1, <3>2, FreshCounter
    <3> QED  BY <1>1, <1>2, <3>3 DEF Acked
  <2> QED  BY <2>2, <2>3
<1>7. ASSUME NEW t \in Sta, t # s PROVE Bounded(t)' /\ Owing(t)' /\ Acked(t)'
  <2>1. st'[t] = st[t] /\ held'[t] = held[t]
    BY <1>1, <1>7
  <2> QED  BY <1>0, <1>1, <1>2, <1>3, <2>1, DeliveryOther
<1> QED  BY <1>4, <1>5, <1>6, <1>7 DEF DInv

\* Message 3 shares the rekey's counter only with another key, or takes a fresh one.
LEMMA M2Delivers ==
  ASSUME TInv, TInv', DInv, UNCHANGED clVars, NEW s \in Sta, RecvM2(s)
  PROVE  DInv'
<1>0. /\ Bounded(s) /\ Owing(s) /\ Acked(s) /\ cl' = cl /\ delivered' = delivered
      /\ ctr \in Nat /\ ctr' \in Nat /\ gtk \in Nat /\ st[s].anonce \in Nat
  BY CounterNumbers DEF DInv, clVars, TInv, TypeOK, ApTypeOK
<1>1. PICK m \in Received("M2", s), rc \in Nat :
        /\ MicVerifies(s, m) /\ m.key \in Key
        /\ st[s].awaiting => rc = st[s].replay /\ ctr' = ctr /\ held'[s] = held[s]
        /\ ~st[s].awaiting => rc = ctr + 1 /\ ctr' = rc /\ held'[s] = NoHold
        /\ air' = air \cup {M3(s, rc, st[s].anonce, m.key, gtk)}
        /\ \A t \in Sta : t # s => st'[t] = st[t] /\ held'[t] = held[t]
        /\ ~st'[s].ready /\ st'[s].awaiting /\ st'[s].anonce = st[s].anonce
        /\ st'[s].replay = rc
        /\ st'[s].pending = M3(s, rc, st[s].anonce, m.key, gtk)
        /\ st'[s].associated = st[s].associated /\ st'[s].rekeying = st[s].rekeying
        /\ st'[s].ptk = st[s].ptk
        /\ gtk' = gtk
  BY M2Effect
<1>k. m.key.an = st[s].anonce
  BY <1>1 DEF MicVerifies, PtkOf
<1> DEFINE f == M3(s, rc, st[s].anonce, m.key, gtk)
<1>f. f.type = "M3" /\ f.sta = s /\ f.rc = rc /\ f.key = m.key /\ f # NoFrame
  <2>1. f # NoFrame
    BY <1>0, <1>1, ArmedIsFrame
  <2> QED  BY <2>1, FrameFields
<1>a. air' = air \cup {f} /\ st'[s].pending = f
  BY <1>1
<1> HIDE DEF f
<1>2. /\ Received("M3", s)' = Received("M3", s) \cup {f}
      /\ \A t : t # s => Received("M3", t)' = Received("M3", t)
      /\ \A t : /\ Received("G1", t)' = Received("G1", t)
                /\ Received("G2", t)' = Received("G2", t)
  BY <1>a, <1>f DEF Received
<1>3. ctr <= ctr' /\ rc <= ctr'
  BY <1>0, <1>1 DEF Bounded
<1>4. Bounded(s)'
  <2>1. \A n \in Nat : n <= ctr => n <= ctr'
    BY <1>0, <1>3
  <2>2. \A n \in Received("M3", s)' : n.rc <= ctr'
    BY <1>0, <1>2, <1>3, <1>f, <2>1, CounterNumbers DEF Bounded
  <2>3. \A g \in Received("G1", s) : g.rc <= ctr' /\ g.key \in Key /\ g.key.an <= ctr'
    BY <1>0, <2>1, CounterNumbers DEF Bounded, Key
  <2>4. cl[s].replay <= ctr' /\ held[s].rc <= ctr' /\ 0 <= ctr'
    BY <1>0, <2>1, CounterNumbers DEF Bounded
  <2>5. held'[s].rc <= ctr'
    BY <1>1, <2>4 DEF NoHold
  <2> QED  BY <1>0, <1>1, <1>2, <1>3, <2>2, <2>3, <2>4, <2>5 DEF Bounded
<1>5. Owing(s)'
  BY <1>0, <1>1, <1>a, <1>f DEF Owing
<1>6. Acked(s)'
  <2> SUFFICES ASSUME st[s].rekeying PROVE Acked(s)'
    BY <1>1 DEF Acked
  <2>1. CASE st[s].awaiting
    <3>1. rc = st[s].replay
      BY <1>1, <2>1
    <3>2. ASSUME NEW g \in Received("G1", s), g.rc = st[s].replay PROVE Current(s, g)'
      <4>1. Current(s, g)
        BY <1>0, <3>2 DEF Acked
      <4>2. g.key # m.key
        BY <1>k, <2>1, <4>1 DEF Current
      <4> QED  BY <1>0, <1>1, <1>2, <1>f, <2>1, <3>1, <4>1, <4>2 DEF Current
    <3> QED  BY <1>0, <1>1, <1>2, <3>1, <3>2 DEF Acked
  <2>2. CASE ~st[s].awaiting
    <3>1. rc > ctr
      BY <1>0, <1>1, <2>2
    <3>2. \A n \in Received("G1", s) \cup Received("G2", s) : n.rc # rc
      BY <1>0, <3>1, FreshCounter
    <3> QED  BY <1>1, <1>2, <3>2 DEF Acked
  <2> QED  BY <2>1, <2>2
<1>7. ASSUME NEW t \in Sta, t # s PROVE Bounded(t)' /\ Owing(t)' /\ Acked(t)'
  <2>1. st'[t] = st[t] /\ held'[t] = held[t]
    BY <1>1, <1>7
  <2> QED  BY <1>0, <1>1, <1>2, <1>3, <1>7, <2>1, DeliveryOther
<1> QED  BY <1>4, <1>5, <1>6, <1>7 DEF DInv

\* The key message 4 installs is not the one the outstanding rekey was sent under.
LEMMA M4Delivers ==
  ASSUME TInv, TInv', NInv, DInv, UNCHANGED clVars, NEW s \in Sta, RecvM4(s)
  PROVE  DInv'
<1>0. /\ Bounded(s) /\ Owing(s) /\ Acked(s) /\ cl' = cl /\ delivered' = delivered
      /\ ctr \in Nat
  BY DEF DInv, clVars, TInv, TypeOK, ApTypeOK
<1>1. PICK m \in Received("M4", s), i \in DOMAIN st[s].cands :
        /\ st[s].cands[i].key = m.key /\ st[s].awaiting
        /\ \A t \in Sta : t # s => st'[t] = st[t] /\ held'[t] = held[t]
        /\ st'[s].associated /\ ~st'[s].awaiting /\ st'[s].ptk = m.key
        /\ st'[s].ready = st[s].ready /\ st'[s].rekeying = st[s].rekeying
        /\ st'[s].anonce = st[s].anonce /\ st'[s].replay = st[s].replay
        /\ held'[s] = NoHold /\ air' = air /\ ctr' = ctr /\ gtk' = gtk
  BY M4Effect
<1>2. m.key.an = st[s].anonce /\ ~st[s].ready
  BY <1>1 DEF NInv, NonceInv, Candidates
<1>3. \A t, u : Received(t, u)' = Received(t, u)
  BY <1>1 DEF Received
<1>4. Bounded(s)' /\ Owing(s)'
  <2>1. ctr <= ctr'
    BY <1>0, <1>1
  <2>2. Bounded(s)'
    BY <1>0, <1>1, <1>3, <2>1, BoundedKept
  <2> QED  BY <1>0, <1>1, <1>2, <2>2 DEF Owing, NoHold
<1>5. Acked(s)'
  <2> SUFFICES ASSUME st[s].rekeying PROVE Acked(s)'
    BY <1>1 DEF Acked
  <2>1. ASSUME NEW g \in Received("G1", s), g.rc = st[s].replay
        PROVE  g.key # m.key /\ Current(s, g)'
    <3>1. Current(s, g)
      BY <1>0, <2>1 DEF Acked
    <3>2. g.key # m.key
      BY <1>1, <1>2, <3>1 DEF Current
    <3> QED  BY <1>0, <1>1, <1>2, <1>3, <3>1, <3>2 DEF Current
  <2>2. ASSUME NEW n \in Received("G2", s), n.rc = st[s].replay PROVE n.key # m.key
    BY <1>0, <2>1, <2>2 DEF Bounded
  <2> QED  BY <1>1, <1>3, <2>1, <2>2 DEF Acked
<1>6. ASSUME NEW t \in Sta, t # s PROVE Bounded(t)' /\ Owing(t)' /\ Acked(t)'
  <2>1. st'[t] = st[t] /\ held'[t] = held[t] /\ ctr <= ctr'
    BY <1>0, <1>1, <1>6
  <2> QED  BY <1>0, <1>1, <1>3, <2>1, DeliveryOther
<1> QED  BY <1>4, <1>5, <1>6 DEF DInv

\* An acknowledgement ends the rekey.
LEMMA G2Delivers ==
  ASSUME TInv, TInv', DInv, UNCHANGED clVars, NEW s \in Sta, RecvG2(s)
  PROVE  DInv'
<1>0. /\ Bounded(s) /\ Owing(s) /\ cl' = cl /\ delivered' = delivered /\ ctr \in Nat
  BY DEF DInv, clVars, TInv, TypeOK, ApTypeOK
<1>1. /\ \A t \in Sta : t # s => st'[t] = st[t]
      /\ ~st'[s].rekeying
      /\ st'[s].associated = st[s].associated /\ st'[s].ready = st[s].ready
      /\ st'[s].awaiting = st[s].awaiting /\ st'[s].anonce = st[s].anonce
      /\ st'[s].replay = st[s].replay
      /\ air' = air /\ ctr' = ctr /\ gtk' = gtk /\ held' = held
  BY G2Effect
<1>2. \A t, u : Received(t, u)' = Received(t, u)
  BY <1>1 DEF Received
<1>3. ctr <= ctr'
  BY <1>0, <1>1
<1>4. Bounded(s)' /\ Owing(s)' /\ Acked(s)'
  <2>1. Bounded(s)'
    BY <1>0, <1>1, <1>2, <1>3, BoundedKept
  <2> QED  BY <1>0, <1>1, <2>1 DEF Owing, Acked
<1>5. ASSUME NEW t \in Sta, t # s PROVE Bounded(t)' /\ Owing(t)' /\ Acked(t)'
  BY <1>0, <1>1, <1>2, <1>3, <1>5, DeliveryOther
<1> QED  BY <1>4, <1>5 DEF DInv

\* A rotation takes a counter that no earlier frame of the station carries.
LEMMA RekeyDelivers ==
  ASSUME TInv, TInv', NInv, DInv, UNCHANGED clVars, RekeyGtk
  PROVE  DInv'
<1>0. ctr \in Nat /\ ctr' \in Nat /\ gtk \in Nat /\ cl' = cl /\ delivered' = delivered
  BY DEF TInv, TypeOK, ApTypeOK, clVars
<1>1. PICK rc \in [Associated -> Nat] :
        /\ \A s \in Associated : rc[s] > ctr /\ rc[s] <= ctr'
        /\ ctr <= ctr' /\ gtk' = gtk + 1
        /\ air' = air \cup {G1(s, rc[s], st[s].ptk, gtk + 1) : s \in Associated}
        /\ \A s \in Sta \ Associated : st'[s] = st[s]
        /\ \A s \in Associated :
             /\ st'[s].rekeying /\ st'[s].replay = rc[s]
             /\ st'[s].pending = G1(s, rc[s], st[s].ptk, gtk + 1)
             /\ st'[s].associated = st[s].associated /\ st'[s].ready = st[s].ready
             /\ st'[s].awaiting = st[s].awaiting /\ st'[s].anonce = st[s].anonce
             /\ st'[s].ptk = st[s].ptk
        /\ held' = held
  BY RekeyEffect
<1>2. \A s, a, k, g :
        /\ G1(s, a, k, g).type = "G1" /\ G1(s, a, k, g).sta = s
        /\ G1(s, a, k, g).rc = a /\ G1(s, a, k, g).key = k /\ G1(s, a, k, g).gtk = g
  BY FrameFields
<1>3. \A m \in air' : m \in air \/ m.type = "G1"
  BY <1>1, <1>2
<1>4. \A t : Received("M3", t)' = Received("M3", t) /\ Received("G2", t)' = Received("G2", t)
  BY <1>1, <1>3 DEF Received
<1>5. \A n \in Nat : n <= ctr => n <= ctr'
  BY <1>0, <1>1
<1>6. ASSUME NEW s \in Associated PROVE Bounded(s)' /\ Owing(s)' /\ Acked(s)'
  <2>0. /\ s \in Sta /\ Bounded(s) /\ Owing(s) /\ NonceInv(s) /\ st[s].associated
        /\ rc[s] \in Nat /\ rc[s] > ctr
    BY <1>1 DEF DInv, NInv, Associated
  <2>g. PICK f : f = G1(s, rc[s], st[s].ptk, gtk + 1)
    OBVIOUS
  <2>f. f.type = "G1" /\ f.sta = s /\ f.rc = rc[s] /\ f.key = st[s].ptk /\ f.gtk = gtk'
    BY <1>1, <1>2, <2>g
  <2>p. st[s].ptk \in Key /\ st[s].ptk.an \in Nat /\ st[s].ptk.an <= ctr
    BY <2>0, Numbers DEF NonceInv, Ordered
  <2>1. f # NoFrame
    <3>1. gtk + 1 \in Nat
      BY <1>0
    <3> QED  BY <2>0, <2>g, <2>p, <3>1, ArmedIsFrame
  <2>2. Received("G1", s)' = Received("G1", s) \cup {f}
    <3>1. \A t \in Associated : G1(t, rc[t], st[t].ptk, gtk + 1).sta = s =>
                                G1(t, rc[t], st[t].ptk, gtk + 1) = f
      BY <1>2, <2>g
    <3>2. f \in air'
      BY <1>1, <2>g
    <3>3. \A m \in air' : m \in air \/ m.sta # s \/ m = f
      BY <1>1, <3>1
    <3>4. air \subseteq air'
      BY <1>1
    <3> QED  BY <2>f, <3>2, <3>3, <3>4 DEF Received
  <2>a. st'[s].pending = f
    BY <1>1, <2>g
  <2>3. Bounded(s)'
    <3>1. \A m \in Received("M3", s) : m.rc <= ctr'
      BY <1>5, <2>0, CounterNumbers DEF Bounded
    <3>2. \A g \in Received("G1", s) : g.rc <= ctr' /\ g.key \in Key /\ g.key.an <= ctr'
      BY <1>5, <2>0, CounterNumbers DEF Bounded, Key
    <3>3. f.rc <= ctr' /\ f.key \in Key /\ f.key.an <= ctr'
      BY <1>1, <1>5, <2>f, <2>p
    <3>4. cl[s].replay <= ctr' /\ held[s].rc <= ctr' /\ rc[s] <= ctr'
      BY <1>1, <1>5, <2>0, CounterNumbers DEF Bounded
    <3>5. \A m \in Received("G2", s) :
            \E g \in Received("G1", s)' : g.rc = m.rc /\ g.key = m.key
      BY <2>0, <2>2 DEF Bounded
    <3>6. \A g \in Received("G1", s)' : g.rc <= ctr' /\ g.key \in Key /\ g.key.an <= ctr'
      BY <2>2, <3>2, <3>3
    <3>7. cl'[s].replay <= ctr' /\ held'[s].rc <= ctr' /\ st'[s].replay <= ctr'
      BY <1>0, <1>1, <3>4
    <3> QED  BY <1>4, <3>1, <3>5, <3>6, <3>7 DEF Bounded
  <2>4. Owing(s)'
    BY <1>1, <2>0, <2>1, <2>a DEF Owing
  <2>5. /\ \A m \in Received("M3", s) \cup Received("G1", s) \cup Received("G2", s) : m.rc # rc[s]
        /\ cl[s].replay # rc[s]
    BY <2>0, FreshCounter
  <2>6. st[s].ready \/ st[s].awaiting => st[s].ptk.an # st[s].anonce
    BY <2>0 DEF NonceInv, Unspent, Spent
  <2>7. Current(s, f)'
    BY <1>0, <1>1, <1>4, <2>5, <2>6, <2>f DEF Current
  <2>8. \A g \in Received("G1", s)' : g.rc = rc[s] => g = f
    BY <2>2, <2>5
  <2> QED  BY <1>1, <1>4, <2>3, <2>4, <2>5, <2>7, <2>8 DEF Acked
<1>7. ASSUME NEW s \in Sta \ Associated PROVE Bounded(s)' /\ Owing(s)' /\ Acked(s)'
  <2>0. /\ Bounded(s) /\ Owing(s) /\ ~st[s].associated /\ st'[s] = st[s]
    BY <1>1 DEF DInv, Associated
  <2>1. Received("G1", s)' = Received("G1", s)
    <3>1. \A t \in Associated : G1(t, rc[t], st[t].ptk, gtk + 1).sta # s
      BY <1>2
    <3>2. air \subseteq air' /\ \A m \in air' : m \in air \/ m.sta # s
      BY <1>1, <3>1
    <3> QED  BY <3>2 DEF Received
  <2>2. Bounded(s)'
    BY <1>0, <1>1, <1>4, <2>0, <2>1, BoundedKept
  <2> QED  BY <1>1, <2>0, <2>2 DEF Owing, Acked
<1> QED  BY <1>6, <1>7 DEF DInv

\* A client that forgets its keys, or keeps them, acknowledges nothing.
LEMMA ClientDelivers ==
  ASSUME TInv, TInv', DInv, UNCHANGED apVars, NEW s \in Sta, ClCleared(s) \/ ClKept(s)
  PROVE  DInv'
<1> SUFFICES ASSUME NEW t \in Sta PROVE Bounded(t)' /\ Owing(t)' /\ Acked(t)'
  BY DEF DInv
<1>0. /\ st' = st /\ held' = held /\ ctr' = ctr /\ gtk' = gtk /\ ctr <= ctr'
      /\ delivered' = delivered /\ Bounded(t) /\ Owing(t) /\ Acked(t)
  BY CounterNumbers DEF apVars, ClCleared, ClKept, DInv
<1>1. /\ Received("M3", t)' = Received("M3", t) /\ Received("G1", t)' = Received("G1", t)
      /\ Received("G2", t)' = Received("G2", t)
  <2>1. Sends({"LEAVE"}) \/ Sends({"SAR"})
    BY DEF ClCleared, ClKept
  <2> QED  BY <2>1, HandshakeFramesSame
<1>2. CASE t # s
  <2>1. cl'[t] = cl[t]
    BY <1>2 DEF ClCleared, ClKept
  <2> QED  BY <1>0, <1>1, <2>1, DeliveryOther
<1>3. CASE t = s /\ ClKept(s)
  <2>1. /\ cl'[t].installed = cl[t].installed /\ cl'[t].ptk = cl[t].ptk
        /\ cl'[t].replay = cl[t].replay /\ SameEntry(t)
    BY <1>0, <1>3 DEF ClKept, SameEntry, Labels
  <2> QED  BY <1>0, <1>1, <2>1, DeliveryKept
<1>4. CASE t = s /\ ClCleared(s)
  <2>1. cl'[t].replay = 0 /\ ~cl'[t].installed
    BY <1>4 DEF ClCleared
  <2>2. Bounded(t)'
    BY <1>0, <1>1, <2>1, BoundedKept
  <2>3. \A g : Current(t, g) => Current(t, g)'
    BY <1>0, <1>1, <2>1 DEF Current
  <2> QED  BY <1>0, <1>1, <2>2, <2>3 DEF Owing, Acked
<1> QED  BY <1>2, <1>3, <1>4

\* An answer to message 1 is no acknowledgement of a group key.
LEMMA M1Delivers ==
  ASSUME TInv, TInv', DInv, UNCHANGED apVars, NEW s \in Sta, RecvM1(s) \/ RecvM1Retry(s)
  PROVE  DInv'
<1> SUFFICES ASSUME NEW t \in Sta PROVE Bounded(t)' /\ Owing(t)' /\ Acked(t)'
  BY DEF DInv
<1>0. /\ st' = st /\ held' = held /\ ctr' = ctr /\ gtk' = gtk /\ ctr <= ctr'
      /\ Bounded(t) /\ Owing(t) /\ Acked(t) /\ SameEntry(t)
  BY CounterNumbers DEF apVars, DInv, SameEntry, Labels
<1>1. PICK a, b, k :
        /\ air' = air \cup {M2(s, a, b, k)} /\ delivered' = delivered
        /\ cl'[s].installed = cl[s].installed /\ cl'[s].ptk = cl[s].ptk
        /\ cl'[s].replay = cl[s].replay
        /\ \A u \in Sta : u # s => cl'[u] = cl[u]
  <2>1. CASE RecvM1(s)
    <3>1. PICK m : air' = air \cup {M2(s, m.rc, nsn[s] + 1, PtkOf(s, Psk[s], m.an, nsn[s] + 1))}
      BY <2>1, M1Effect
    <3>2. /\ cl'[s].installed = cl[s].installed /\ cl'[s].ptk = cl[s].ptk
          /\ cl'[s].replay = cl[s].replay /\ delivered' = delivered
          /\ \A u \in Sta : u # s => cl'[u] = cl[u]
      BY <2>1, M1Effect
    <3> QED  BY <3>1, <3>2
  <2>2. CASE RecvM1Retry(s)
    BY <2>2, M1RetryEffect
  <2> QED  BY <2>1, <2>2
<1>2. /\ Received("M3", t)' = Received("M3", t) /\ Received("G1", t)' = Received("G1", t)
      /\ Received("G2", t)' = Received("G2", t)
  BY <1>1, FrameFields DEF Received
<1>3. /\ cl'[t].installed = cl[t].installed /\ cl'[t].ptk = cl[t].ptk
      /\ cl'[t].replay = cl[t].replay
  BY <1>1
<1> QED  BY <1>0, <1>1, <1>2, <1>3, DeliveryKept

\* The key that message 3 commits is new, so the rekey under way is not under it; a
\* repeated message 3 with the rekey's counter is under another key than the rekey.
LEMMA M3Delivers ==
  ASSUME TInv, TInv', AInv, CInv, DInv, UNCHANGED apVars, NEW s \in Sta,
         RecvM3(s) \/ RecvM3Retry(s)
  PROVE  DInv'
<1>0. /\ st' = st /\ held' = held /\ ctr' = ctr /\ gtk' = gtk /\ ctr <= ctr'
      /\ Bounded(s) /\ Owing(s) /\ Acked(s) /\ AgreeInv(s) /\ PendingIsNew(s)
  BY CounterNumbers DEF apVars, DInv, AInv, CInv
<1>1. PICK m \in Received("M3", s) :
        /\ air' = air \cup {M4(s, m.rc, m.key)}
        /\ cl'[s].ptk = m.key /\ cl'[s].replay = m.rc
        /\ delivered[s] \subseteq delivered'[s]
        /\ \A t \in Sta : t # s => cl'[t] = cl[t] /\ delivered'[t] = delivered[t]
        /\ m.key \in committed => cl[s].ptk = m.key
  <2>1. CASE RecvM3(s)
    <3>1. PICK m \in Received("M3", s) :
            /\ cl[s].pend.an # 0 /\ m.key = PendingKey(s)
            /\ cl'[s].ptk = m.key /\ cl'[s].replay = m.rc
            /\ \A t \in Sta : t # s => cl'[t] = cl[t]
            /\ delivered' = [delivered EXCEPT ![s] = delivered[s] \cup {m.gtk}]
            /\ air' = air \cup {M4(s, m.rc, m.key)}
      BY <2>1, M3Effect
    <3>2. m.key.sta = s /\ m.key.sn = cl[s].pend.sn
      BY <3>1 DEF PendingKey, PtkOf
    <3>3. m.key \notin committed
      BY <1>0, <3>1, <3>2, ClNumbers DEF PendingIsNew
    <3>4. /\ delivered[s] \subseteq delivered'[s]
          /\ \A t \in Sta : t # s => delivered'[t] = delivered[t]
      BY <3>1 DEF TInv, TypeOK, ClTypeOK
    <3> WITNESS m \in Received("M3", s)
    <3> QED  BY <3>1, <3>3, <3>4
  <2>2. CASE RecvM3Retry(s)
    BY <2>2, M3RetryEffect
  <2> QED  BY <2>1, <2>2
<1>2. \A t : /\ Received("M3", t)' = Received("M3", t) /\ Received("G1", t)' = Received("G1", t)
             /\ Received("G2", t)' = Received("G2", t)
  BY <1>1, FrameFields DEF Received
<1>3. Bounded(s)' /\ Owing(s)'
  BY <1>0, <1>1, <1>2 DEF Bounded, Owing
<1>4. Acked(s)'
  <2> SUFFICES ASSUME st[s].rekeying PROVE Acked(s)'
    BY <1>0 DEF Acked
  <2>1. st[s].ptk \in committed
    BY <1>0 DEF Owing, AgreeInv, Agreed
  <2>2. ASSUME NEW g \in Received("G1", s), g.rc = st[s].replay PROVE Current(s, g)'
    <3>1. Current(s, g)
      BY <1>0, <2>2 DEF Acked
    <3>2. ~(cl'[s].ptk = st[s].ptk /\ g.key = st[s].ptk /\ cl'[s].replay = st[s].replay)
      BY <1>1, <2>1, <3>1 DEF Current
    <3> QED  BY <1>0, <1>2, <3>1, <3>2 DEF Current
  <2> QED  BY <1>0, <1>1, <1>2, <2>2 DEF Acked
<1>5. ASSUME NEW t \in Sta, t # s PROVE Bounded(t)' /\ Owing(t)' /\ Acked(t)'
  <2>1. cl'[t] = cl[t] /\ delivered'[t] = delivered[t]
    BY <1>1, <1>5
  <2> QED  BY <1>0, <1>2, <2>1, DeliveryOther
<1> QED  BY <1>3, <1>4, <1>5 DEF DInv

\* Group message 2 follows the installation of the key that it acknowledges.
LEMMA G1Delivers ==
  ASSUME TInv, TInv', DInv, UNCHANGED apVars, NEW s \in Sta, RecvG1(s)
  PROVE  DInv'
<1>0. /\ st' = st /\ held' = held /\ ctr' = ctr /\ gtk' = gtk /\ ctr <= ctr'
      /\ Bounded(s) /\ Owing(s) /\ Acked(s) /\ delivered \in [Sta -> SUBSET Nat]
  BY CounterNumbers DEF apVars, DInv, TInv, TypeOK, ClTypeOK
<1>1. PICK m \in Received("G1", s) :
        /\ cl[s].installed /\ m.key = cl[s].ptk
        /\ \/ /\ cl'[s].replay = m.rc
              /\ delivered' = [delivered EXCEPT ![s] = delivered[s] \cup {m.gtk}]
           \/ /\ m.rc = cl[s].replay /\ cl'[s].replay = cl[s].replay
              /\ delivered' = delivered
        /\ cl'[s].installed = cl[s].installed /\ cl'[s].ptk = cl[s].ptk
        /\ \A t \in Sta : t # s => cl'[t] = cl[t]
        /\ air' = air \cup {G2(s, m.rc, cl[s].ptk)}
  BY G1Effect
<1>2. /\ delivered[s] \subseteq delivered'[s] /\ cl'[s].replay = m.rc
      /\ \A t \in Sta : t # s => delivered'[t] = delivered[t]
      /\ m.rc = cl[s].replay \/ m.gtk \in delivered'[s]
  BY <1>0, <1>1
<1>g. PICK f : f = G2(s, m.rc, cl[s].ptk)
  OBVIOUS
<1>f. f.type = "G2" /\ f.sta = s /\ f.rc = m.rc /\ f.key = m.key
  BY <1>1, <1>g, FrameFields
<1>3. /\ \A t : /\ Received("M3", t)' = Received("M3", t)
                /\ Received("G1", t)' = Received("G1", t)
                /\ t # s => Received("G2", t)' = Received("G2", t)
      /\ Received("G2", s)' = Received("G2", s) \cup {f}
  BY <1>1, <1>f, <1>g DEF Received
<1>4. Bounded(s)' /\ Owing(s)'
  BY <1>0, <1>1, <1>2, <1>3, <1>f DEF Bounded, Owing
<1>5. Acked(s)'
  <2> SUFFICES ASSUME st[s].rekeying PROVE Acked(s)'
    BY <1>0 DEF Acked
  <2>1. m.rc = st[s].replay /\ m.key = st[s].ptk => gtk \in delivered'[s]
    <3>1. m.rc = st[s].replay => Current(s, m)
      BY <1>0 DEF Acked
    <3> QED  BY <1>1, <1>2, <3>1 DEF Current
  <2>2. ASSUME NEW g \in Received("G1", s), g.rc = st[s].replay PROVE Current(s, g)'
    <3>1. Current(s, g)
      BY <1>0, <2>2 DEF Acked
    <3> QED  BY <1>0, <1>1, <1>2, <1>3, <2>1, <3>1 DEF Current
  <2>3. \A n \in Received("G2", s)' :
          n.rc = st[s].replay /\ n.key = st[s].ptk => gtk \in delivered'[s]
    BY <1>0, <1>2, <1>3, <1>f, <2>1 DEF Acked
  <2> QED  BY <1>0, <1>3, <2>2, <2>3 DEF Acked
<1>6. ASSUME NEW t \in Sta, t # s PROVE Bounded(t)' /\ Owing(t)' /\ Acked(t)'
  <2>1. cl'[t] = cl[t] /\ delivered'[t] = delivered[t]
    BY <1>1, <1>2, <1>6
  <2> QED  BY <1>0, <1>3, <1>6, <2>1, DeliveryOther
<1> QED  BY <1>4, <1>5, <1>6 DEF DInv

\* The initial state satisfies DInv.
LEMMA DeliverInit == Init => DInv
<1> SUFFICES ASSUME Init, NEW s \in Sta PROVE Bounded(s) /\ Owing(s) /\ Acked(s)
  BY DEF DInv
<1>1. st[s] = NewStation /\ held[s] = NoHold /\ cl[s] = NewClient /\ air = {} /\ ctr = 0
  BY DEF Init, ApInit, ClInit
<1>2. \A t : Received(t, s) = {}
  BY <1>1 DEF Received
<1> QED  BY <1>1, <1>2 DEF Bounded, Owing, Acked, NewStation, NewClient, NoHold

\* DInv is inductive relative to the invariants before it.
LEMMA DeliverInductive == TInv /\ TInv' /\ NInv /\ AInv /\ CInv /\ DInv /\ [Next]_vars => DInv'
<1> SUFFICES ASSUME TInv, TInv', NInv, AInv, CInv, DInv, [Next]_vars PROVE DInv'
  OBVIOUS
<1>0. \A s \in Sta : PendingSent(s)
  BY DEF AInv, AgreeInv
<1>1. CASE UNCHANGED vars
  BY <1>1, QuietOthers, QuietDelivers DEF vars
<1>2. CASE RekeyCoalesced /\ UNCHANGED clVars
  BY <1>2, QuietOthers, QuietDelivers
<1>3. CASE RekeyGtk /\ UNCHANGED clVars
  BY <1>3, RekeyDelivers
<1>4. ASSUME NEW s \in Sta, DataToUnknown(s) PROVE DInv'
  BY <1>4, QuietOthers, QuietDelivers DEF DataToUnknown
<1>5. ASSUME NEW s \in Sta, ApAlone(s) PROVE DInv'
  <2>1. UNCHANGED clVars
    BY <1>5 DEF ApAlone
  <2>2. CASE RecvSaQueryResp(s) \/ Relabels(s) \/ RecvAssocAwaitingM4(s)
               \/ RetryEapol(s) \/ DeliverToStation(s) \/ ContestedRequest(s)
    BY <1>0, <2>1, <2>2, QuietActions, QuietDelivers
  <2>3. CASE ExpireHeld(s)
    BY <2>1, <2>3, QuietOthers, QuietDelivers
  <2>4. CASE Kick(s) \/ PruneIdle(s) \/ RecvDeauth(s) \/ RecvBadM2(s) \/ TimeoutEapol(s)
               \/ SaQueryTimeout(s) \/ ExpireSae(s) \/ RecvAuth(s)
    BY <2>1, <2>4, ClearingActions, ClearDelivers
  <2> QED  BY <1>5, <2>1, <2>2, <2>3, <2>4, AssocDelivers, M2Delivers, M4Delivers, G2Delivers
             DEF ApAlone, Relabels
<1>6. ASSUME NEW s \in Sta, ClAlone(s) PROVE DInv'
  <2>1. UNCHANGED apVars
    BY <1>6 DEF ClAlone
  <2>2. CASE Beacon(s) \/ ClientTimeout(s) \/ ClientRecvDeauth(s) \/ ClientLeave(s)
    BY <2>1, <2>2, ClClearingActions, ClientDelivers
  <2>3. CASE RecvAssocResp(s) \/ ClientRecvSaQuery(s) \/ EncryptUplink(s)
    BY <2>1, <2>3, ClKeepingActions, ClientDelivers
  <2> QED  BY <1>6, <2>1, <2>2, <2>3, M1Delivers, M3Delivers, G1Delivers DEF ClAlone
<1> QED  BY <1>1, <1>2, <1>3, <1>4, <1>5, <1>6 DEF Next

\* Only group message 2 ends a rekey and leaves the port open.
LEMMA RekeyEndsDelivered ==
  ASSUME TInv, AInv, DInv, [Next]_vars, NEW s \in Sta,
         st[s].rekeying, ~st'[s].rekeying, st'[s].associated
  PROVE  gtk \in delivered[s]
<1>1. ASSUME Quiet PROVE FALSE
  BY <1>1 DEF Quiet, SameEntry
<1>2. ASSUME st' = st PROVE FALSE
  BY <1>2
<1>3. ASSUME NEW t \in Sta, Cleared(t) PROVE FALSE
  BY <1>3 DEF Cleared
<1>4. ASSUME RekeyGtk PROVE FALSE
  BY <1>4, RekeyEffect
<1>5. ASSUME NEW t \in Sta, RecvG2(t) PROVE gtk \in delivered[s]
  <2>1. PICK m \in Received("G2", t) :
          /\ m.rc = st[t].replay /\ m.key = st[t].ptk
          /\ \A u \in Sta : u # t => st'[u] = st[u]
    BY <1>5, G2Effect
  <2>2. s = t
    BY <2>1
  <2> QED  BY <2>1, <2>2 DEF DInv, Acked
<1>6. ASSUME NEW t \in Sta, RecvAssoc(t) \/ RecvM2(t) \/ RecvM4(t) PROVE FALSE
  <2>1. CASE RecvAssoc(t)
    BY <2>1, AssocEffect
  <2>2. CASE RecvM2(t)
    BY <2>2, M2Effect
  <2>3. CASE RecvM4(t)
    BY <2>3, M4Effect
  <2> QED  BY <1>6, <2>1, <2>2, <2>3
<1>7. ASSUME NEW t \in Sta, ApAlone(t) PROVE gtk \in delivered[s]
  <2>1. PendingSent(t)
    BY DEF AInv, AgreeInv
  <2>2. CASE RecvSaQueryResp(t) \/ Relabels(t) \/ RecvAssocAwaitingM4(t)
               \/ RetryEapol(t) \/ DeliverToStation(t) \/ ContestedRequest(t)
    BY <1>1, <2>1, <2>2, QuietActions
  <2>3. CASE ExpireHeld(t)
    BY <1>1, <2>3, QuietOthers
  <2>4. CASE Kick(t) \/ PruneIdle(t) \/ RecvDeauth(t) \/ RecvBadM2(t) \/ TimeoutEapol(t)
               \/ SaQueryTimeout(t) \/ ExpireSae(t) \/ RecvAuth(t)
    BY <1>3, <2>4, ClearingActions
  <2> QED  BY <1>5, <1>6, <1>7, <2>2, <2>3, <2>4 DEF ApAlone, Relabels
<1>8. ASSUME NEW t \in Sta, ClAlone(t) PROVE FALSE
  BY <1>2, <1>8 DEF ClAlone, apVars
<1>9. ASSUME NEW t \in Sta, DataToUnknown(t) PROVE FALSE
  BY <1>1, <1>9, QuietOthers DEF DataToUnknown
<1>10. CASE RekeyCoalesced
  BY <1>1, <1>10, QuietOthers
<1>11. CASE UNCHANGED vars
  BY <1>2, <1>11 DEF vars, apVars
<1> QED  BY <1>4, <1>7, <1>8, <1>9, <1>10, <1>11 DEF Next

\* With or without PMF, however group messages are lost, repeated or overtaken by a
\* handshake, the AP counts a rekey as acknowledged only when the station installed
\* the current GTK.
THEOREM RekeyReachesClient == Spec => RekeyDelivered
<1>1. Spec => [](TInv /\ NInv /\ AInv)
  BY AgreeHolds
<1>2. Spec => []CInv
  BY <1>1, ClFreshInductive, PTL DEF Spec
<1>3. Spec => []DInv
  BY <1>1, <1>2, DeliverInit, DeliverInductive, PTL DEF Spec
<1> DEFINE Ack == \A s \in Sta : st[s].rekeying /\ ~st'[s].rekeying /\ st'[s].associated
                                   => gtk \in delivered[s]
<1>4. TInv /\ AInv /\ DInv /\ [Next]_vars => [Ack]_vars
  BY RekeyEndsDelivered
<1>5. Spec => [][Ack]_vars
  BY <1>1, <1>3, <1>4, PTL DEF Spec
<1> QED  BY <1>5 DEF RekeyDelivered
=============================================================================
