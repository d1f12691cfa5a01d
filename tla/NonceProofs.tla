----------------------------- MODULE NonceProofs -----------------------------
(***************************************************************************)
(* For every number of stations, keys and frames: the AP never encrypts    *)
(* two things with one packet number under one pairwise key.               *)
(*                                                                         *)
(* NonceFresh alone is not inductive: message 4 installs a retained        *)
(* candidate with packet number 1, which is safe only because the          *)
(* candidate's ANonce cannot be that of a key used before.  The ANonces    *)
(* that can still become keys - the open handshake's, the held one, the    *)
(* candidates' - are therefore kept apart from the spent ones, and below   *)
(* the replay counter, from which a fresh ANonce is minted.                *)
(***************************************************************************)
EXTENDS WpaSessionProofs

Fresh(s) ==
  st[s].associated => \A u \in used : u[1] = st[s].ptk => u[2] < st[s].pn

Unspent(s) ==
  /\ st[s].ready \/ st[s].awaiting => ~Spent(s, st[s].anonce)
  /\ held[s].an # 0 => ~Spent(s, held[s].an)

Ordered(s) ==
  /\ st[s].anonce <= ctr /\ held[s].an <= ctr
  /\ st[s].associated => st[s].ptk.sta = s /\ st[s].ptk.an <= ctr
  /\ \A u \in used : u[1].an <= ctr

Candidates(s) ==
  \A i \in DOMAIN st[s].cands :
    /\ st[s].awaiting /\ ~st[s].ready
    /\ st[s].cands[i].key.an = st[s].anonce /\ st[s].cands[i].key.sta = s

NonceInv(s) == Fresh(s) /\ Unspent(s) /\ Ordered(s) /\ Candidates(s)

\* The inductive invariant.
NInv == \A s \in Sta : NonceInv(s)

\* The packet number of the installed key is used, or nothing is.
MayEncrypt(s) ==
  \/ used' = used
  \/ st[s].associated /\ used' = used \cup {<<st[s].ptk, st[s].pn>>}
-----------------------------------------------------------------------------
\* The inductive invariant implies both properties.
LEMMA NInvImplies == NInv => NonceFresh /\ NonceUnspent
BY DEF NInv, NonceInv, Fresh, Unspent, Ordered, Candidates, NonceFresh, NonceUnspent

\* The numbers the invariant compares are numbers.
LEMMA Numbers ==
  ASSUME TInv, NEW s \in Sta
  PROVE  /\ st[s] \in Station /\ held[s] \in Hold /\ ctr \in Nat
         /\ st[s].anonce \in Nat /\ held[s].an \in Nat /\ st[s].pn \in Nat
         /\ st[s].associated => st[s].ptk \in Key /\ st[s].ptk.an \in Nat
         /\ \A u \in used : u[1] \in Key /\ u[1].an \in Nat /\ u[2] \in Nat
<1>1. st[s] \in Station /\ held[s] \in Hold /\ ctr \in Nat /\ used \subseteq Key \X Nat
  BY DEF TInv, TypeOK, ApTypeOK
<1>2. st[s].anonce \in Nat /\ st[s].pn \in Nat
  BY <1>1, StationParts
<1>3. st[s].associated => st[s].ptk \in Key /\ st[s].ptk.an \in Nat
  BY DEF TInv, KeysInstalled, Key
<1>4. \A u \in used : u[1] \in Key /\ u[1].an \in Nat /\ u[2] \in Nat
  BY <1>1 DEF Key
<1> QED  BY <1>1, <1>2, <1>3, <1>4 DEF Hold

\* What one station does spends no ANonce of another.
LEMMA OtherStation ==
  ASSUME TInv, NInv, TInv', NEW s \in Sta, NEW t \in Sta, t # s,
         st'[t] = st[t], held'[t] = held[t], ctr <= ctr', MayEncrypt(s)
  PROVE  NonceInv(t)'
<1>1. NonceInv(t) /\ NonceInv(s)
  BY DEF NInv
<1>2. \A u \in used' : u[1].sta = t => u \in used
  BY <1>1 DEF MayEncrypt, NonceInv, Ordered
<1>3. \A n : Spent(t, n)' => Spent(t, n)
  BY <1>2 DEF Spent
<1>4. Fresh(t)'
  BY <1>1, <1>2 DEF NonceInv, Fresh, Ordered
<1>5. Unspent(t)'
  BY <1>1, <1>3 DEF NonceInv, Unspent
<1>6. Ordered(t)'
  <2>1. ctr \in Nat /\ ctr' \in Nat /\ st[t].anonce \in Nat /\ held[t].an \in Nat
    BY Numbers DEF TInv, TypeOK, ApTypeOK
  <2>2. st[t].anonce <= ctr' /\ held[t].an <= ctr'
    BY <1>1, <2>1 DEF NonceInv, Ordered
  <2>3. st[t].associated => st[t].ptk.sta = t /\ st[t].ptk.an <= ctr'
    BY <1>1, <2>1, Numbers DEF NonceInv, Ordered
  <2>4. \A u \in used' : u[1].an <= ctr'
    BY <1>1, <2>1, Numbers DEF NonceInv, Ordered, MayEncrypt
  <2> QED  BY <2>2, <2>3, <2>4 DEF Ordered
<1>7. Candidates(t)'
  BY <1>1 DEF NonceInv, Candidates
<1> QED  BY <1>4, <1>5, <1>6, <1>7 DEF NonceInv

\* A session that ends or starts over keeps nothing but its held ANonce.
LEMMA Emptied ==
  ASSUME TInv, NInv, TInv', NEW s \in Sta, ctr' = ctr, held' = held, MayEncrypt(s),
         ~st'[s].associated, ~st'[s].ready, ~st'[s].awaiting,
         st'[s].anonce = 0, st'[s].cands = <<>>
  PROVE  NonceInv(s)'
<1>1. NonceInv(s)
  BY DEF NInv
<1>2. \A n : Spent(s, n)' => Spent(s, n)
  BY DEF Spent, MayEncrypt
<1>3. Unspent(s)'
  BY <1>1, <1>2 DEF NonceInv, Unspent
<1>4. Ordered(s)'
  BY <1>1, Numbers DEF NonceInv, Ordered, MayEncrypt
<1> QED  BY <1>3, <1>4 DEF NonceInv, Fresh, Candidates

\* A step that leaves the handshake and the key alone, and advances the packet
\* number when it uses it.
LEMMA Kept ==
  ASSUME TInv, NInv, TInv', NEW s \in Sta, ctr <= ctr',
         held'[s] = held[s] \/ held'[s].an = 0,
         st'[s].associated = st[s].associated, st'[s].ready = st[s].ready,
         st'[s].awaiting = st[s].awaiting, st'[s].anonce = st[s].anonce,
         st'[s].cands = st[s].cands, st'[s].ptk = st[s].ptk,
         \/ used' = used /\ st'[s].pn = st[s].pn
         \/ /\ st[s].associated /\ used' = used \cup {<<st[s].ptk, st[s].pn>>}
            /\ st'[s].pn = st[s].pn + 1
  PROVE  NonceInv(s)'
<1>1. NonceInv(s)
  BY DEF NInv
<1>2. \A n : Spent(s, n)' => Spent(s, n)
  BY DEF Spent
<1>3. Fresh(s)'
  BY <1>1, Numbers DEF NonceInv, Fresh
<1>4. Unspent(s)'
  BY <1>1, <1>2 DEF NonceInv, Unspent
<1>5. Ordered(s)'
  <2>1. ctr' \in Nat
    BY DEF TInv, TypeOK, ApTypeOK
  <2> QED  BY <1>1, <2>1, Numbers DEF NonceInv, Ordered
<1>6. Candidates(s)'
  BY <1>1 DEF NonceInv, Candidates
<1> QED  BY <1>3, <1>4, <1>5, <1>6 DEF NonceInv
-----------------------------------------------------------------------------
(* One lemma per kind of step of the AP *)

\* Kick, idle pruning, leave, failed message 2, and the two timeouts.
LEMMA SessionEnds ==
  ASSUME TInv, NInv, TInv', NEW s \in Sta,
         Kick(s) \/ PruneIdle(s) \/ RecvDeauth(s) \/ RecvBadM2(s) \/ TimeoutEapol(s)
           \/ SaQueryTimeout(s) \/ ExpireSae(s)
  PROVE  NInv'
<1>1. Disconnect(s) /\ ctr' = ctr /\ held' = held
  BY DEF Kick, PruneIdle, RecvDeauth, RecvBadM2, TimeoutEapol, SaQueryTimeout, ExpireSae
<1>2. MayEncrypt(s)
  BY DEF Kick, PruneIdle, RecvDeauth, RecvBadM2, TimeoutEapol, SaQueryTimeout,
         ExpireSae, SendDeauth, MayEncrypt
<1>3. st \in [Sta -> Station]
  BY DEF TInv, TypeOK, ApTypeOK
<1>4. st'[s] = NewStation /\ \A t \in Sta : t # s => st'[t] = st[t]
  BY <1>1, <1>3 DEF Disconnect
<1>5. NonceInv(s)'
  BY <1>1, <1>2, <1>4, Emptied DEF NewStation
<1>6. ctr <= ctr'
  BY <1>1, Numbers
<1>7. ASSUME NEW t \in Sta, t # s PROVE NonceInv(t)'
  BY <1>1, <1>2, <1>4, <1>6, <1>7, OtherStation
<1> QED  BY <1>5, <1>7 DEF NInv

\* A fresh authentication leaves nothing of the session that could become a key.
LEMMA AuthStarts ==
  ASSUME TInv, NInv, TInv', NEW s \in Sta, RecvAuth(s)
  PROVE  NInv'
<1>1. st' = [st EXCEPT ![s] = AuthReset(st[s])] /\ ctr' = ctr /\ held' = held /\ MayEncrypt(s)
  BY DEF RecvAuth, MayEncrypt
<1>2. st \in [Sta -> Station]
  BY DEF TInv, TypeOK, ApTypeOK
<1>3. st'[s] = AuthReset(st[s]) /\ \A t \in Sta : t # s => st'[t] = st[t]
  BY <1>1, <1>2
<1>4. NonceInv(s)'
  <2> DEFINE r == AuthReset(st[s])
  <2>1. /\ ~r.associated /\ ~r.ready /\ ~r.awaiting
        /\ r.anonce = 0 /\ r.cands = <<>>
    BY DEF AuthReset, NewStation
  <2> HIDE DEF r
  <2> QED  BY <1>1, <1>3, <2>1, Emptied DEF r
<1>5. ctr <= ctr'
  BY <1>1, Numbers
<1>6. ASSUME NEW t \in Sta, t # s PROVE NonceInv(t)'
  BY <1>1, <1>3, <1>5, <1>6, OtherStation
<1> QED  BY <1>4, <1>6 DEF NInv

\* Steps that leave every handshake where it is.
LEMMA HandshakeKept ==
  ASSUME TInv, NInv, TInv', NEW s \in Sta, ctr' = ctr, held' = held,
         NEW r, st' = [st EXCEPT ![s] = r],
         r.associated = st[s].associated, r.ready = st[s].ready,
         r.awaiting = st[s].awaiting, r.anonce = st[s].anonce,
         r.cands = st[s].cands, r.ptk = st[s].ptk,
         \/ used' = used /\ r.pn = st[s].pn
         \/ /\ st[s].associated /\ used' = used \cup {<<st[s].ptk, st[s].pn>>}
            /\ r.pn = st[s].pn + 1
  PROVE  NInv'
<1>1. st \in [Sta -> Station] /\ ctr <= ctr'
  BY Numbers DEF TInv, TypeOK, ApTypeOK
<1>2. st'[s] = r /\ \A t \in Sta : t # s => st'[t] = st[t]
  BY <1>1
<1>3. MayEncrypt(s)
  BY DEF MayEncrypt
<1>4. NonceInv(s)'
  BY <1>1, <1>2, Kept
<1>5. ASSUME NEW t \in Sta, t # s PROVE NonceInv(t)'
  BY <1>1, <1>2, <1>3, <1>5, OtherStation
<1> QED  BY <1>4, <1>5 DEF NInv

\* Actions that touch neither nonces, keys nor packet numbers preserve NInv.
LEMMA SmallStepsKeep ==
  ASSUME TInv, NInv, TInv', NEW s \in Sta,
         RecvSaQueryResp(s) \/ Relabels(s) \/ RecvAssocAwaitingM4(s)
           \/ RecvG2(s) \/ RetryEapol(s) \/ DeliverToStation(s) \/ ContestedRequest(s)
  PROVE  NInv'
<1>0. st[s] \in Station /\ st \in [Sta -> Station]
  BY DEF TInv, TypeOK, ApTypeOK
<1>1. CASE RecvSaQueryResp(s)
  <2>1. PICK m \in Received("SAR", s) : st' = [st EXCEPT ![s] = Answered(st[s], m)]
    BY <1>1 DEF RecvSaQueryResp
  <2> DEFINE r == Answered(st[s], m)
  <2>2. /\ r.associated = st[s].associated /\ r.ready = st[s].ready
        /\ r.awaiting = st[s].awaiting /\ r.anonce = st[s].anonce
        /\ r.cands = st[s].cands /\ r.ptk = st[s].ptk /\ r.pn = st[s].pn
    BY <1>0 DEF Answered, Station
  <2> HIDE DEF r
  <2> QED  BY <1>1, <2>1, <2>2, HandshakeKept DEF RecvSaQueryResp, r
<1>2. CASE Relabels(s)
  <2>1. PICK r \in Station :
          /\ st' = [st EXCEPT ![s] = r] /\ KeepsSession(r, st[s])
          /\ UNCHANGED <<held, ctr, used>>
    BY <1>2, RelabelEffect DEF TInv, TypeOK
  <2> QED  BY <2>1, HandshakeKept DEF KeepsSession
<1>3. CASE RecvAssocAwaitingM4(s)
  <2>n. PICK n \in Negotiations(s) : st' = [st EXCEPT ![s] = Resent(Negotiated(st[s], n))]
    BY <1>3 DEF RecvAssocAwaitingM4
  <2> DEFINE q == Negotiated(st[s], n)
             r == Resent(q)
  <2>1. q \in Station
    BY <1>0, NegotiationsType, NegotiatedType
  <2>2. /\ q.associated = st[s].associated /\ q.ready = st[s].ready
        /\ q.awaiting = st[s].awaiting /\ q.anonce = st[s].anonce
        /\ q.cands = st[s].cands /\ q.ptk = st[s].ptk /\ q.pn = st[s].pn
    BY <1>0 DEF Negotiated, Station
  <2>3. st' = [st EXCEPT ![s] = r]
    BY <2>n
  <2> HIDE DEF q
  <2>4. /\ r.associated = st[s].associated /\ r.ready = st[s].ready
        /\ r.awaiting = st[s].awaiting /\ r.anonce = st[s].anonce
        /\ r.cands = st[s].cands /\ r.ptk = st[s].ptk /\ r.pn = st[s].pn
    BY <2>1, <2>2 DEF Resent, Station
  <2> HIDE DEF r
  <2> QED  BY <1>3, <2>3, <2>4, HandshakeKept DEF RecvAssocAwaitingM4
<1>4. CASE RecvG2(s)
  <2> DEFINE r == G2Station(st[s])
  <2>2. /\ r.associated = st[s].associated /\ r.ready = st[s].ready
        /\ r.awaiting = st[s].awaiting /\ r.anonce = st[s].anonce
        /\ r.cands = st[s].cands /\ r.ptk = st[s].ptk /\ r.pn = st[s].pn
    BY <1>0 DEF G2Station, Station
  <2> HIDE DEF r
  <2> QED  BY <1>4, <2>2, HandshakeKept DEF RecvG2, r
<1>5. CASE RetryEapol(s)
  <2> DEFINE r == [st[s] EXCEPT !.retries = st[s].retries + 1]
  <2>1. st' = [st EXCEPT ![s] = r]
    BY <1>5 DEF RetryEapol
  <2>2. /\ r.associated = st[s].associated /\ r.ready = st[s].ready
        /\ r.awaiting = st[s].awaiting /\ r.anonce = st[s].anonce
        /\ r.cands = st[s].cands /\ r.ptk = st[s].ptk /\ r.pn = st[s].pn
    BY <1>0 DEF Station
  <2> HIDE DEF r
  <2> QED  BY <1>5, <2>1, <2>2, HandshakeKept DEF RetryEapol
<1>6. CASE DeliverToStation(s)
  <2> DEFINE r == [st[s] EXCEPT !.pn = st[s].pn + 1]
  <2>1. st' = [st EXCEPT ![s] = r]
    BY <1>6 DEF DeliverToStation
  <2>2. /\ r.associated = st[s].associated /\ r.ready = st[s].ready
        /\ r.awaiting = st[s].awaiting /\ r.anonce = st[s].anonce
        /\ r.cands = st[s].cands /\ r.ptk = st[s].ptk /\ r.pn = st[s].pn + 1
    BY <1>0 DEF Station
  <2> HIDE DEF r
  <2> QED  BY <1>6, <2>1, <2>2, HandshakeKept DEF DeliverToStation
<1>7. CASE ContestedRequest(s)
  <2> DEFINE id == IF st[s].saQuery # 0 THEN st[s].saQuery ELSE saqId + 1
             r == Queried(st[s], id)
  <2>1. /\ r.associated = st[s].associated /\ r.ready = st[s].ready
        /\ r.awaiting = st[s].awaiting /\ r.anonce = st[s].anonce
        /\ r.cands = st[s].cands /\ r.ptk = st[s].ptk /\ r.pn = st[s].pn + 1
    BY <1>0 DEF Queried, Station
  <2>2. CASE st' = [st EXCEPT ![s] = r] /\ used' = used \cup {<<st[s].ptk, st[s].pn>>}
    <3> HIDE DEF r
    <3> QED  BY <1>7, <2>1, <2>2, HandshakeKept DEF ContestedRequest, PmfSessionProtected
  <2>3. CASE UNCHANGED <<st, used>>
    <3>1. st' = [st EXCEPT ![s] = st[s]]
      BY <1>0, <2>3
    <3> QED  BY <1>7, <2>3, <3>1, HandshakeKept DEF ContestedRequest
  <2> QED  BY <1>7, <2>2, <2>3 DEF ContestedRequest
<1> QED  BY <1>1, <1>2, <1>3, <1>4, <1>5, <1>6, <1>7

\* A rekey gives every station a counter and a frame, and touches nothing else.
LEMMA RekeyKeeps ==
  ASSUME TInv, NInv, TInv', RekeyGtk
  PROVE  NInv'
<1>1. PICK rc \in [Associated -> (ctr + 1)..(ctr + Cardinality(Associated))] :
        st' = [s \in Sta |-> IF s \in Associated THEN G1Station(s, rc[s]) ELSE st[s]]
  BY DEF RekeyGtk
<1>2. ASSUME NEW s \in Sta PROVE NonceInv(s)'
  <2>1. Cardinality(Associated) \in Nat
    BY StaAssumption, FS_Subset, FS_CardinalityType DEF Associated
  <2>2. ctr <= ctr' /\ held' = held /\ used' = used
    BY <2>1, Numbers DEF RekeyGtk
  <2>3. st[s] \in Station
    BY Numbers
  <2>4. CASE s \in Associated
    <3> DEFINE r == G1Station(s, rc[s])
    <3>1. st'[s] = r
      BY <1>1, <2>4
    <3>2. /\ r.associated = st[s].associated /\ r.ready = st[s].ready
          /\ r.awaiting = st[s].awaiting /\ r.anonce = st[s].anonce
          /\ r.cands = st[s].cands /\ r.ptk = st[s].ptk /\ r.pn = st[s].pn
      BY <2>3 DEF G1Station, Station
    <3> HIDE DEF r
    <3> QED  BY <2>2, <3>1, <3>2, Kept
  <2>5. CASE s \notin Associated
    <3>1. st'[s] = st[s]
      BY <1>1, <2>5
    <3> QED  BY <2>2, <3>1, Kept
  <2> QED  BY <2>4, <2>5
<1> QED  BY <1>2 DEF NInv

\* A step that keeps nonces, keys and packet numbers of every station preserves NInv.
LEMMA StationsKept ==
  ASSUME TInv, NInv, TInv', st' = st, ctr' = ctr, used' = used,
         \A s \in Sta : held'[s] = held[s] \/ held'[s].an = 0
  PROVE  NInv'
<1>1. ASSUME NEW s \in Sta PROVE NonceInv(s)'
  BY Numbers, Kept
<1> QED  BY <1>1 DEF NInv

\* Message 1 carries an ANonce that is open, held or above every spent one.
LEMMA AssocOpens ==
  ASSUME TInv, NInv, TInv', NEW s \in Sta, RecvAssoc(s)
  PROVE  NInv'
<1>n. PICK o \in Negotiations(s) : st' = [st EXCEPT ![s] = M1Station(s, o, Message1Basis(s))]
  BY DEF RecvAssoc
<1> DEFINE b == Message1Basis(s)
           r == M1Station(s, o, b)
<1>1. /\ ctr' = (IF b.rc > ctr THEN b.rc ELSE ctr) /\ held' = [held EXCEPT ![s] = b]
      /\ st' = [st EXCEPT ![s] = r] /\ used' = used
  BY <1>n DEF RecvAssoc
<1>2. /\ st[s] \in Station /\ st \in [Sta -> Station] /\ held \in [Sta -> Hold]
      /\ ctr \in Nat /\ b \in Hold
  BY BasisType DEF TInv, TypeOK, ApTypeOK
<1>3. NonceInv(s)
  BY DEF NInv
<1>4. b.an # 0 /\ ~Spent(s, b.an) /\ (b.an <= ctr \/ (b.an = ctr + 1 /\ b.rc = ctr + 1))
  <2>1. CASE st[s].ready /\ st[s].anonce # 0
    <3>1. b.an = st[s].anonce
      BY <2>1 DEF Message1Basis
    <3> HIDE DEF b
    <3> QED  BY <1>3, <2>1, <3>1 DEF NonceInv, Unspent, Ordered
  <2>2. CASE ~(st[s].ready /\ st[s].anonce # 0) /\ held[s].an # 0
    <3>1. b.an = held[s].an
      BY <2>2 DEF Message1Basis
    <3> HIDE DEF b
    <3> QED  BY <1>3, <2>2, <3>1 DEF NonceInv, Unspent, Ordered
  <2>3. CASE ~(st[s].ready /\ st[s].anonce # 0) /\ held[s].an = 0
    <3>1. b.an = ctr + 1 /\ b.rc = ctr + 1
      BY <2>3 DEF Message1Basis
    <3>2. ~Spent(s, ctr + 1)
      BY <1>3, Numbers DEF NonceInv, Ordered, Spent
    <3> QED  BY <1>2, <3>1, <3>2
  <2> QED  BY <2>1, <2>2, <2>3
<1>5. b.rc \in Nat /\ b.an \in Nat
  BY <1>2 DEF Hold
<1> HIDE DEF b
<1>6. /\ r.associated = st[s].associated /\ r.ptk = st[s].ptk /\ r.pn = st[s].pn
      /\ r.anonce = b.an /\ r.cands = <<>>
  BY <1>2 DEF M1Station, Negotiated, Station
<1> HIDE DEF r
<1>7. st'[s] = r /\ held'[s] = b
  BY <1>1, <1>2
<1>8. ctr <= ctr' /\ ctr' \in Nat /\ b.an <= ctr'
  BY <1>1, <1>2, <1>4, <1>5
<1>9. NonceInv(s)'
  <2>1. \A n : Spent(s, n)' => Spent(s, n)
    BY <1>1, <1>6, <1>7 DEF Spent
  <2>2. Fresh(s)'
    BY <1>1, <1>3, <1>6, <1>7 DEF NonceInv, Fresh
  <2>3. Unspent(s)'
    <3>1. PICK n : n = b.an
      OBVIOUS
    <3>2. st'[s].anonce = n /\ held'[s].an = n /\ ~Spent(s, n)'
      BY <1>4, <1>6, <1>7, <2>1, <3>1
    <3> QED  BY <3>2 DEF Unspent
  <2>4. Ordered(s)'
    <3>1. st'[s].anonce <= ctr' /\ held'[s].an <= ctr'
      BY <1>6, <1>7, <1>8
    <3>2. st'[s].associated => st'[s].ptk.sta = s /\ st'[s].ptk.an <= ctr'
      <4>1. st[s].associated => st[s].ptk.sta = s /\ st[s].ptk.an <= ctr'
        BY <1>3, <1>2, <1>8, Numbers DEF NonceInv, Ordered
      <4> QED  BY <1>6, <1>7, <4>1
    <3>3. \A u \in used' : u[1].an <= ctr'
      BY <1>1, <1>2, <1>3, <1>8, Numbers DEF NonceInv, Ordered
    <3> QED  BY <3>1, <3>2, <3>3 DEF Ordered
  <2>5. Candidates(s)'
    BY <1>6, <1>7 DEF Candidates
  <2> QED  BY <2>2, <2>3, <2>4, <2>5 DEF NonceInv
<1>10. ASSUME NEW t \in Sta, t # s PROVE NonceInv(t)'
  <2>1. st'[t] = st[t] /\ held'[t] = held[t] /\ MayEncrypt(s)
    BY <1>1, <1>2, <1>10 DEF MayEncrypt
  <2> QED  BY <1>8, <1>10, <2>1, OtherStation
<1> QED  BY <1>9, <1>10 DEF NInv

\* The keys retained after a message 2 are the old ones and the new one.
LEMMA RetainElements ==
  ASSUME NEW cs \in Seq(Candidate), NEW c \in Candidate, NEW i \in DOMAIN Retain(cs, c)
  PROVE  Retain(cs, c)[i] = c \/ \E j \in DOMAIN cs : Retain(cs, c)[i] = cs[j]
<1>1. CASE \E j \in DOMAIN cs : cs[j] = c
  BY <1>1 DEF Retain
<1>2. CASE ~\E j \in DOMAIN cs : cs[j] = c
  <2> DEFINE d == IF Len(cs) >= MaxCands THEN Tail(cs) ELSE cs
  <2>1. d \in Seq(Candidate) /\ \A j \in DOMAIN d : \E k \in DOMAIN cs : d[j] = cs[k]
    <3>1. CASE Len(cs) >= MaxCands
      <4>1. cs # <<>>
        BY <3>1, ApBounds
      <4>2. Tail(cs) \in Seq(Candidate) /\ DOMAIN Tail(cs) = 1..(Len(cs) - 1)
        BY <4>1
      <4>3. \A j \in 1..(Len(cs) - 1) : Tail(cs)[j] = cs[j + 1] /\ j + 1 \in DOMAIN cs
        BY <4>1
      <4> QED  BY <3>1, <4>2, <4>3
    <3>2. CASE ~(Len(cs) >= MaxCands)
      BY <3>2
    <3> QED  BY <3>1, <3>2
  <2>2. Retain(cs, c) = Append(d, c)
    BY <1>2 DEF Retain
  <2> HIDE DEF d
  <2>3. i \in 1..(Len(d) + 1)
    BY <2>1, <2>2
  <2> QED  BY <2>1, <2>2, <2>3
<1> QED  BY <1>1, <1>2

\* Message 2 retains one more key, of the ANonce the handshake is open for.
LEMMA M2Retains ==
  ASSUME TInv, NInv, TInv', NEW s \in Sta, RecvM2(s)
  PROVE  NInv'
<1> DEFINE rc == IF st[s].awaiting THEN st[s].replay ELSE ctr + 1
<1>1. PICK m \in Received("M2", s) :
        /\ ExpectsM2(s, m) /\ MicVerifies(s, m)
        /\ ctr' = IF st[s].awaiting THEN ctr ELSE rc
        /\ held' = IF st[s].awaiting THEN held ELSE [held EXCEPT ![s] = NoHold]
        /\ st' = [st EXCEPT ![s] = M2Station(s, m, rc)] /\ used' = used
  BY DEF RecvM2
<1>2. /\ st[s] \in Station /\ st \in [Sta -> Station] /\ held \in [Sta -> Hold]
      /\ st[s].cands \in Seq(Candidate) /\ st[s].replay \in Nat /\ ctr \in Nat
      /\ st[s].pmk \in Pmk \cup {NoPmk} /\ st[s].anonce \in Nat
  BY StationParts DEF TInv, TypeOK, ApTypeOK
<1>3. NonceInv(s)
  BY DEF NInv
<1>4. m.key \in Key /\ m.key.an = st[s].anonce /\ m.key.sta = s
  <2>1. PICK pmk \in PmkCandidates(s) : m.key = PtkOf(s, pmk, st[s].anonce, m.sn)
    BY <1>1 DEF MicVerifies
  <2>2. pmk \in Pmk
    BY <1>2, CredAssumption DEF PmkCandidates
  <2>3. m.sn \in Nat
    BY ReceivedType DEF TInv, TypeOK
  <2>4. m.key \in Key
    BY <1>2, <2>1, <2>2, <2>3, PtkType
  <2> QED  BY <2>1, <2>4 DEF PtkOf
<1>5. rc \in Nat /\ ctr <= ctr'
  BY <1>1, <1>2
<1> HIDE DEF rc
<1> DEFINE c == [rc |-> rc, key |-> m.key]
           r == M2Station(s, m, rc)
<1>6. /\ r.associated = st[s].associated /\ r.ptk = st[s].ptk /\ r.pn = st[s].pn
      /\ r.anonce = st[s].anonce /\ r.cands = Retain(st[s].cands, c)
      /\ r.awaiting = TRUE /\ r.ready = FALSE
  BY <1>2 DEF M2Station, Station
<1>7. c \in Candidate
  BY <1>4, <1>5 DEF Candidate
<1>8. c.key = m.key
  OBVIOUS
<1> HIDE DEF r, c
<1>9. /\ st'[s] = r /\ (held'[s] = held[s] \/ held'[s].an = 0)
      /\ \A t \in Sta : t # s => st'[t] = st[t] /\ held'[t] = held[t]
  BY <1>1, <1>2 DEF r, NoHold
<1>10. NonceInv(s)'
  <2>1. \A n : Spent(s, n)' => Spent(s, n)
    BY <1>1, <1>6, <1>9 DEF Spent
  <2>2. Fresh(s)'
    BY <1>1, <1>3, <1>6, <1>9 DEF NonceInv, Fresh
  <2>3. ~Spent(s, st[s].anonce)
    BY <1>1, <1>3 DEF ExpectsM2, NonceInv, Unspent
  <2>4. Unspent(s)'
    BY <1>3, <1>6, <1>9, <2>1, <2>3 DEF NonceInv, Unspent
  <2>5. Ordered(s)'
    <3>1. ctr' \in Nat
      BY DEF TInv, TypeOK, ApTypeOK
    <3>2. st'[s].anonce <= ctr' /\ held'[s].an <= ctr'
      BY <1>2, <1>3, <1>5, <1>6, <1>9, <3>1, Numbers DEF NonceInv, Ordered
    <3>3. st'[s].associated => st'[s].ptk.sta = s /\ st'[s].ptk.an <= ctr'
      <4>1. st[s].associated => st[s].ptk.sta = s /\ st[s].ptk.an <= ctr'
        BY <1>3, <1>2, <1>5, <3>1, Numbers DEF NonceInv, Ordered
      <4> QED  BY <1>6, <1>9, <4>1
    <3>4. \A u \in used' : u[1].an <= ctr'
      BY <1>1, <1>2, <1>3, <1>5, <3>1, Numbers DEF NonceInv, Ordered
    <3> QED  BY <3>2, <3>3, <3>4 DEF Ordered
  <2>6. Candidates(s)'
    <3> SUFFICES ASSUME NEW i \in DOMAIN r.cands
                 PROVE  r.cands[i].key.an = r.anonce /\ r.cands[i].key.sta = s
      BY <1>6, <1>9 DEF Candidates
    <3>1. r.cands[i] = c \/ \E j \in DOMAIN st[s].cands : r.cands[i] = st[s].cands[j]
      BY <1>2, <1>6, <1>7, RetainElements
    <3> QED  BY <1>3, <1>4, <1>6, <1>8, <3>1 DEF NonceInv, Candidates
  <2> QED  BY <2>2, <2>4, <2>5, <2>6 DEF NonceInv
<1>11. ASSUME NEW t \in Sta, t # s PROVE NonceInv(t)'
  <2>1. MayEncrypt(s)
    BY <1>1 DEF MayEncrypt
  <2> QED  BY <1>5, <1>9, <1>11, <2>1, OtherStation
<1> QED  BY <1>10, <1>11 DEF NInv

\* Message 4 installs a key whose ANonce was never spent, or keeps the packet
\* number of the one that is installed.
LEMMA M4Installs ==
  ASSUME TInv, NInv, TInv', NEW s \in Sta, RecvM4(s)
  PROVE  NInv'
<1>1. PICK m \in Received("M4", s), i \in DOMAIN st[s].cands :
        /\ st[s].cands[i].key = m.key
        /\ st' = [st EXCEPT ![s] = M4Station(st[s], m.key)]
  BY DEF RecvM4
<1>2. held' = [held EXCEPT ![s] = NoHold] /\ ctr' = ctr /\ used' = used
  BY DEF RecvM4
<1>3. /\ st[s] \in Station /\ st \in [Sta -> Station] /\ held \in [Sta -> Hold]
      /\ ctr \in Nat /\ st[s].anonce \in Nat
  BY StationParts DEF TInv, TypeOK, ApTypeOK
<1>4. NonceInv(s)
  BY DEF NInv
<1>5. /\ m.key.an = st[s].anonce /\ m.key.sta = s /\ ~st[s].ready
      /\ ~Spent(s, m.key.an) /\ m.key.an <= ctr
  BY <1>1, <1>4 DEF NonceInv, Candidates, Unspent, Ordered
<1> DEFINE r == M4Station(st[s], m.key)
<1>6. /\ r.ptk = m.key /\ r.cands = <<>> /\ r.associated = TRUE /\ r.awaiting = FALSE
      /\ r.ready = st[s].ready /\ r.anonce = st[s].anonce
      /\ r.pn = PnAfterInstall(st[s], m.key)
  BY <1>3 DEF M4Station, Station
<1> HIDE DEF r
<1>7. st'[s] = r /\ held'[s].an = 0
  BY <1>1, <1>2, <1>3 DEF r, NoHold
<1>8. Fresh(s)'
  <2>1. ASSUME NEW u \in used, u[1] = m.key PROVE FALSE
    BY <1>5, <2>1 DEF Spent
  <2> QED  BY <1>2, <1>6, <1>7, <2>1 DEF Fresh
<1>9. Unspent(s)'
  BY <1>5, <1>6, <1>7 DEF Unspent
<1>10. Ordered(s)'
  BY <1>2, <1>3, <1>4, <1>5, <1>6, <1>7 DEF NonceInv, Ordered
<1>11. Candidates(s)'
  BY <1>6, <1>7 DEF Candidates
<1>12. ASSUME NEW t \in Sta, t # s PROVE NonceInv(t)'
  <2>1. st'[t] = st[t] /\ held'[t] = held[t] /\ MayEncrypt(s) /\ ctr <= ctr'
    BY <1>1, <1>2, <1>3, <1>12 DEF MayEncrypt
  <2> QED  BY <1>12, <2>1, OtherStation
<1> QED  BY <1>8, <1>9, <1>10, <1>11, <1>12 DEF NInv, NonceInv
-----------------------------------------------------------------------------
(* The theorem *)

\* The initial state satisfies NInv.
LEMMA NonceInit == Init => NInv
<1> SUFFICES ASSUME Init, NEW s \in Sta PROVE NonceInv(s)
  BY DEF NInv
<1>1. st[s] = NewStation /\ held[s] = NoHold /\ used = {} /\ ctr = 0
  BY DEF Init, ApInit
<1>2. Ordered(s)
  BY <1>1 DEF Ordered, NewStation, NoHold
<1> QED  BY <1>1, <1>2 DEF NonceInv, Fresh, Unspent, Candidates, NewStation, NoHold

\* NInv is inductive relative to the typing invariant.
LEMMA NonceInductive == TInv /\ TInv' /\ NInv /\ [Next]_vars => NInv'
<1> SUFFICES ASSUME TInv, TInv', NInv, [Next]_vars PROVE NInv'
  OBVIOUS
<1>1. ASSUME UNCHANGED apVars PROVE NInv'
  BY <1>1, StationsKept DEF apVars
<1>2. CASE RekeyCoalesced
  BY <1>2, StationsKept DEF RekeyCoalesced
<1>3. CASE RekeyGtk
  BY <1>3, RekeyKeeps
<1>4. ASSUME NEW s \in Sta, ExpireHeld(s) PROVE NInv'
  <2>1. held \in [Sta -> Hold]
    BY DEF TInv, TypeOK, ApTypeOK
  <2>2. \A t \in Sta : held'[t] = held[t] \/ held'[t].an = 0
    BY <1>4, <2>1 DEF ExpireHeld, NoHold
  <2> QED  BY <1>4, <2>2, StationsKept DEF ExpireHeld
<1>5. ASSUME NEW s \in Sta, ApAlone(s) PROVE NInv'
  BY <1>4, <1>5, SessionEnds, AuthStarts, SmallStepsKeep, AssocOpens, M2Retains, M4Installs
  DEF ApAlone, Relabels
<1>6. ASSUME NEW s \in Sta, ClAlone(s) \/ DataToUnknown(s) PROVE UNCHANGED apVars
  BY <1>6 DEF ClAlone, DataToUnknown, RecvDataUnknown
<1> QED  BY <1>1, <1>2, <1>3, <1>5, <1>6 DEF Next, vars

\* The AP never uses a packet number twice with a pairwise key, for any number of
\* stations and whatever frames the medium loses, repeats or reorders.
THEOREM NoPnReuse == Spec => []NonceFresh
<1>1. Spec => []TInv
  BY TypeInit, TypeInductive, PTL DEF Spec
<1>2. Spec => []NInv
  BY <1>1, NonceInit, NonceInductive, PTL DEF Spec
<1> QED  BY <1>2, NInvImplies, PTL

\* No ANonce of an open handshake, a retained candidate or the held store ever
\* belongs to a key the AP has installed or used.
THEOREM NoSpentNonceReturns == Spec => []NonceUnspent
<1>1. Spec => []TInv
  BY TypeInit, TypeInductive, PTL DEF Spec
<1>2. Spec => []NInv
  BY <1>1, NonceInit, NonceInductive, PTL DEF Spec
<1> QED  BY <1>2, NInvImplies, PTL
=============================================================================
