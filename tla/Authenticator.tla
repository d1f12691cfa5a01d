---------------------------- MODULE Authenticator ----------------------------
(***************************************************************************)
(* The AP's protocol engine (src/ap) on the raw-frame transport: station    *)
(* table, four-way and group-key handshakes, EAPOL retransmission, strict  *)
(* and periodic GTK rekeying, PMF session protection, and the downlink     *)
(* packet number.  Authentication is open-system, with pre-shared or cached *)
(* keys, or SAE, of which only what a completed commit does to the station *)
(* is here (SaeAuth has the exchange itself).                              *)
(*                                                                         *)
(* Time is abstracted: a timer may fire whenever it is armed.  One call of *)
(* Ap::tick is a sequence of the actions under "tick" below.               *)
(***************************************************************************)
EXTENDS EapolFrames, Integers

CONSTANTS MaxRc,       \* bound on the EAPOL replay counter
          MaxGtk,      \* bound on the group-key epoch
          MaxPn,       \* MAX_PACKET_NUMBER
          MaxRetries,  \* MAX_EAPOL_RETRIES
          MaxCands,    \* capacity of ptk_candidates
          MaxSaq       \* bound on SA Query transaction identifiers

ASSUME ApBounds ==
  /\ MaxRc \in Nat /\ MaxGtk \in Nat /\ MaxPn \in Nat /\ MaxRetries \in Nat
  /\ MaxCands \in Nat \ {0} /\ MaxSaq \in Nat

VARIABLES
  known,     \* addresses with an entry in Ap.stations
  st,        \* the entry (a fresh one for addresses not in known)
  held,      \* Ap.pending_anonce
  ctr,       \* Ap.eapol_replay_counter
  gtk,       \* Ap.group_key_epoch, standing for the GTK itself
  rekeyDue,  \* Ap.group_rekey_due
  saqId,     \* Ap.sa_query_id
  conn,      \* Connected minus Disconnected events emitted per station
  failed,    \* stations with a FourWayMic entry in the failure log
  used,      \* history: <<PTK, PN>> pairs the AP encrypted with
  owed       \* history: a strict rekey was requested and not yet performed

apVars == <<known, st, held, ctr, gtk, rekeyDue, saqId, conn, failed, used, owed>>
-----------------------------------------------------------------------------
(* State *)

Candidate == [rc : Nat, key : Key]

Station ==
  [associated : BOOLEAN, ready : BOOLEAN, awaiting : BOOLEAN,
   anonce : Nat, replay : Nat, m1Replay : Nat,
   cands : Seq(Candidate), ptk : Key \cup {NoKey}, pmk : Pmk \cup {NoPmk},
   pn : 1..(MaxPn + 1), pending : Frame \cup {NoFrame}, retries : 0..MaxRetries,
   rekeying : BOOLEAN, pmf : BOOLEAN, saQuery : Nat, mgmtPn : Nat,
   lastAssoc : BOOLEAN]

NewStation ==
  [associated |-> FALSE, ready |-> FALSE, awaiting |-> FALSE,
   anonce |-> 0, replay |-> 0, m1Replay |-> 0,
   cands |-> <<>>, ptk |-> NoKey, pmk |-> NoPmk,
   pn |-> 1, pending |-> NoFrame, retries |-> 0,
   rekeying |-> FALSE, pmf |-> FALSE, saQuery |-> 0, mgmtPn |-> 0,
   lastAssoc |-> FALSE]

Hold == [an : Nat, rc : Nat]
NoHold == [an |-> 0, rc |-> 0]

ApInit ==
  /\ known = {}
  /\ st = [s \in Sta |-> NewStation]
  /\ held = [s \in Sta |-> NoHold]
  /\ ctr = 0 /\ gtk = 1 /\ saqId = 0
  /\ rekeyDue = FALSE /\ owed = FALSE
  /\ conn = [s \in Sta |-> 0]
  /\ failed = {}
  /\ used = {}

ApTypeOK ==
  /\ known \subseteq Sta
  /\ st \in [Sta -> Station]
  /\ \A s \in Sta : Len(st[s].cands) <= MaxCands
  /\ held \in [Sta -> Hold]
  /\ ctr \in Nat /\ gtk \in Nat /\ saqId \in Nat
  /\ rekeyDue \in BOOLEAN /\ owed \in BOOLEAN
  /\ conn \in [Sta -> Int]
  /\ failed \subseteq Sta
  /\ used \subseteq Key \X Nat

Associated == {s \in Sta : st[s].associated}
-----------------------------------------------------------------------------
(* Ending a session *)

\* The Disconnected event and the strict-rekey request of an association that
\* ends, as both disconnect and a fresh open authentication issue them.
RetireAssociation(s) ==
  LET request == st[s].associated /\ Associated \ {s} # {} IN
  /\ conn' = IF st[s].associated THEN [conn EXCEPT ![s] = @ - 1] ELSE conn
  /\ rekeyDue' = (rekeyDue \/ request)
  /\ owed' = (owed \/ request)

Disconnect(s) ==
  /\ known' = known \ {s}
  /\ st' = [st EXCEPT ![s] = NewStation]
  /\ RetireAssociation(s)

\* protected_deauth, or the unprotected fallback when no pairwise key is
\* installed or its packet numbers are exhausted.
SendDeauth(s) ==
  IF st[s].associated /\ st[s].pn <= MaxPn
  THEN /\ air' = air \cup {Deauth(s, st[s].ptk, st[s].pn)}
       /\ used' = used \cup {<<st[s].ptk, st[s].pn>>}
  ELSE /\ air' = air \cup {Deauth(s, NoKey, 0)}
       /\ UNCHANGED used

Kick(s) ==
  /\ s \in known
  /\ SendDeauth(s)
  /\ Disconnect(s)
  /\ UNCHANGED <<held, ctr, gtk, saqId, failed>>

PruneIdle(s) ==
  /\ s \in known /\ st[s].associated
  /\ SendDeauth(s)
  /\ Disconnect(s)
  /\ UNCHANGED <<held, ctr, gtk, saqId, failed>>

\* protected_mgmt_body: the installed PTK and a packet number above the last
ProtectedMgmt(s, m) ==
  st[s].associated /\ m.key = st[s].ptk /\ m.sn > st[s].mgmtPn

\* Deauthentication or Disassociation from the station: anybody can send the
\* unprotected one, under PMF only the holder of the installed PTK counts.
RecvDeauth(s) ==
  /\ s \in known
  /\ \/ ~st[s].pmf
     \/ \E m \in Received("LEAVE", s) : ProtectedMgmt(s, m)
  /\ Disconnect(s)
  /\ UNCHANGED <<air, held, ctr, gtk, saqId, failed, used>>

IgnoreDataUnknown(s) == s \notin known /\ UNCHANGED <<air, apVars>>

\* Protected data from an address without an entry.
RecvDataUnknown(s) ==
  /\ s \notin known
  /\ air' = air \cup {Deauth(s, NoKey, 0)}
  /\ UNCHANGED apVars
-----------------------------------------------------------------------------
(* PMF session protection *)

UnprotectedSession(s) == FALSE
PmfSessionProtected(s) == st[s].associated /\ st[s].pmf

Queried(r, id) == [r EXCEPT !.pn = @ + 1, !.saQuery = id]

\* Authentication or (Re)Association Request for a protected session: keep the
\* session, challenge the station, reuse the transaction that is outstanding.
ContestedRequest(s) ==
  LET id == IF st[s].saQuery # 0 THEN st[s].saQuery ELSE saqId + 1 IN
  /\ PmfSessionProtected(s)
  /\ id <= MaxSaq
  /\ saqId' = IF st[s].saQuery # 0 THEN saqId ELSE id
  /\ IF st[s].pn <= MaxPn
     THEN /\ air' = air \cup {SaQueryReq(s, id, st[s].ptk, st[s].pn)}
          /\ used' = used \cup {<<st[s].ptk, st[s].pn>>}
          /\ st' = [st EXCEPT ![s] = Queried(@, id)]
     ELSE UNCHANGED <<air, used, st>>
  /\ UNCHANGED <<known, held, ctr, gtk, rekeyDue, conn, failed, owed>>

Answered(r, m) == [r EXCEPT !.mgmtPn = m.sn, !.saQuery = IF m.rc = @ THEN 0 ELSE @]

\* The answer to a station's own query takes a packet number as DeliverToStation does.
RecvSaQueryResp(s) ==
  /\ \E m \in Received("SAR", s) :
        /\ ProtectedMgmt(s, m)
        /\ st' = [st EXCEPT ![s] = Answered(@, m)]
  /\ UNCHANGED <<air, known, held, ctr, gtk, rekeyDue, saqId, conn, failed, used, owed>>
-----------------------------------------------------------------------------
(* Authentication and association *)

MidHandshake(r) == r.anonce # 0 /\ r.ready /\ ~r.awaiting

\* Everything but the packet number, the retry count and the backoff goes.
AuthReset(r) ==
  [NewStation EXCEPT !.pn = r.pn, !.retries = r.retries, !.lastAssoc = r.lastAssoc]

\* Open-system authentication outside the backoff window.  A retransmission
\* inside it, or one that meets an unanswered message 1, is only re-answered.
RecvAuth(s) ==
  /\ ~PmfSessionProtected(s)
  /\ ~MidHandshake(st[s])
  /\ known' = known \cup {s}
  /\ st' = [st EXCEPT ![s] = AuthReset(@)]
  /\ RetireAssociation(s)
  /\ UNCHANGED <<air, held, ctr, gtk, saqId, failed, used>>

Negotiated(r, n) == [r EXCEPT !.pmf = n.pmf, !.pmk = n.pmk]

\* Management-frame protection as the request leaves it.  On a transition BSS it is
\* whatever the request says, and the request is not authenticated.
RequestedPmf(s) == IF Security = "transition" THEN BOOLEAN ELSE {st[s].pmf}

SaeEnabled == Security # "wpa2"

\* The PMKs a completed SAE commit can leave: one the station's client shares needs
\* the same password on both sides, any other belongs to another sender's commit.
SaePmk(s) == {p \in Pmk : p = Psk[s] => p \in Cred[s]}

\* Attributes and PMK after an admitted request, with or without a cached PMKSA.
\* Without any PMK a WPA3 BSS refuses.
Negotiations(s) ==
  {[pmf |-> b, pmk |-> st[s].pmk] :
     b \in {b \in RequestedPmf(s) : Security = "wpa3" => st[s].pmk # NoPmk}}
  \cup {[pmf |-> TRUE, pmk |-> p] : p \in {p \in SaePmk(s) : SaeEnabled}}

\* An association request inside the backoff window, or of a station whose SAE
\* confirm is outstanding, is dropped, but only after it has renegotiated pmf.
RecvAssocBackoff(s) ==
  /\ ~PmfSessionProtected(s)
  /\ st[s].lastAssoc \/ (SaeEnabled /\ s \in known)
  /\ \E b \in RequestedPmf(s) :
       st' = [st EXCEPT ![s] = Negotiated(@, [pmf |-> b, pmk |-> st[s].pmk])]
  /\ UNCHANGED <<air, known, held, ctr, gtk, rekeyDue, saqId, conn, failed, used, owed>>

Refused(r, b) == [r EXCEPT !.pmf = b, !.lastAssoc = TRUE]

\* No SAE-derived or cached PMK: rejected, after the entry was made.
RecvAssocRefused(s) ==
  /\ ~PmfSessionProtected(s)
  /\ SaeEnabled /\ st[s].pmk = NoPmk
  /\ known' = known \cup {s}
  /\ \E b \in RequestedPmf(s) : st' = [st EXCEPT ![s] = Refused(@, b)]
  /\ UNCHANGED <<air, held, ctr, gtk, rekeyDue, saqId, conn, failed, used, owed>>

SaeKeyed(r, p) == [r EXCEPT !.pmf = TRUE, !.pmk = p]

\* finish_sae_commit: whatever else the station is doing, it gets the PMK.
SaeCommitDone(s) ==
  /\ SaeEnabled
  /\ known' = known \cup {s}
  /\ \E p \in SaePmk(s) : st' = [st EXCEPT ![s] = SaeKeyed(@, p)]
  /\ UNCHANGED <<air, held, ctr, gtk, rekeyDue, saqId, conn, failed, used, owed>>

Message1Renonced(s) ==
  IF st[s].ready /\ st[s].anonce # 0 THEN [an |-> ctr + 1, rc |-> st[s].replay]
  ELSE IF held[s].an # 0 THEN [an |-> ctr + 1, rc |-> held[s].rc]
  ELSE [an |-> ctr + 1, rc |-> ctr + 1]

\* The ANonce and replay counter of the next message 1.
Message1Basis(s) ==
  IF st[s].ready /\ st[s].anonce # 0 THEN [an |-> st[s].anonce, rc |-> st[s].replay]
  ELSE IF held[s].an # 0 THEN held[s]
  ELSE [an |-> ctr + 1, rc |-> ctr + 1]

M1Station(s, n, b) ==
  [Negotiated(st[s], n) EXCEPT
     !.lastAssoc = TRUE, !.anonce = b.an, !.ready = TRUE, !.replay = b.rc,
     !.m1Replay = b.rc, !.cands = <<>>, !.pending = M1(s, b.rc, b.an), !.retries = 0]

Resent(r) == [r EXCEPT !.lastAssoc = TRUE, !.retries = 0]

\* Message 3 is already pending: repeat it, the handshake does not go back.
RecvAssocAwaitingM4(s) ==
  /\ ~PmfSessionProtected(s)
  /\ st[s].awaiting /\ st[s].pending # NoFrame
  /\ \E n \in Negotiations(s) : st' = [st EXCEPT ![s] = Resent(Negotiated(@, n))]
  /\ air' = air \cup {AssocResp(s), st[s].pending}
  /\ UNCHANGED <<known, held, ctr, gtk, rekeyDue, saqId, conn, failed, used, owed>>

RecvAssoc(s) ==
  LET b == Message1Basis(s) IN
  /\ ~PmfSessionProtected(s)
  /\ ~(st[s].awaiting /\ st[s].pending # NoFrame)
  /\ b.rc <= MaxRc
  /\ ctr' = IF b.rc > ctr THEN b.rc ELSE ctr
  /\ known' = known \cup {s}
  /\ held' = [held EXCEPT ![s] = b]
  /\ \E n \in Negotiations(s) : st' = [st EXCEPT ![s] = M1Station(s, n, b)]
  /\ air' = air \cup {AssocResp(s), M1(s, b.rc, b.an)}
  /\ UNCHANGED <<gtk, rekeyDue, saqId, conn, failed, used, owed>>
-----------------------------------------------------------------------------
(* EAPOL-Key reception *)

\* While a group rekey is outstanding, its parser claims every EAPOL-Key frame
\* that carries the station's current replay counter.
AnyCounterClaims(s, m) == st[s].rekeying
GroupParserClaims(s, m) == st[s].rekeying /\ m.rc = st[s].replay

G2Station(r) == [r EXCEPT !.rekeying = FALSE, !.pending = NoFrame]

RecvG2KeepingFlag(s) ==
  /\ s \in known
  /\ \E m \in Received("G2", s) : GroupParserClaims(s, m) /\ m.key = st[s].ptk
  /\ st' = [st EXCEPT ![s].pending = NoFrame]
  /\ UNCHANGED <<air, known, held, ctr, gtk, rekeyDue, saqId, conn, failed, used, owed>>

RecvG2(s) ==
  /\ s \in known
  /\ \E m \in Received("G2", s) : GroupParserClaims(s, m) /\ m.key = st[s].ptk
  /\ st' = [st EXCEPT ![s] = G2Station(@)]
  /\ UNCHANGED <<air, known, held, ctr, gtk, rekeyDue, saqId, conn, failed, used, owed>>

\* Packet numbers belong to the temporal key they are used with.
SameTemporalKey(r, k) == r.associated /\ r.ptk = k
PnAfterInstall(r, k) == IF SameTemporalKey(r, k) THEN r.pn ELSE 1

M4Reinstall(r, k) ==
  [r EXCEPT !.ptk = k, !.pn = 1, !.mgmtPn = 0, !.associated = TRUE, !.pending = NoFrame]

M4Station(r, k) ==
  [r EXCEPT !.ptk = k, !.pn = PnAfterInstall(r, k), !.cands = <<>>,
            !.mgmtPn = IF SameTemporalKey(r, k) THEN @ ELSE 0,
            !.associated = TRUE, !.awaiting = FALSE, !.pending = NoFrame]

RecvM4Unchecked(s) ==
  /\ s \in known /\ st[s].awaiting
  /\ \E m \in Received("M4", s), i \in DOMAIN st[s].cands :
       /\ ~GroupParserClaims(s, m)
       /\ st[s].cands[i].rc = m.rc
       /\ st' = [st EXCEPT ![s] = M4Station(@, st[s].cands[i].key)]
  /\ held' = [held EXCEPT ![s] = NoHold]
  /\ conn' = [conn EXCEPT ![s] = @ + 1]
  /\ UNCHANGED <<air, known, ctr, gtk, rekeyDue, saqId, failed, used, owed>>

RecvM4(s) ==
  /\ s \in known /\ st[s].awaiting
  /\ \E m \in Received("M4", s), i \in DOMAIN st[s].cands :
       /\ ~GroupParserClaims(s, m)
       /\ st[s].cands[i].rc = m.rc /\ st[s].cands[i].key = m.key
       /\ st' = [st EXCEPT ![s] = M4Station(@, m.key)]
  /\ held' = [held EXCEPT ![s] = NoHold]
  /\ conn' = [conn EXCEPT ![s] = @ + 1]
  /\ UNCHANGED <<air, known, ctr, gtk, rekeyDue, saqId, failed, used, owed>>

\* A PMK pinned by an earlier message 2, else the credential file's.
PmkCandidates(s) == IF st[s].pmk # NoPmk THEN {st[s].pmk} ELSE Cred[s]

ExpectsM2(s, m) ==
  /\ s \in known /\ ~GroupParserClaims(s, m)
  /\ st[s].ready \/ st[s].awaiting
  /\ st[s].anonce # 0 /\ m.rc = st[s].m1Replay
  /\ Security = "wpa3" => st[s].pmk # NoPmk

AnyMic(s, m) == TRUE

MicVerifies(s, m) ==
  \E pmk \in PmkCandidates(s) : m.key = PtkOf(s, pmk, st[s].anonce, m.sn)

Retain(cs, c) ==
  IF \E i \in DOMAIN cs : cs[i] = c THEN cs
  ELSE Append(IF Len(cs) >= MaxCands THEN Tail(cs) ELSE cs, c)

M2Station(s, m, rc) ==
  [st[s] EXCEPT
     !.pmk = m.key.pmk, !.cands = Retain(@, [rc |-> rc, key |-> m.key]),
     !.ready = FALSE, !.replay = rc, !.awaiting = TRUE,
     !.pending = M3(s, rc, st[s].anonce, m.key, gtk), !.retries = 0]

\* The first valid message 2 takes a new counter for message 3 and consumes the
\* held ANonce; later ones, with another SNonce, stay inside the handshake.
RecvM2(s) ==
  \E m \in Received("M2", s) :
    LET rc == IF st[s].awaiting THEN st[s].replay ELSE ctr + 1 IN
    /\ ExpectsM2(s, m) /\ MicVerifies(s, m)
    /\ rc <= MaxRc
    /\ ctr' = IF st[s].awaiting THEN ctr ELSE rc
    /\ held' = IF st[s].awaiting THEN held ELSE [held EXCEPT ![s] = NoHold]
    /\ st' = [st EXCEPT ![s] = M2Station(s, m, rc)]
    /\ air' = air \cup {M3(s, rc, st[s].anonce, m.key, gtk)}
    /\ UNCHANGED <<known, gtk, rekeyDue, saqId, conn, failed, used, owed>>

\* A first message 2 that no credential verifies ends the session.  On a BSS with
\* two PSK suites a request may have changed the hash, so that none verifies.
RecvBadM2(s) ==
  \E m \in Received("M2", s) :
    /\ ExpectsM2(s, m) /\ ~st[s].awaiting
    /\ ~MicVerifies(s, m) \/ Security = "transition"
    /\ failed' = failed \cup {s}
    /\ air' = air \cup {Deauth(s, NoKey, 0)}
    /\ Disconnect(s)
    /\ UNCHANGED <<held, ctr, gtk, saqId, used>>
-----------------------------------------------------------------------------
(* tick *)

RetryUncounted(s) ==
  /\ s \in known /\ st[s].pending # NoFrame
  /\ st[s].retries < MaxRetries
  /\ air' = air \cup {st[s].pending}
  /\ UNCHANGED apVars

RetryEapol(s) ==
  /\ s \in known /\ st[s].pending # NoFrame
  /\ st[s].retries < MaxRetries
  /\ st' = [st EXCEPT ![s].retries = @ + 1]
  /\ air' = air \cup {st[s].pending}
  /\ UNCHANGED <<known, held, ctr, gtk, rekeyDue, saqId, conn, failed, used, owed>>

TimeoutEapol(s) ==
  /\ s \in known /\ st[s].pending # NoFrame
  /\ st[s].retries >= MaxRetries
  /\ Disconnect(s)
  /\ air' = air \cup {Deauth(s, NoKey, 0)}
  /\ UNCHANGED <<held, ctr, gtk, saqId, failed, used>>

SaQueryTimeout(s) ==
  /\ s \in known /\ st[s].saQuery # 0
  /\ Disconnect(s)
  /\ UNCHANGED <<air, held, ctr, gtk, saqId, failed, used>>

\* An SAE exchange that has not led to an association in time.
ExpireSae(s) ==
  /\ SaeEnabled /\ s \in known /\ ~st[s].associated
  /\ Disconnect(s)
  /\ UNCHANGED <<air, held, ctr, gtk, saqId, failed, used>>

ExpireHeld(s) ==
  /\ held[s] # NoHold
  /\ held' = [held EXCEPT ![s] = NoHold]
  /\ UNCHANGED <<air, known, st, ctr, gtk, rekeyDue, saqId, conn, failed, used, owed>>

RekeyInFlight == \E s \in known : st[s].rekeying

\* A due rekey meets one that is still in flight: rekey_gtk does nothing.
RekeyCoalesced ==
  /\ rekeyDue /\ RekeyInFlight
  /\ rekeyDue' = FALSE
  /\ UNCHANGED <<air, known, st, held, ctr, gtk, saqId, conn, failed, used, owed>>

G1Unarmed(s, rc) == [st[s] EXCEPT !.replay = rc, !.rekeying = TRUE]

G1Station(s, rc) ==
  [st[s] EXCEPT !.replay = rc, !.pending = G1(s, rc, st[s].ptk, gtk + 1),
                !.retries = 0, !.rekeying = TRUE]

\* Rotation, on request or periodically; the associated stations get their
\* counters in the order the station table happens to iterate in.
RekeyGtk ==
  LET n == Cardinality(Associated) IN
  /\ ~RekeyInFlight
  /\ gtk < MaxGtk /\ ctr + n <= MaxRc
  /\ gtk' = gtk + 1
  /\ ctr' = ctr + n
  /\ rekeyDue' = FALSE /\ owed' = FALSE
  /\ \E rc \in [Associated -> (ctr + 1)..(ctr + n)] :
       /\ \A s, t \in Associated : rc[s] = rc[t] => s = t
       /\ st' = [s \in Sta |-> IF s \in Associated THEN G1Station(s, rc[s]) ELSE st[s]]
       /\ air' = air \cup {G1(s, rc[s], st[s].ptk, gtk + 1) : s \in Associated}
  /\ UNCHANGED <<known, held, saqId, conn, failed, used>>
-----------------------------------------------------------------------------
(* Downlink *)

DeliverPastLimit(s) ==
  /\ s \in known /\ st[s].associated
  /\ st[s].pn <= MaxPn + 1
  /\ used' = used \cup {<<st[s].ptk, st[s].pn>>}
  /\ st' = [st EXCEPT ![s].pn = @ + 1]
  /\ UNCHANGED <<air, known, held, ctr, gtk, rekeyDue, saqId, conn, failed, owed>>

DeliverToStation(s) ==
  /\ s \in known /\ st[s].associated
  /\ st[s].pn <= MaxPn
  /\ used' = used \cup {<<st[s].ptk, st[s].pn>>}
  /\ st' = [st EXCEPT ![s].pn = @ + 1]
  /\ UNCHANGED <<air, known, held, ctr, gtk, rekeyDue, saqId, conn, failed, owed>>
=============================================================================
