----------------------------- MODULE WpaSession ------------------------------
(***************************************************************************)
(* One BSS: the authenticator and the supplicants of its stations over a   *)
(* medium that loses, delays, duplicates and reorders.  Authentication and *)
(* association requests carry no integrity protection, so they may reach   *)
(* the AP at any moment, whatever the client is doing.                     *)
(***************************************************************************)
EXTENDS Authenticator, Supplicant

vars == <<air, apVars, clVars>>

Init == air = {} /\ ApInit /\ ClInit

\* A client that believes it is connected sends data the AP has no entry for.
DataToUnknown(s) == /\ cl[s].conn = 4 /\ RecvDataUnknown(s)
                    /\ UNCHANGED clVars

ApAlone(s) ==
  \/ RecvAuth(s) /\ UNCHANGED clVars
  \/ RecvAssocBackoff(s) /\ UNCHANGED clVars
  \/ RecvAssocRefused(s) /\ UNCHANGED clVars
  \/ SaeCommitDone(s) /\ UNCHANGED clVars
  \/ RecvAssocAwaitingM4(s) /\ UNCHANGED clVars
  \/ RecvAssoc(s) /\ UNCHANGED clVars
  \/ RecvM2(s) /\ UNCHANGED clVars
  \/ RecvBadM2(s) /\ UNCHANGED clVars
  \/ RecvM4(s) /\ UNCHANGED clVars
  \/ RecvG2(s) /\ UNCHANGED clVars
  \/ ContestedRequest(s) /\ UNCHANGED clVars
  \/ RecvSaQueryResp(s) /\ UNCHANGED clVars
  \/ RecvDeauth(s) /\ UNCHANGED clVars
  \/ Kick(s) /\ UNCHANGED clVars
  \/ PruneIdle(s) /\ UNCHANGED clVars
  \/ DeliverToStation(s) /\ UNCHANGED clVars
  \/ RetryEapol(s) /\ UNCHANGED clVars
  \/ TimeoutEapol(s) /\ UNCHANGED clVars
  \/ SaQueryTimeout(s) /\ UNCHANGED clVars
  \/ ExpireSae(s) /\ UNCHANGED clVars
  \/ ExpireHeld(s) /\ UNCHANGED clVars

ClAlone(s) ==
  \/ Beacon(s) /\ UNCHANGED apVars
  \/ RecvAssocResp(s) /\ UNCHANGED apVars
  \/ ClientTimeout(s) /\ UNCHANGED apVars
  \/ ClientRecvDeauth(s) /\ UNCHANGED apVars
  \/ ClientLeave(s) /\ UNCHANGED apVars
  \/ RecvM1(s) /\ UNCHANGED apVars
  \/ RecvM1Retry(s) /\ UNCHANGED apVars
  \/ RecvM3(s) /\ UNCHANGED apVars
  \/ RecvM3Retry(s) /\ UNCHANGED apVars
  \/ RecvG1(s) /\ UNCHANGED apVars
  \/ ClientRecvSaQuery(s) /\ UNCHANGED apVars
  \/ EncryptUplink(s) /\ UNCHANGED apVars

Next == \/ RekeyCoalesced /\ UNCHANGED clVars
        \/ RekeyGtk /\ UNCHANGED clVars
        \/ \E s \in Sta : ApAlone(s) \/ ClAlone(s) \/ DataToUnknown(s)

Spec == Init /\ [][Next]_vars

\* The transport calls Ap::tick for ever, so an armed EAPOL deadline is served;
\* a client that keeps sending to an AP that forgot it keeps being answered, and
\* a Deauthentication sent again and again arrives in the end.
Fairness ==
  \A s \in Sta :
    /\ WF_vars(RetryEapol(s) /\ UNCHANGED clVars)
    /\ WF_vars(TimeoutEapol(s) /\ UNCHANGED clVars)
    /\ WF_vars(DataToUnknown(s))
    /\ WF_vars(ClientRecvDeauth(s) /\ UNCHANGED apVars)

FairSpec == Spec /\ Fairness
-----------------------------------------------------------------------------
(* Types *)

\* Every variable keeps its type; packet numbers stop at MAX_PACKET_NUMBER, a
\* frame is sent at most MAX_EAPOL_RETRIES times more, and ptk_candidates never
\* exceeds its capacity.
TypeOK == air \subseteq Frame /\ ApTypeOK /\ ClTypeOK
-----------------------------------------------------------------------------
(* Safety *)

\* The AP never encrypts twice with one packet number under one PTK: what it
\* will use next with the installed key is above everything used with that key,
\* however authentications, reassociations, held ANonces, retried messages 2
\* and late messages 4 interleave (handle_eapol, note on PN reset and KRACK).
NonceFresh ==
  \A s \in Sta : st[s].associated =>
    \A u \in used : u[1] = st[s].ptk => u[2] < st[s].pn

\* ANonce n belongs to a PTK the AP has encrypted with or has installed for s.
Spent(s, n) ==
  \/ \E u \in used : u[1].sta = s /\ u[1].an = n
  \/ st[s].associated /\ st[s].ptk.an = n

\* An ANonce that an open handshake, a retained candidate or the store of held
\* ANonces can still turn into a PTK never belongs to a PTK already in use, so a
\* stale message 2 or 4 cannot bring a key back (pending_anonce).
NonceUnspent ==
  \A s \in Sta :
    /\ st[s].ready \/ st[s].awaiting => ~Spent(s, st[s].anonce)
    /\ held[s].an # 0 => ~Spent(s, held[s].an)
    /\ \A i \in DOMAIN st[s].cands :
         st[s].cands[i].key.sta = s /\ ~Spent(s, st[s].cands[i].key.an)

\* The same of the client's uplink (commit_pending_ptk).
ClientNonceFresh ==
  \A s \in Sta : cl[s].installed =>
    \A u \in clUsed : u[1] = cl[s].ptk => u[2] < cl[s].pn

\* The AP opens its controlled port only under a key that this station's client
\* installed and that an admitted credential derives.
KeyAgreement ==
  \A s \in Sta : st[s].associated =>
    /\ st[s].ptk \in committed
    /\ st[s].ptk.sta = s /\ st[s].ptk.pmk \in Cred[s]

\* On a BSS with one PSK suite, a station configured with an admitted credential is
\* never logged, and never disconnected, for a message 2 MIC failure: the ANonce an
\* M2 answers is the one its replay counter stands for (held ANonce of
\* handle_assoc_req).
NoFalseMicFailure == \A s \in failed : Psk[s] \notin Cred[s]

\* A group rekey that the AP considers acknowledged has reached the client: the
\* flag falls, with the association kept, only when the station installed the
\* current GTK.
RekeyDelivered ==
  [][\A s \in Sta :
       st[s].rekeying /\ ~st'[s].rekeying /\ st'[s].associated
         => gtk \in delivered[s]]_vars

\* On a WPA3 BSS Connected and Disconnected events of a station alternate
\* (disconnect): no request, commit or late message 4 re-runs the handshake of a
\* protected session.  On a transition BSS a request may take PMF away first.
EventsPaired == \A s \in Sta : conn[s] = IF st[s].associated THEN 1 ELSE 0

\* On a WPA3 BSS a station that owes its group message 2 has a frame armed for
\* retransmission, so a lost message heals (rekey_gtk) and the rekey ends.
RekeyArmed == \A s \in Sta : st[s].rekeying => st[s].pending # NoFrame

\* On a WPA3 BSS the group parser never claims the counter of a four-way message the station
\* is expected to answer (receive.rs: "the new four-way Message 2 enter the
\* group-key parser and get dropped").
ParserUnambiguous ==
  \A s \in Sta : st[s].rekeying =>
    /\ st[s].ready => st[s].m1Replay # st[s].replay
    /\ \A i \in DOMAIN st[s].cands : st[s].cands[i].rc # st[s].replay

\* A strict rekey requested because an authorized station left is performed:
\* until the GTK rotates, the request stays queued.  Does not hold: a request
\* that falls due during a rekey is dropped (README, section 4).
StrictRekeyHonoured == owed => rekeyDue

\* An authorized station that the AP does not consider to be rekeying holds the
\* current GTK.
GroupKeySync ==
  \A s \in Sta :
    st[s].associated /\ ~st[s].rekeying /\ cl[s].installed /\ cl[s].ptk = st[s].ptk
      => cl[s].gtk = gtk
-----------------------------------------------------------------------------
(* Liveness *)

\* The exchange of a pending frame starts over: its retry count is cleared.
RestartsRetries(s) ==
  /\ st[s].pending # NoFrame /\ st'[s].pending # NoFrame
  /\ st[s].retries > 0 /\ st'[s].retries = 0

\* No handshake stalls: unless the exchange is restarted for ever, an armed
\* frame is acknowledged or the station is dropped (tick).
HandshakeResolves ==
  \A s \in Sta :
    <>[][~RestartsRetries(s)]_vars
      => (st[s].pending # NoFrame ~> st[s].pending = NoFrame)

\* A group rekey ends for every station, by its message 2 or with the session, so
\* the station cannot hold up the next rotation for ever (Station::group_rekeying).
RekeyEnds == \A s \in Sta : st[s].rekeying ~> ~st[s].rekeying

\* A client does not stay connected to an AP that has no entry for it: the AP
\* answers its data so that it "tears down and re-handshakes instead of sending
\* into a black hole" (handle_data_uplink).
NoBlackHole ==
  \A s \in Sta : cl[s].conn = 4 /\ s \notin known ~> cl[s].conn # 4 \/ s \in known
=============================================================================
