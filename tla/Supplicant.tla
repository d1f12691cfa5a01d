----------------------------- MODULE Supplicant ------------------------------
(***************************************************************************)
(* The station side (src/client): association progress, the supplicant of  *)
(* the four-way and group-key handshakes, and the uplink packet number.    *)
(* A PMF station is one whose client holds an sae_pmk.                     *)
(***************************************************************************)
EXTENDS EapolFrames

CONSTANT MaxSn,      \* bound on SNonces drawn per station
         MaxClPn     \* bound on the client's packet number

ASSUME ClBounds == MaxSn \in Nat /\ MaxClPn \in Nat

VARIABLES
  cl,         \* per station, the Client's session state
  nsn,        \* SNonces drawn so far per station
  committed,  \* history: PTKs a client installed
  clUsed,     \* history: <<PTK, PN>> pairs clients encrypted with
  delivered   \* history: delivered[s], the GTK epochs station s installed

clVars == <<cl, nsn, committed, clUsed, delivered>>
-----------------------------------------------------------------------------
\* PendingPtk, with an = 0 for None
Pending == [an : Nat, sn : Nat, rc : Nat]
NoPending == [an |-> 0, sn |-> 0, rc |-> 0]

ClientState ==
  [conn : {0, 1, 2, 4}, est : 0..2, ptk : Key \cup {NoKey}, installed : BOOLEAN,
   pend : Pending, replay : Nat, gtk : Nat, pn : Nat, mgmtPn : Nat]

\* reset_session_keys
NewClient ==
  [conn |-> 0, est |-> 0, ptk |-> NoKey, installed |-> FALSE,
   pend |-> NoPending, replay |-> 0, gtk |-> 0, pn |-> 1, mgmtPn |-> 0]

ClInit ==
  /\ cl = [s \in Sta |-> NewClient]
  /\ nsn = [s \in Sta |-> 0]
  /\ committed = {} /\ clUsed = {}
  /\ delivered = [s \in Sta |-> {}]

ClTypeOK ==
  /\ cl \in [Sta -> ClientState]
  /\ nsn \in [Sta -> Nat]
  /\ committed \subseteq Key
  /\ clUsed \subseteq Key \X Nat
  /\ delivered \in [Sta -> SUBSET Nat]

PendingKey(s) == PtkOf(s, Psk[s], cl[s].pend.an, cl[s].pend.sn)
-----------------------------------------------------------------------------
(* Joining and leaving *)

Beacon(s) ==
  /\ cl[s].conn = 0
  /\ cl' = [cl EXCEPT ![s] = [NewClient EXCEPT !.conn = 1]]
  /\ UNCHANGED <<air, nsn, committed, clUsed, delivered>>

RecvAssocResp(s) ==
  /\ cl[s].conn = 1
  /\ AssocResp(s) \in air
  /\ cl' = [cl EXCEPT ![s].conn = 2]
  /\ UNCHANGED <<air, nsn, committed, clUsed, delivered>>

ClientDisconnect(s) == cl' = [cl EXCEPT ![s] = NewClient]

\* maintenance: authentication, four-way and link-silence timeouts
ClientTimeout(s) ==
  /\ cl[s].conn # 0
  /\ ClientDisconnect(s)
  /\ UNCHANGED <<air, nsn, committed, clUsed, delivered>>

\* A robust management frame under the installed key, with a new packet number.
ClProtectedMgmt(s, m) ==
  cl[s].installed /\ m.key = cl[s].ptk /\ m.sn > cl[s].mgmtPn

\* Without PMF any Deauthentication counts, with it only a protected one.
ClientRecvDeauth(s) ==
  /\ cl[s].conn >= 2
  /\ \E m \in Received("DEAUTH", s) :
        s \in PmfStas => ClProtectedMgmt(s, m)
  /\ ClientDisconnect(s)
  /\ UNCHANGED <<air, nsn, committed, clUsed, delivered>>

\* External: a station that says goodbye under its key (the client never does).
ClientLeave(s) ==
  /\ cl[s].installed /\ cl[s].pn <= MaxClPn
  /\ air' = air \cup {Leave(s, cl[s].ptk, cl[s].pn)}
  /\ clUsed' = clUsed \cup {<<cl[s].ptk, cl[s].pn>>}
  /\ ClientDisconnect(s)
  /\ UNCHANGED <<nsn, committed, delivered>>
-----------------------------------------------------------------------------
(* EAPOL-Key reception *)

M1Client(r, p) == [r EXCEPT !.pend = p, !.est = 1]

\* send_eapol2 with a new SNonce
AnswerM1(s, m) ==
  LET p == [an |-> m.an, sn |-> nsn[s] + 1, rc |-> m.rc] IN
  /\ nsn[s] < MaxSn
  /\ nsn' = [nsn EXCEPT ![s] = @ + 1]
  /\ cl' = [cl EXCEPT ![s] = M1Client(@, p)]
  /\ air' = air \cup {M2(s, m.rc, p.sn, PtkOf(s, Psk[s], m.an, p.sn))}

IsM1Retry(s, m) == /\ cl[s].pend.an # 0 /\ m.an = cl[s].pend.an
                   /\ m.rc >= cl[s].pend.rc

IsM1Fresh(s, m) == m.rc > cl[s].replay

\* A PMF station with an installed key drops the MIC-less, unprotected M1.
AcceptsM1(s) == cl[s].conn >= 2 /\ ~(cl[s].installed /\ s \in PmfStas)

RecvM1(s) ==
  \E m \in Received("M1", s) :
    /\ AcceptsM1(s)
    /\ \/ cl[s].est = 0
       \/ cl[s].est = 1 /\ ~IsM1Retry(s, m) /\ IsM1Fresh(s, m)
       \/ cl[s].est = 2 /\ IsM1Fresh(s, m)
    /\ AnswerM1(s, m)
    /\ UNCHANGED <<committed, clUsed, delivered>>

\* send_eapol2_retry: the SNonce of the message 2 that was lost
RecvM1Retry(s) ==
  \E m \in Received("M1", s) :
    /\ AcceptsM1(s)
    /\ cl[s].est = 1 /\ IsM1Retry(s, m)
    /\ cl' = [cl EXCEPT ![s].pend = [@ EXCEPT !.rc = m.rc]]
    /\ air' = air \cup {M2(s, m.rc, cl[s].pend.sn, PendingKey(s))}
    /\ UNCHANGED <<nsn, committed, clUsed, delivered>>

\* valid_m3: the nonce of the handshake in progress or of the installed key
KnownNonce(s, m) ==
  \/ cl[s].pend.an # 0 /\ m.an = cl[s].pend.an
  \/ cl[s].installed /\ m.an = cl[s].ptk.an

IsM3Retry(s, m) == cl[s].est = 2 /\ cl[s].installed /\ m.rc >= cl[s].replay

RecvM3Reinstall(s) ==
  \E m \in Received("M3", s) :
    /\ cl[s].conn >= 2 /\ KnownNonce(s, m)
    /\ IsM3Retry(s, m) /\ m.key = cl[s].ptk
    /\ cl' = [cl EXCEPT ![s].replay = m.rc, ![s].pn = 1, ![s].mgmtPn = 0]
    /\ air' = air \cup {M4(s, m.rc, cl[s].ptk)}
    /\ UNCHANGED <<nsn, committed, clUsed, delivered>>

RecvM3Retry(s) ==
  \E m \in Received("M3", s) :
    /\ cl[s].conn >= 2 /\ KnownNonce(s, m)
    /\ IsM3Retry(s, m) /\ m.key = cl[s].ptk
    /\ cl' = [cl EXCEPT ![s].replay = m.rc]
    /\ air' = air \cup {M4(s, m.rc, cl[s].ptk)}
    /\ UNCHANGED <<nsn, committed, clUsed, delivered>>

\* commit_pending_ptk keeps the packet number of a key that is re-delivered.
ClSameKey(c, k) == c.installed /\ c.ptk = k
ClPnAfterInstall(c, k) == IF ClSameKey(c, k) THEN c.pn ELSE 1

M3Client(s, m) ==
  [cl[s] EXCEPT !.ptk = m.key, !.pn = ClPnAfterInstall(cl[s], m.key),
                !.mgmtPn = IF ClSameKey(cl[s], m.key) THEN @ ELSE 0,
                !.installed = TRUE, !.pend = NoPending, !.replay = m.rc,
                !.gtk = m.gtk, !.conn = 4, !.est = 2]

RecvM3(s) ==
  \E m \in Received("M3", s) :
    /\ cl[s].conn >= 2 /\ cl[s].est # 0 /\ KnownNonce(s, m)
    /\ ~IsM3Retry(s, m)
    /\ cl[s].pend.an # 0 /\ m.rc >= cl[s].pend.rc /\ m.rc > cl[s].replay
    /\ m.key = PendingKey(s)
    /\ cl' = [cl EXCEPT ![s] = M3Client(s, m)]
    /\ committed' = committed \cup {m.key}
    /\ delivered' = [delivered EXCEPT ![s] = @ \cup {m.gtk}]
    /\ air' = air \cup {M4(s, m.rc, m.key)}
    /\ UNCHANGED <<nsn, clUsed>>

G1Client(r, m) == [r EXCEPT !.replay = m.rc, !.gtk = m.gtk]

RecvG1AckOnly(s) ==
  \E m \in Received("G1", s) :
    /\ cl[s].conn = 4 /\ m.key = cl[s].ptk /\ m.rc >= cl[s].replay
    /\ cl' = [cl EXCEPT ![s].replay = m.rc]
    /\ air' = air \cup {G2(s, m.rc, cl[s].ptk)}
    /\ UNCHANGED <<nsn, committed, clUsed, delivered>>

\* Group message 1: installed on first delivery, acknowledged again on a retry.
RecvG1(s) ==
  \E m \in Received("G1", s) :
    /\ cl[s].conn = 4 /\ m.key = cl[s].ptk /\ m.rc >= cl[s].replay
    /\ IF m.rc > cl[s].replay
       THEN /\ cl' = [cl EXCEPT ![s] = G1Client(@, m)]
            /\ delivered' = [delivered EXCEPT ![s] = @ \cup {m.gtk}]
       ELSE UNCHANGED <<cl, delivered>>
    /\ air' = air \cup {G2(s, m.rc, cl[s].ptk)}
    /\ UNCHANGED <<nsn, committed, clUsed>>

QueriedClient(r, m) == [r EXCEPT !.pn = @ + 1, !.mgmtPn = m.sn]

ClientRecvSaQuery(s) ==
  \E m \in Received("SAQ", s) :
    /\ s \in PmfStas /\ ClProtectedMgmt(s, m)
    /\ cl[s].pn <= MaxClPn
    /\ cl' = [cl EXCEPT ![s] = QueriedClient(@, m)]
    /\ clUsed' = clUsed \cup {<<cl[s].ptk, cl[s].pn>>}
    /\ air' = air \cup {SaQueryResp(s, m.rc, cl[s].ptk, cl[s].pn)}
    /\ UNCHANGED <<nsn, committed, delivered>>

EncryptUplink(s) ==
  /\ cl[s].conn = 4 /\ cl[s].pn <= MaxClPn
  /\ cl' = [cl EXCEPT ![s].pn = @ + 1]
  /\ clUsed' = clUsed \cup {<<cl[s].ptk, cl[s].pn>>}
  /\ UNCHANGED <<air, nsn, committed, delivered>>
=============================================================================
