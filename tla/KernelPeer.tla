----------------------------- MODULE KernelPeer -----------------------------
(***************************************************************************)
(* One station as the Linux transport sees it: the protocol engine's view  *)
(* (ap), the registry of what was published to nl80211 (state.rs), the     *)
(* AP_VLAN assignment (vlan.rs) and the kernel objects themselves.  Every  *)
(* operator takes such a record and returns the record, or the set of the  *)
(* outcomes, of one function of src/netlink/linux/ap.                      *)
(*                                                                         *)
(* A netlink command that waits for its ACK has three outcomes: it is      *)
(* done; it is refused; or it is applied and the ACK still reports an      *)
(* error ("Even an error ACK may follow a partially-applied driver         *)
(* operation", routing.rs).  A deadline that still lies in the future is   *)
(* "wait": it may be found elapsed whenever the code compares it with the  *)
(* clock.  One that is not in the future is "due".  Names of keys,         *)
(* sequence controls and cleanup ids are numbers not in use, 0 standing    *)
(* for None; a private group key is compared with the protocol's.          *)
(***************************************************************************)
EXTENDS Naturals, FiniteSets

Phases == {"None", "Unassociated", "Associated", "Authorized", "Retiring"}
Deadlines == {"none", "wait", "due"}
GroupKey == {"none", "stale", "current"}

Peer == [
  \* Ap: the protocol engine's station and its notifications to the transport
  known: BOOLEAN, hs: {"idle", "m1", "m3"}, assoc: BOOLEAN,
  cand: Nat, alt: Nat, tk: Nat, ginit: BOOLEAN, nRemoved: BOOLEAN, nGone: BOOLEAN,
  \* StationRegistry; inst and keyp include Ap's key notifications, which
  \* reconcile_stations drains into them in the same iteration
  phase: Phases, addr: BOOLEAN, key: Nat, inst: BOOLEAN, keyp: BOOLEAN,
  sc: Nat, held: {"none", "m1", "m3"},
  base: Deadlines, bid: Nat,
  \* VlanAssignment, and its entry of GroupKeyStore.vlan_gtk
  vid: Nat, onBase: BOOLEAN, retire: Deadlines, removed: BOOLEAN,
  sid: Nat, sretry: Deadlines, iid: Nat, iretry: Deadlines, vgtk: GroupKey,
  \* the kernel: peer, its port and pairwise key, AP_VLAN netdev and its GTK
  kat: {"none", "base", "vlan"}, kassoc: BOOLEAN, kport: BOOLEAN, kkey: Nat,
  klost: BOOLEAN,   \* kkey was applied by a NEW_KEY that reported an error
  kif: BOOLEAN, kgtk: GroupKey,
  \* the air: the newest EAPOL frame submitted, the frame still queued in the
  \* EAPOL worker, and the responses whose TX status is outstanding
  air: {"none", "m1", "m3"}, txq: {"none", "m1", "m3"}, txs: SUBSET Nat]

NoPeer == [
  known |-> FALSE, hs |-> "idle", assoc |-> FALSE, cand |-> 0, alt |-> 0,
  tk |-> 0, ginit |-> FALSE, nRemoved |-> FALSE, nGone |-> FALSE,
  phase |-> "None", addr |-> FALSE, key |-> 0, inst |-> FALSE, keyp |-> FALSE,
  sc |-> 0, held |-> "none", base |-> "none", bid |-> 0,
  vid |-> 0, onBase |-> FALSE, retire |-> "none", removed |-> FALSE,
  sid |-> 0, sretry |-> "none", iid |-> 0, iretry |-> "none", vgtk |-> "none",
  kat |-> "none", kassoc |-> FALSE, kport |-> FALSE, kkey |-> 0,
  klost |-> FALSE, kif |-> FALSE, kgtk |-> "none", air |-> "none", txq |-> "none", txs |-> {}]

Fresh(used) == CHOOSE n \in 1 .. Cardinality(used) + 1 : n \notin used

-----------------------------------------------------------------------------
(* Outcomes of netlink commands.  f counts the commands that failed.       *)

Done(p) == {[p |-> p, f |-> 0, ok |-> TRUE]}
Refused(p) == {[p |-> p, f |-> 0, ok |-> FALSE]}

\* A command that takes the peer from p to q, with all three outcomes.
Command(p, q) ==
  Done(q) \cup {[p |-> r, f |-> 1, ok |-> FALSE] : r \in {p, q}}

\* Run Op on the peer when everything so far succeeded.
Then(outcomes, Op(_)) ==
  UNION {IF o.ok THEN {[x EXCEPT !.f = @ + o.f] : x \in Op(o.p)} ELSE {o}
         : o \in outcomes}

OrElse(outcomes, Op(_)) ==
  {IF o.ok THEN o ELSE [o EXCEPT !.p = Op(@)] : o \in outcomes}

-----------------------------------------------------------------------------
(* StationRegistry and VlanRegistry                                        *)

IsLive(p) == p.phase \notin {"None", "Retiring"}
IsRetiring(p) == p.phase = "Retiring"

Record(p, ph) == [p EXCEPT !.phase = ph, !.addr = TRUE, !.key = 0]

BeginRetirement(p) ==
  [p EXCEPT !.phase = "Retiring", !.inst = FALSE, !.keyp = FALSE,
            !.sc = 0, !.held = "none"]

Forget(p) ==
  [p EXCEPT !.phase = "None", !.addr = FALSE, !.key = 0, !.inst = FALSE,
            !.keyp = FALSE, !.sc = 0, !.held = "none",
            !.base = "none", !.bid = 0]

\* retire_at is the sooner of two deadlines, "due" being now.
VlanRetire(p, when) ==
  IF p.vid = 0 THEN p
  ELSE [p EXCEPT !.retire = IF @ = "due" THEN @ ELSE when,
                 !.sretry = IF @ = "none" THEN "due" ELSE @]

Retire(p, when) == VlanRetire(BeginRetirement(p), when)
RetireNow(p) == Retire(p, "due")
RetireWithGrace(p) == Retire(p, "wait")

DropAssignment(p) ==
  [p EXCEPT !.vid = 0, !.onBase = FALSE, !.retire = "none",
            !.removed = FALSE, !.sid = 0, !.sretry = "none", !.iid = 0,
            !.iretry = "none", !.vgtk = "none"]

-----------------------------------------------------------------------------
(* The protocol engine, as far as the transport can tell.  Its handshakes  *)
(* are the subject of module Authenticator.                                *)

\* A new private group key: what is installed is no longer the protocol's.
NewGtk(p) ==
  LET Age(k) == IF k = "none" THEN k ELSE "stale"
  IN [p EXCEPT !.vgtk = Age(@), !.kgtk = Age(@)]

NotAcked(p) ==
  [p EXCEPT !.hs = "idle", !.cand = 0, !.alt = 0,
            !.tk = IF p.assoc THEN @ ELSE 0]

\* The ANonce of an unanswered message 1 is kept for the next association, so
\* that a message 1 on the air can still be answered.
Disconnect(p) ==
  IF ~p.known THEN p
  ELSE [NewGtk(p) EXCEPT !.known = FALSE, !.hs = "idle", !.assoc = FALSE,
                         !.cand = 0, !.alt = 0, !.tk = 0, !.ginit = FALSE,
                         !.nRemoved = TRUE, !.nGone = @ \/ p.assoc,
                         !.air = IF @ = "m3" THEN "none" ELSE @]

\* handle_auth_req, outside the back-off and not in the middle of message 1.
AuthReset(p) ==
  [NewGtk(p) EXCEPT !.known = TRUE, !.hs = "idle", !.assoc = FALSE,
                    !.cand = 0, !.alt = 0, !.tk = 0, !.nGone = @ \/ p.assoc,
                    !.air = IF @ = "m3" THEN "none" ELSE @]

NewKey(p) == Fresh({p.cand, p.alt, p.tk, p.key, p.kkey})

Message2(p) ==
  [p EXCEPT !.hs = "m3", !.inst = TRUE, !.air = "none", !.cand = NewKey(p)]

\* Message 2 again while message 4 is awaited: the candidate it verifies is the
\* newest, and of the older ones that message 4 may select one is kept.
Message2Again(p, c, older) ==
  [p EXCEPT !.inst = TRUE, !.cand = c, !.alt = older]

\* Message 4 selects the candidate its MIC verifies.
Message4(p, tk) ==
  [p EXCEPT !.hs = "idle", !.assoc = TRUE, !.tk = tk, !.cand = 0, !.alt = 0,
            !.keyp = TRUE, !.air = "none"]

RotateStationGtk(p) == IF p.assoc THEN NewGtk(p) ELSE p

-----------------------------------------------------------------------------
(* The kernel                                                              *)

\* Deleting a peer flushes its frames; an absent peer is a success.
DelStation(p, scopes) ==
  IF p.kat \in scopes
  THEN [p EXCEPT !.kat = "none", !.kassoc = FALSE, !.kport = FALSE,
                 !.kkey = 0, !.klost = FALSE, !.air = "none"]
  ELSE p

NewStation(p) ==
  IF p.kat = "none"
  THEN Command(p, [p EXCEPT !.kat = "base", !.kassoc = FALSE,
                            !.kport = FALSE, !.kkey = 0,
                            !.klost = FALSE])
  ELSE Refused(p)

SetStation(p, q) == IF p.kat = "none" THEN Refused(p) ELSE Command(p, q)

\* reset_station: an address that is reserved starts from no peer at all.
ResetStation(p) == Command(p, DelStation(p, {"base", "vlan"}))

\* Partner links of a multi-link peer; without effect on the one modelled.
AddLinkStations(p) == SetStation(p, p)

SetAssociated(p) == SetStation(p, [p EXCEPT !.kassoc = TRUE])

\* Three refreshes of the station flags that leave AUTHORIZED out, and the
\* one that sets it.
PreAssocFlags(p) == SetStation(p, [p EXCEPT !.kport = FALSE])
RefreshFlags(p) == SetStation(p, [p EXCEPT !.kport = FALSE])
ClearAuthorized(p) == SetStation(p, [p EXCEPT !.kport = FALSE])
OpenPort(p) == SetStation(p, [p EXCEPT !.kport = TRUE])

SetStaVlan(p) == SetStation(p, [p EXCEPT !.kat = "vlan"])

DelPairwiseKey(p) == Command(p, [p EXCEPT !.kkey = 0, !.klost = FALSE])

\* Commands about the BSS: only their failure concerns the station.
EnableMulticastToUnicast(p) == Command(p, p)
RefreshApSettings(p) == Command(p, p)

\* The assignment is made once the AP_VLAN is there, has its address and is
\* up; what a creation that failed leaves in the kernel is Netdevs.
CreateApVlan(p, id) ==
  Done([p EXCEPT !.vid = id, !.onBase = TRUE, !.kif = TRUE])
    \cup {[p |-> p, f |-> 1, ok |-> FALSE]}

\* send_and_wait: the frame is accepted for an associated peer; what the
\* worker still had queued was sent before it.
SubmitEapol(p, m) ==
  IF p.kassoc THEN Command(p, [p EXCEPT !.air = m, !.txq = "none"])
  ELSE Refused(p)

\* NEW_KEY of a pairwise key.
NewPairwiseKey(p, tk) ==
  IF p.kat = "none" THEN Refused(p)
  ELSE LET Applied(lost) == [p EXCEPT !.kkey = tk, !.klost = lost]
       IN Done(Applied(FALSE))
            \cup {[p |-> r, f |-> 1, ok |-> FALSE] : r \in {p, Applied(TRUE)}}

\* NEW_KEY and SET_KEY of a private group key; it is recorded when both are
\* acknowledged.
NewVlanGtk(p) ==
  IF p.kif
  THEN Done([p EXCEPT !.kgtk = "current", !.vgtk = "current"])
         \cup {[p |-> r, f |-> 1, ok |-> FALSE]
               : r \in {p, [p EXCEPT !.kgtk = "current"]}}
  ELSE Refused(p)

DelInterface(p) ==
  [DelStation(p, {"vlan"}) EXCEPT !.kif = FALSE, !.kgtk = "none"]
=============================================================================
