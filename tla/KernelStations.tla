--------------------------- MODULE KernelStations ---------------------------
(***************************************************************************)
(* The Linux AP transport: the radio loop of radio.rs, the cleanup and     *)
(* EAPOL worker threads of workers.rs, and the kernel.  The loop runs its  *)
(* phases in order (pc); the workers run between any two of them.  A phase *)
(* is one step: the only other thread that issues station commands is the  *)
(* cleanup worker, and CleanupOwnsPeer says that it never works on a peer  *)
(* the loop would touch.                                                   *)
(***************************************************************************)
EXTENDS KernelPeer, Sequences

CONSTANTS
  Sta,         \* station addresses
  Modes,       \* radios: [vif, full] = per_sta_vif, FULL_AP_CLIENT_STATE
  MaxFaults,   \* netlink commands that fail in a behaviour
  MaxKey,      \* pairwise keys of one station that are told apart
  MaxSc,       \* Association Responses between two Authentications
  QueueCap     \* capacity of the cleanup worker's channel

ASSUME BoundsAssumption ==
  /\ IsFiniteSet(Sta)
  /\ Modes \subseteq [vif: BOOLEAN, full: BOOLEAN]
  /\ {MaxFaults, MaxKey, MaxSc, QueueCap} \subseteq Nat

VARIABLES
  mode,        \* VlanRegistry.enabled and RadioTopology.full_ap_client_state
  pc, todo,    \* phase of the loop; stations it has still to visit
  peer,        \* [Sta -> Peer]
  apsc,        \* Ap.sc: responses since the counter was last reset
  queue, results,   \* KernelCleanupWorker channels
  changed,     \* a group-key epoch is not completely published
  strays,      \* AP_VLANs in the kernel that no assignment names, by id
  faults

vars == <<mode, pc, todo, peer, apsc, queue, results, changed, strays, faults>>

Phase == {"apply", "schedule", "recv", "stalled", "tick", "reconcile",
          "groups", "control"}

Init ==
  /\ mode \in Modes
  /\ pc = "apply" /\ todo = {}
  /\ peer = [s \in Sta |-> NoPeer]
  /\ apsc = 0
  /\ queue = <<>> /\ results = {}
  /\ changed = FALSE /\ strays = {}
  /\ faults = 0

\* Peer s becomes one of the outcomes; failures are counted.
Becomes(s, outcomes) ==
  \E o \in outcomes :
    /\ faults + o.f <= MaxFaults
    /\ faults' = faults + o.f
    /\ peer' = [peer EXCEPT ![s] = o.p]

-----------------------------------------------------------------------------
(* route_outputs: protocol frames to the kernel                            *)

FirstFreeVlanId == Fresh({peer[t].vid : t \in Sta} \ {0})

PrepareVlan(p) ==
  LET created == IF p.vid # 0 THEN Done(p)
                 ELSE CreateApVlan(p, FirstFreeVlanId)
      Gtk(q) == IF q.vgtk = "current" THEN Done(q) ELSE NewVlanGtk(q)
  IN IF mode.vif THEN Then(created, Gtk) ELSE Done(p)

VlanRetireNow(p) == VlanRetire(p, "due")

Reserves(p) == mode.vif /\ mode.full /\ p.phase = "None"

\* The peer reserved before the Authentication reply of a driver with
\* FULL_AP_CLIENT_STATE, when every station has its own AP_VLAN.
ReservePeer(p) ==
  LET Publish(q) ==
        OrElse(Then(ResetStation(Record(q, "Unassociated")), NewStation),
               RetireNow)
  IN IF Reserves(p)
     THEN Then(OrElse(PrepareVlan(p), VlanRetireNow), Publish)
     ELSE Done(p)

RouteAuth(p) ==
  LET Refresh(q) ==
        IF q.phase = "Unassociated" THEN OrElse(PreAssocFlags(q), RetireNow)
        ELSE Done(q)
  IN Then(ReservePeer(p), Refresh)

Suppress(p) == VlanRetire(NotAcked(p), "due")

\* NEW_STATION, unless the peer was reserved; ownership is recorded first.
AddPeer(p) ==
  IF p.phase = "Unassociated" THEN Done(p)
  ELSE NewStation(Record(p, "Associated"))

\* Every link of the peer, then ASSOCIATED.
AssociatePeer(p) == Then(AddLinkStations(p), SetAssociated)

\* add_associated_sta: publish the peer before the response is sent.
PublishAssociated(p) ==
  LET Station(q) == OrElse(Then(AddPeer(q), AssociatePeer), RetireNow)
      Mark(q) == Done([q EXCEPT !.phase = "Associated"])
  IN Then(Then(OrElse(PrepareVlan(p), Suppress), Station), Mark)

SendResponse(p, sc) ==
  OrElse(RefreshApSettings([p EXCEPT !.sc = sc, !.txs = @ \cup {sc}]),
         RetireNow)

\* Mutant: a new association does not wait for the old one to be retired.
RouteWhileRetiring(p, sc) ==
  LET Send(q) == SendResponse(q, sc)
  IN IF p.phase = "Associated" THEN Send(p)
     ELSE Then(PublishAssociated(p), Send)

Publishes(p) == ~IsRetiring(p) /\ p.phase \notin {"Authorized", "Associated"}

RouteAssocResponse(p, sc) ==
  LET Send(q) == SendResponse(q, sc)
  IN CASE IsRetiring(p) -> Refused(Suppress(p))
       [] p.phase = "Authorized" -> Refused(Suppress(BeginRetirement(p)))
       [] p.phase = "Associated" -> Send(p)
       [] OTHER -> Then(PublishAssociated(p), Send)

\* Mutant: EAPOL does not wait for the Association Response.
RouteEapolAtOnce(p, m) ==
  IF IsRetiring(p) THEN Done(p)
  ELSE OrElse(SubmitEapol(p, m), RetireNow)

RouteEapol(p, m) ==
  CASE p.sc # 0 -> Done([p EXCEPT !.held = m])
    [] p.sc = 0 /\ IsRetiring(p) -> Done(p)
    [] p.sc = 0 /\ ~IsRetiring(p) /\ p.assoc ->
         Done([p EXCEPT !.txq = m]) \cup Done(p)
    [] OTHER -> OrElse(SubmitEapol(p, m), RetireNow)

\* A frame list goes on after a frame that could not be sent.
AndEapol(outcomes, m) ==
  UNION {{[x EXCEPT !.f = @ + o.f] : x \in RouteEapol(o.p, m)}
         : o \in outcomes}

-----------------------------------------------------------------------------
(* finalize_successful_association                                         *)

\* The private group becomes the station's own: a first binding moves it to
\* fresh keys.
InitializeVlanGroup(p) ==
  NewVlanGtk(IF p.ginit THEN p ELSE [NewGtk(p) EXCEPT !.ginit = TRUE])

\* Key slot 0 is cleared on the base BSS and again once the peer has moved.
BindVlan(p) ==
  LET Bound(q) == Done([q EXCEPT !.onBase = FALSE])
      moved == Then(Then(EnableMulticastToUnicast(p), DelPairwiseKey),
                    SetStaVlan)
      flushed == Then(Then(Then(moved, Bound), RefreshFlags), DelPairwiseKey)
  IN Then(Then(flushed, ClearAuthorized), InitializeVlanGroup)

FinalizeStation(p) ==
  CASE mode.vif /\ p.vid = 0 -> Refused(p)
    [] mode.vif /\ p.vid # 0 /\ p.onBase -> BindVlan(p)
    [] mode.vif /\ p.vid # 0 /\ ~p.onBase -> Done(p)
    [] OTHER -> RefreshFlags(p)

Finalize(p) ==
  LET Fail(q) == RetireNow(NotAcked(q))
  IN OrElse(FinalizeStation([p EXCEPT !.sc = 0]), Fail)

ReleaseHeld(p) ==
  IF p.held = "none" THEN Done(p)
  ELSE RouteEapol([p EXCEPT !.held = "none"], p.held)

-----------------------------------------------------------------------------
(* The loop.  Each phase ends by moving pc.                                *)

\* Mutant: a deletion that failed counts as done.
StationDoneAnyway(p, r) ==
  IF p.vid # 0 /\ p.sid = r.id
  THEN [p EXCEPT !.sid = 0, !.removed = TRUE, !.addr = FALSE, !.key = 0,
                 !.sretry = "none"]
  ELSE IF p.base # "none" /\ p.bid = r.id THEN Forget(p) ELSE p

\* Mutant: the result of a deletion that failed is dropped.
StationDoneOnly(p, r) ==
  IF ~r.ok THEN p ELSE StationDoneAnyway(p, r)

StationDone(p, r) ==
  CASE p.vid # 0 /\ p.sid = r.id ->
         IF r.ok THEN [p EXCEPT !.sid = 0, !.removed = TRUE, !.addr = FALSE,
                                !.key = 0, !.sretry = "none"]
         ELSE [p EXCEPT !.sid = 0, !.sretry = "wait"]
    [] p.base # "none" /\ p.bid = r.id /\ (p.vid = 0 \/ p.sid # r.id) ->
         IF r.ok THEN Forget(p) ELSE [p EXCEPT !.bid = 0, !.base = "wait"]
    [] OTHER -> p

InterfaceDone(p, r) ==
  CASE p.vid = 0 \/ p.iid # r.id -> p
    [] p.vid # 0 /\ p.iid = r.id /\ r.ok -> Forget(DropAssignment(p))
    [] OTHER -> [p EXCEPT !.iid = 0, !.iretry = "wait"]

\* A peer has one job at a time, so the order of the results is immaterial.
ApplyCleanupResults ==
  /\ pc = "apply" /\ pc' = "schedule"
  /\ peer' = [s \in Sta |->
       IF \E r \in results : r.sta = s
       THEN LET r == CHOOSE r \in results : r.sta = s
            IN IF r.kind = "Station" THEN StationDone(peer[s], r)
                                     ELSE InterfaceDone(peer[s], r)
       ELSE peer[s]]
  /\ results' = {}
  /\ todo' = {s \in Sta : IsRetiring(peer'[s])}
  /\ UNCHANGED <<mode, apsc, queue, changed, strays, faults>>

InUse == {queue[i].id : i \in DOMAIN queue} \cup {r.id : r \in results}
           \cup UNION {{peer[t].sid, peer[t].iid, peer[t].bid} : t \in Sta}

\* The jobs schedule_cleanup may find due: a set, empty or of one record with
\* the peer as it is once the job was accepted.
CleanupJob(s, p) ==
  LET id == Fresh(InUse \ {0})
      Job(kind) == [id |-> id, sta |-> s, kind |-> kind,
                    scopes |-> IF p.vid = 0 THEN {"base"}
                               ELSE IF p.onBase THEN {"base", "vlan"}
                               ELSE {"vlan"}]
  IN CASE p.vid # 0 /\ ~p.removed /\ p.sid = 0 ->
            {[when |-> {p.sretry}, job |-> Job("Station"),
              q |-> [p EXCEPT !.sid = id, !.sretry = "none"]]}
       [] p.vid # 0 /\ p.removed /\ p.iid = 0 ->
            {[when |-> {p.retire, p.iretry}, job |-> Job("Interface"),
              q |-> [p EXCEPT !.iid = id, !.iretry = "none"]]}
       [] p.vid = 0 /\ p.bid = 0 /\ (p.addr \/ p.base # "none") ->
            {[when |-> {p.base}, job |-> Job("Station"),
              q |-> [p EXCEPT !.bid = id, !.base = "due"]]}
       [] OTHER -> {}

\* The peer as schedule_cleanup leaves it when it starts no job.
Prepared(p) ==
  CASE p.vid # 0 /\ p.retire = "none" ->
         [p EXCEPT !.retire = "wait", !.sretry = "due"]
    [] p.vid = 0 /\ p.base = "none" /\ p.addr -> [p EXCEPT !.base = "due"]
    [] p.vid = 0 /\ p.base = "none" /\ ~p.addr -> Forget(p)
    [] OTHER -> p

StartCleanup(s) ==
  /\ pc = "schedule" /\ s \in todo
  /\ todo' = todo \ {s}
  /\ Len(queue) < QueueCap
  /\ \E c \in CleanupJob(s, Prepared(peer[s])) :
       /\ queue' = Append(queue, c.job)
       /\ peer' = [peer EXCEPT ![s] = c.q]
  /\ UNCHANGED <<mode, pc, apsc, results, changed, strays, faults>>

\* Nothing to start, a deadline in the future, or a full channel (try_send).
DeferCleanup(s) ==
  /\ pc = "schedule" /\ s \in todo
  /\ todo' = todo \ {s}
  /\ \A c \in CleanupJob(s, Prepared(peer[s])) :
       "wait" \in c.when \/ Len(queue) = QueueCap
  /\ peer' = [peer EXCEPT ![s] = Prepared(@)]
  /\ UNCHANGED <<mode, pc, apsc, queue, results, changed, strays, faults>>

ScheduleDone ==
  /\ pc = "schedule" /\ todo = {}
  /\ pc' = "recv"
  /\ UNCHANGED <<mode, todo, peer, apsc, queue, results, changed, strays, faults>>

-----------------------------------------------------------------------------
(* receive_events: at most one datagram, here one frame, per loop          *)

Received ==
  /\ pc = "recv" /\ pc' = "stalled"
  /\ UNCHANGED <<mode, todo, queue, results, changed>>

\* Creating an AP_VLAN deletes a namesake first.  A creation that fails may
\* leave the namesake, or the new one (no ACK, no ifindex, or an address that
\* could not be set and a deletion that failed too), or neither.
Netdevs(p, q) ==
  LET id == FirstFreeVlanId
  IN IF ~mode.vif \/ p.vid # 0 THEN {strays}
     ELSE IF q.vid # 0 THEN {strays \ {id}}
     ELSE {strays \ {id}, strays \cup {id}}

\* Inside the back-off, or in the middle of message 1, nothing is reset; the
\* frame counter restarts with every Authentication.
RecvAuth(s) ==
  /\ Received
  /\ \E reset \in BOOLEAN :
       /\ reset => peer[s].hs # "m1"
       /\ Becomes(s, RouteAuth(IF reset THEN AuthReset(peer[s])
                               ELSE [peer[s] EXCEPT !.known = TRUE]))
  /\ strays' \in IF Reserves(peer[s]) THEN Netdevs(peer[s], peer'[s])
                 ELSE {strays}
  /\ apsc' = 0

\* A request while message 4 is awaited repeats the response and message 3.
RecvAssoc(s) ==
  LET p == peer[s]
      m == IF p.hs = "m3" THEN "m3" ELSE "m1"
  IN
  /\ Received
  /\ p.known /\ apsc < MaxSc
  /\ apsc' = apsc + 1
  /\ Becomes(s, AndEapol(RouteAssocResponse([p EXCEPT !.hs = m], apsc'), m))
  /\ strays' \in IF Publishes(p) THEN Netdevs(p, peer'[s]) ELSE {strays}

\* Message 2 answers a message 1 that was sent, message 4 a message 3.
RecvM2(s) ==
  /\ Received
  /\ peer[s].hs = "m1" /\ peer[s].air = "m1" /\ NewKey(peer[s]) <= MaxKey
  /\ Becomes(s, RouteEapol(Message2(peer[s]), "m3"))
  /\ UNCHANGED <<apsc, strays>>

\* A message 2 that was repeated, or another one with a nonce of its own.
RecvM2Again(s) ==
  LET p == peer[s] IN
  /\ Received
  /\ p.hs = "m3"
  /\ \E c \in {p.cand, NewKey(p)} \cap (1 .. MaxKey) :
       \E older \in IF c = p.cand THEN {p.alt} ELSE {p.cand, p.alt} :
         Becomes(s, RouteEapol(Message2Again(p, c, older), "m3"))
  /\ UNCHANGED <<apsc, strays>>

RecvM4(s) ==
  /\ Received
  /\ peer[s].hs = "m3" /\ peer[s].air = "m3"
  /\ \E tk \in {peer[s].cand, peer[s].alt} \ {0} :
       peer' = [peer EXCEPT ![s] = Message4(@, tk)]
  /\ UNCHANGED <<apsc, strays, faults>>

RecvDeauth(s) ==
  /\ Received
  /\ peer[s].known
  /\ peer' = [peer EXCEPT ![s] = Disconnect(@)]
  /\ UNCHANGED <<apsc, strays, faults>>

AckedResponse(p) == Then(Finalize(p), ReleaseHeld)

LostResponse(p) ==
  LET q == [p EXCEPT !.sc = 0, !.held = "none"]
  IN IF p.assoc THEN q ELSE BeginRetirement(NotAcked(q))

TxStatusMatches(p, sc) == p.sc = sc

TxStatus(s) ==
  /\ Received
  /\ \E sc \in peer[s].txs, acked \in BOOLEAN :
       LET p == [peer[s] EXCEPT !.txs = @ \ {sc}]
       IN Becomes(s, IF ~TxStatusMatches(p, sc) THEN Done(p)
                     ELSE IF acked THEN AckedResponse(p)
                     ELSE Done(LostResponse(p)))
  /\ UNCHANGED <<apsc, strays>>

RecvNothing ==
  /\ Received
  /\ UNCHANGED <<peer, apsc, strays, faults>>

ReceiveEvents ==
  \/ \E s \in Sta : \/ RecvAuth(s) \/ RecvAssoc(s) \/ RecvM2(s)
                    \/ RecvM2Again(s) \/ RecvM4(s) \/ RecvDeauth(s)
                    \/ TxStatus(s)
  \/ RecvNothing

-----------------------------------------------------------------------------
(* release_stalled_association and tick_protocol                           *)

\* The grace period of a response without TX status is over.
ReleaseStalled(s) ==
  /\ pc = "stalled" /\ peer[s].sc # 0
  /\ Becomes(s, AckedResponse(peer[s]))
  /\ UNCHANGED <<mode, pc, todo, apsc, queue, results, changed, strays>>

StalledDone ==
  /\ pc = "stalled"
  /\ pc' = "tick"
  /\ UNCHANGED <<mode, todo, peer, apsc, queue, results, changed, strays, faults>>

Ticked ==
  /\ pc = "tick" /\ pc' = "reconcile" /\ todo' = Sta
  /\ UNCHANGED <<mode, apsc, queue, results, strays>>

\* Mutant: the retry timer fires for a station with nothing pending.
TickRetransmitAny(s) ==
  /\ Ticked
  /\ peer[s].known
  /\ Becomes(s, RouteEapol(peer[s], peer[s].hs))
  /\ UNCHANGED changed

TickRetransmit(s) ==
  /\ Ticked
  /\ peer[s].known /\ peer[s].hs # "idle"
  /\ Becomes(s, RouteEapol(peer[s], peer[s].hs))
  /\ UNCHANGED changed

\* A handshake that ran out of retries, or a station that was idle too long.
TickExpire(s) ==
  /\ Ticked
  /\ peer[s].known
  /\ peer' = [peer EXCEPT ![s] = Disconnect(@)]
  /\ UNCHANGED <<changed, faults>>

\* rekey_gtk, and rekey_gtk_per_sta which also rotates every private group.
TickRekey ==
  /\ Ticked
  /\ changed' = TRUE
  /\ peer' = IF mode.vif THEN [s \in Sta |-> RotateStationGtk(peer[s])]
             ELSE peer
  /\ UNCHANGED faults

TickIdle ==
  /\ Ticked
  /\ UNCHANGED <<peer, changed, faults>>

Tick ==
  \/ \E s \in Sta : TickRetransmit(s) \/ TickExpire(s)
  \/ TickRekey
  \/ TickIdle

-----------------------------------------------------------------------------
(* reconcile_stations and reconcile_group_keys                             *)

DrainRemoved(p) ==
  IF p.nRemoved THEN RetireWithGrace([p EXCEPT !.nRemoved = FALSE]) ELSE p

\* Mutant: any recorded key will do.
KernelHasAnyKey(p, tk) == p.key # 0

KernelHasKey(p, tk) == p.key = tk

InstallKey(p, tk) ==
  IF KernelHasKey(p, tk) THEN Done(p)
  ELSE Then(NewPairwiseKey(p, tk), LAMBDA q : Done([q EXCEPT !.key = tk]))

\* The key of a verified message 2 is installed before message 4.
InstallPending(p) ==
  LET Installed(q) == Done([q EXCEPT !.inst = FALSE])
  IN IF ~p.inst THEN Done(p)
     ELSE IF ~IsLive(p) \/ p.cand = 0 THEN Installed(p)
     ELSE Then(InstallKey(p, p.cand), Installed)

\* Mutant: an assignment is enough.
VlanAssigned(p) == p.vid # 0

\* The station's move to its AP_VLAN was acknowledged.
VlanBound(p) == p.vid # 0 /\ ~p.onBase

\* Message 4 was verified: key if still needed, then open the port.
AuthorizePending(p) ==
  LET Settled(q) == [q EXCEPT !.keyp = FALSE]
      Authorized(q) == Done([Settled(q) EXCEPT !.phase = "Authorized"])
      Authorize(q) == IF q.phase = "Authorized" THEN Done(Settled(q))
                      ELSE Then(OpenPort(q), Authorized)
  IN CASE ~p.keyp -> Done(p)
       [] p.keyp /\ (IsRetiring(p) \/ ~p.assoc) -> Done(Settled(p))
       [] p.keyp /\ ~IsRetiring(p) /\ p.assoc /\ mode.vif
            /\ ~VlanBound(p) -> Done(Settled(RetireNow(p)))
       [] OTHER -> Then(InstallKey(p, p.tk), Authorize)

\* A failed installation does not keep an authorization from being tried.
AndAuthorize(outcomes) ==
  UNION {{[x EXCEPT !.f = @ + o.f] : x \in AuthorizePending(o.p)}
         : o \in outcomes}

ReconcileStation(s) ==
  /\ pc = "reconcile" /\ s \in todo
  /\ todo' = todo \ {s}
  /\ Becomes(s, AndAuthorize(InstallPending(DrainRemoved(peer[s]))))
  /\ UNCHANGED <<mode, pc, apsc, queue, results, changed, strays>>

ReconcileDone ==
  /\ pc = "reconcile" /\ todo = {}
  /\ pc' = "groups"
  /\ UNCHANGED <<mode, todo, peer, apsc, queue, results, changed, strays, faults>>

\* A private group is published only on a change of the epoch and only to
\* authorized stations; the epoch is complete when nothing failed, the base
\* group included.  A key that could not be published (bad) may have been
\* applied (lost).
GroupStations ==
  IF mode.vif /\ changed
  THEN {s \in Sta : /\ peer[s].phase = "Authorized" /\ peer[s].vid # 0
                    /\ peer[s].vgtk # "current"}
  ELSE {}

ReconcileGroupKeys ==
  /\ pc = "groups" /\ pc' = "control"
  /\ \E badBase \in {FALSE, changed}, bad \in SUBSET GroupStations,
        lost \in SUBSET GroupStations :
       LET failed == Cardinality(bad) + (IF badBase THEN 1 ELSE 0)
       IN /\ faults + failed <= MaxFaults
          /\ faults' = faults + failed
          /\ changed' = (changed /\ failed # 0)
          /\ lost \subseteq bad
          /\ peer' = [s \in Sta |->
               CASE s \in GroupStations \ bad ->
                      [peer[s] EXCEPT !.vgtk = "current", !.kgtk = "current"]
                 [] s \in lost -> [peer[s] EXCEPT !.kgtk = "current"]
                 [] OTHER -> peer[s]]
  /\ UNCHANGED <<mode, todo, apsc, queue, results, strays>>

-----------------------------------------------------------------------------
(* service_control (an administrative kick) and publish_events             *)

PublishEvents(p) ==
  IF p.nGone THEN RetireWithGrace([p EXCEPT !.nGone = FALSE]) ELSE p

ServiceControl ==
  /\ pc = "control" /\ pc' = "apply"
  /\ \E kicked \in SUBSET Sta :
       peer' = [s \in Sta |-> PublishEvents(
                  IF s \in kicked THEN Disconnect(peer[s]) ELSE peer[s])]
  /\ UNCHANGED <<mode, todo, apsc, queue, results, changed, strays, faults>>

-----------------------------------------------------------------------------
(* The worker threads                                                      *)

\* DEL_KEY and DEL_STATION, or DEL_INTERFACE; either may fail and be retried.
CleanupWorker ==
  /\ queue # <<>>
  /\ LET job == Head(queue)  p == peer[job.sta]
         done == IF job.kind = "Station" THEN DelStation(p, job.scopes)
                 ELSE DelInterface(p)
         failed == IF job.kind = "Station"
                   THEN [p EXCEPT !.kkey = 0, !.klost = FALSE] ELSE p
     IN \E ok \in BOOLEAN, q \in {done, failed} :
          /\ ok => q = done
          /\ faults + (IF ok THEN 0 ELSE 1) <= MaxFaults
          /\ faults' = faults + (IF ok THEN 0 ELSE 1)
          /\ peer' = [peer EXCEPT ![job.sta] = q]
          /\ results' = results \cup {[id |-> job.id, sta |-> job.sta,
                                       kind |-> job.kind, ok |-> ok]}
  /\ queue' = Tail(queue)
  /\ UNCHANGED <<mode, pc, todo, apsc, changed, strays>>

EapolWorker(s) ==
  /\ peer[s].txq # "none"
  /\ LET p == peer[s]
         sent == IF p.kassoc THEN p.txq ELSE p.air
     IN peer' = [peer EXCEPT ![s] = [p EXCEPT !.txq = "none", !.air = sent]]
  /\ UNCHANGED <<mode, pc, todo, apsc, queue, results, changed, strays, faults>>

-----------------------------------------------------------------------------
Loop ==
  \/ ApplyCleanupResults
  \/ \E s \in Sta : StartCleanup(s) \/ DeferCleanup(s)
  \/ ScheduleDone
  \/ ReceiveEvents
  \/ \E s \in Sta : ReleaseStalled(s)
  \/ StalledDone
  \/ Tick
  \/ \E s \in Sta : ReconcileStation(s)
  \/ ReconcileDone
  \/ ReconcileGroupKeys
  \/ ServiceControl

Next == Loop \/ CleanupWorker \/ \E s \in Sta : EapolWorker(s)

Spec == Init /\ [][Next]_vars

\* The loop and the cleanup thread keep running, and a deadline that lies in
\* the future is in the end found elapsed.
Fairness ==
  /\ WF_vars(Loop) /\ WF_vars(CleanupWorker)
  /\ \A s \in Sta : SF_vars(StartCleanup(s))

FairSpec == Spec /\ Fairness

-----------------------------------------------------------------------------
(* Properties                                                              *)

Job == [id: Nat, sta: Sta, kind: {"Station", "Interface"},
        scopes: SUBSET {"base", "vlan"}]

Result == [id: Nat, sta: Sta, kind: {"Station", "Interface"}, ok: BOOLEAN]

\* Every variable has its type: the registry, the assignment and the kernel's
\* view of each station, the worker's channels and the phase of the loop.
TypeOK ==
  /\ mode \in [vif: BOOLEAN, full: BOOLEAN]
  /\ pc \in Phase /\ todo \subseteq Sta
  /\ peer \in [Sta -> Peer]
  /\ apsc \in 0 .. MaxSc
  /\ queue \in Seq(Job) /\ results \subseteq Result
  /\ changed \in BOOLEAN /\ strays \subseteq Nat
  /\ faults \in 0 .. MaxFaults

\* No kernel object is orphaned: while the kernel holds a peer, the registry
\* knows its address and the deletion it will ask for covers the interface
\* the peer is on; while a station's AP_VLAN exists, an assignment reserves
\* its id.  An AP_VLAN that a failed creation left behind has no assignment and
\* is never taken for a station's: its id is free, and whoever is given the id
\* gets an AP_VLAN of its own.
NoOrphan ==
  \A s \in Sta : LET p == peer[s] IN
    /\ p.kat # "none" => /\ p.phase # "None" /\ p.addr
                         /\ p.vid = 0 => p.kat = "base"
                         /\ p.vid # 0 /\ p.kat = "base" => p.onBase
    /\ p.kif => p.vid # 0
    /\ p.vid \notin strays

\* A deletion that is queued belongs to the incarnation that is retiring: the
\* worker never deletes the peer or the AP_VLAN of a newer association of the
\* same address.
CleanupOwnsPeer ==
  \A i \in DOMAIN queue : LET p == peer[queue[i].sta] IN
    /\ IsRetiring(p)
    /\ queue[i].id \in {p.sid, p.iid, p.bid}
    /\ queue[i].kind = "Interface" => p.kat = "none"

\* The port is open for a live peer only if the peer was keyed, and on its own
\* AP_VLAN where stations are isolated: no traffic passes on the base BSS.
OpenPortIsBound ==
  \A s \in Sta : LET p == peer[s] IN
    p.kport /\ IsLive(p) => /\ p.kassoc /\ p.key # 0
                            /\ mode.vif => p.kat = "vlan"

\* A live station is authorized with its key in the kernel: the key recorded
\* for it is the kernel's, and once reconciled the kernel encrypts with the
\* key the four-way handshake agreed on.
AuthorizedIsKeyed ==
  \A s \in Sta : LET p == peer[s] IN
    p.phase = "Authorized" =>
      /\ p.kkey = p.key
      /\ pc = "recv" /\ p.assoc /\ p.hs = "idle" /\ ~p.keyp => p.kkey = p.tk

\* Where stations share the base BSS a station is authorized with its key in
\* the kernel, whatever failed before: the key recorded for it is the kernel's,
\* and once reconciled it is the key of the handshake; unless the kernel
\* applied a later NEW_KEY and reported it as failed, which the registry cannot
\* know of.  With one AP_VLAN per station it does not hold: the move to the
\* AP_VLAN deletes a key that was installed before it (README, section 4).
KeyedOnBase ==
  \A s \in Sta : LET p == peer[s] IN
    ~mode.vif /\ p.phase = "Authorized" =>
      /\ p.kkey = p.key \/ p.klost
      /\ pc = "recv" /\ p.assoc /\ p.hs = "idle" /\ ~p.keyp => p.key = p.tk

\* In an initial association EAPOL leaves only for a published peer, and on
\* isolating radios only after the peer was moved to its AP_VLAN: whatever
\* happens to TX statuses, message 1 never overtakes the association callback.
BindBeforeEapol ==
  [][\A s \in Sta : LET q == peer'[s] IN
       q.air \notin {"none", peer[s].air} /\ ~q.assoc
         /\ peer[s].txq = "none" =>
         q.kassoc /\ (mode.vif => q.kat = "vlan")]_vars

\* Authorized stations keep their port open.  Does not hold on the base
\* BSS: the TX status of a response that was repeated while message 4 was on its
\* way refreshes the flags without AUTHORIZED (README, section 4).
PortStaysOpen ==
  \A s \in Sta : peer[s].phase = "Authorized" => peer[s].kport

\* When the epoch is published, an authorized station's AP_VLAN holds the
\* group key the station was given.  Does not hold: a private group that an
\* Authentication renews is not published for a station that is already bound
\* (README, section 4).
VlanGroupKeyCurrent ==
  \A s \in Sta : LET p == peer[s] IN
    mode.vif /\ pc = "recv" /\ ~changed /\ p.phase = "Authorized" /\ p.assoc
      => p.kgtk = "current"

\* A retirement ends: a peer that is being retired is in the end forgotten.
RetirementCompletes ==
  \A s \in Sta : IsRetiring(peer[s]) ~> ~IsRetiring(peer[s])
=============================================================================
