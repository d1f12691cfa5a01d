---------------------------- MODULE RadioStartup ----------------------------
(***************************************************************************)
(* Bringing radios on the air: run_netlink_radios starts one thread for    *)
(* each radio, which configures its netdev, waits for DFS channels to be   *)
(* cleared, starts the BSS of every link and enters the radio loop.  The   *)
(* process ends when one of its radios does, and may be started again.     *)
(*                                                                         *)
(* The radios listen to the same multicast groups, so an event reaches     *)
(* every radio that has joined.  Until the loop runs, one socket carries   *)
(* both requests and events: waiting for the ACK of a request reads, and   *)
(* drops, the events queued before it.                                     *)
(***************************************************************************)
EXTENDS Naturals, Sequences, FiniteSets

CONSTANTS
  Radio,
  LinksOf,     \* active links of each radio, in order
  Mld,         \* radios that are multi-link devices
  Dfs, Wide,   \* links on radar channels; those at least 40 MHz wide
  Offloads,    \* sets of radios whose driver handles DFS by itself
  PerStaVifs,  \* sets of radios configured with per_sta_vif
  MaxFaults,   \* requests that fail
  MaxEvents,   \* radar pulses and aborted checks
  MaxStarts    \* times the process is started

Range(s) == {s[i] : i \in DOMAIN s}
Link == UNION {Range(LinksOf[r]) : r \in Radio}
Owner(l) == CHOOSE r \in Radio : l \in Range(LinksOf[r])

\* The link_id of a link: a number of its own netdev, not of the system.
LinkId(l) == CHOOSE i \in DOMAIN LinksOf[Owner(l)] : LinksOf[Owner(l)][i] = l

ASSUME TopologyAssumption ==
  /\ Mld \subseteq Radio /\ Wide \subseteq Dfs /\ Dfs \subseteq Link
  /\ \A r \in Radio : /\ LinksOf[r] \in Seq(Range(LinksOf[r]))
                      /\ LinksOf[r] # <<>>
                      /\ r \notin Mld => Len(LinksOf[r]) = 1
  /\ \A r1, r2 \in Radio :
       r1 # r2 => Range(LinksOf[r1]) \cap Range(LinksOf[r2]) = {}

ASSUME BoundsAssumption ==
  /\ Offloads \subseteq SUBSET Radio /\ PerStaVifs \subseteq SUBSET Radio
  /\ MaxFaults \in Nat /\ MaxEvents \in Nat /\ MaxStarts \in Nat \ {0}

VARIABLES
  offload,     \* radios with NL80211_EXT_FEATURE_DFS_OFFLOAD
  vif,         \* radios whose configuration of this start has per_sta_vif
  deaf,        \* radios that could not join the mlme group and go on
  up,          \* the process runs
  stage, pos,  \* progress of start_radio, and the link it is at
  inbox,       \* the event socket of each radio
  regdom,      \* "world", "pending" or "set"
  iface,       \* netdev: "managed", "down" or "ap"
  exists,      \* links known to the kernel (ADD_LINK)
  cac,         \* DFS state of a link's channel
  air,         \* a link's beacon: off, without partner profiles, complete
  radar,       \* links that beacon although radar was detected
  moved, noted,   \* links the driver moved; moves the AP has been told of
  stale,       \* what a previous process left: stations, AP_VLANs
  faults, events, starts

given == <<offload, vif, deaf>>
progress == <<stage, pos>>
kernel == <<regdom, iface, exists, cac, air, radar, moved, stale>>
bounds == <<faults, events, starts>>
vars == <<given, up, progress, inbox, kernel, noted, bounds>>

Stage == {"idle", "regulatory", "regwait", "type", "flush", "register",
          "join", "links", "scan", "cac", "cacwait", "start", "bss",
          "refresh", "vlans", "keys", "running"}

\* The radio listens to the mlme group.
Joined(r) ==
  /\ r \notin deaf
  /\ stage[r] \in Stage \ {"idle", "regulatory", "regwait", "type", "flush",
                           "register", "join"}

\* named: the event carries the ifindex of its netdev (and, of an MLD, the
\* link_id).  The kernel leaves both out of some radar events.
Event == [link: Link, kind: {"finished", "aborted", "detected", "switched"},
          named: BOOLEAN]

Here(r) == LinksOf[r][pos[r]]
IsLast(r) == pos[r] = Len(LinksOf[r])

Init ==
  /\ offload \in Offloads /\ vif \in PerStaVifs /\ deaf = {}
  /\ up = TRUE
  /\ stage = [r \in Radio |-> "regulatory"] /\ pos = [r \in Radio |-> 1]
  /\ inbox = [r \in Radio |-> <<>>]
  /\ regdom = "world"
  /\ iface = [r \in Radio |-> "managed"]
  /\ exists = {}
  /\ cac = [l \in Dfs |-> "usable"]
  /\ air = [l \in Link |-> "off"]
  /\ radar = {} /\ moved = {} /\ noted = {}
  /\ stale = [r \in Radio |-> {"stations", "vlans"}]
  /\ faults = 0 /\ events = 0 /\ starts = 1

-----------------------------------------------------------------------------
(* Steps of a radio                                                        *)

Goto(r, st, p) ==
  /\ stage' = [stage EXCEPT ![r] = st]
  /\ pos' = [pos EXCEPT ![r] = p]

\* Mutant: the loop runs one link too far.
NextLinkPast(r, again, st) ==
  IF pos[r] > Len(LinksOf[r]) THEN Goto(r, st, 1) ELSE Goto(r, again, pos[r] + 1)

\* The next link at stage again, or the first one at stage st.
NextLink(r, again, st) ==
  IF IsLast(r) THEN Goto(r, st, 1) ELSE Goto(r, again, pos[r] + 1)

\* request_ack: what was queued on the socket before the ACK is dropped.
RequestAck(r) == inbox' = [inbox EXCEPT ![r] = <<>>]

Succeeds == UNCHANGED bounds
Fails == /\ faults < MaxFaults /\ faults' = faults + 1
         /\ UNCHANGED <<events, starts>>

\* A radio that returns ends the process.  The kernel reaps what belongs to
\* the sockets; stations of a radio that was running, and AP_VLANs if it had
\* such, may stay.
ProcessExits ==
  /\ up' = FALSE
  /\ stage' = [r \in Radio |-> "idle"] /\ pos' = [r \in Radio |-> 1]
  /\ inbox' = [r \in Radio |-> <<>>]
  /\ exists' = {}
  /\ cac' = [l \in Dfs |-> IF cac[l] = "checking" THEN "usable" ELSE cac[l]]
  /\ air' = [l \in Link |-> "off"]
  /\ radar' = {} /\ moved' = {} /\ noted' = {}
  /\ stale' = [r \in Radio |->
       stale[r] \cup {x \in {"stations", "vlans"} :
                       stage[r] = "running" /\ (x = "vlans" => r \in vif)}]
  /\ vif' = {} /\ deaf' = {}
  /\ UNCHANGED <<offload, regdom>>

Aborts(r) ==
  /\ Fails
  /\ ProcessExits
  /\ UNCHANGED iface

\* nl_set_regulatory: nothing to do, or a hint; it may not be sent at all.
SetRegulatory(r) ==
  /\ stage[r] = "regulatory"
  /\ \/ /\ regdom = "set" /\ Goto(r, "type", 1) /\ Succeeds
        /\ UNCHANGED regdom
     \/ /\ regdom # "set" /\ Goto(r, "regwait", 1) /\ Succeeds
        /\ regdom' = "pending"
     \/ /\ regdom # "set" /\ Goto(r, "type", 1) /\ Fails
        /\ UNCHANGED regdom
  /\ UNCHANGED <<given, up, inbox, iface, exists, cac, air, radar, moved,
                 stale, noted>>

\* Mutant: only REG_CHANGE ends the wait.
RegulatoryWaitForever(r) ==
  /\ stage[r] = "regwait" /\ regdom = "set"
  /\ Goto(r, "type", 1)
  /\ UNCHANGED <<given, up, inbox, kernel, noted, bounds>>

\* The wait ends with REG_CHANGE or, in any case, after three seconds.
RegulatoryWait(r) ==
  /\ stage[r] = "regwait"
  /\ Goto(r, "type", 1)
  /\ UNCHANGED <<given, up, inbox, kernel, noted, bounds>>

RegChange ==
  /\ regdom = "pending" /\ regdom' = "set"
  /\ UNCHANGED <<given, up, progress, inbox, iface, exists, cac, air, radar,
                 moved, stale, noted, bounds>>

\* Down, type __ap, up.  A refused type change brings the netdev up again.
SetInterface(r) ==
  /\ stage[r] = "type"
  /\ \/ /\ Succeeds /\ Goto(r, "flush", 1) /\ RequestAck(r)
        /\ iface' = [iface EXCEPT ![r] = "ap"]
        /\ UNCHANGED <<given, up, regdom, exists, cac, air, radar, moved,
                       stale, noted>>
     \/ /\ Fails /\ ProcessExits
        /\ iface' = [iface EXCEPT ![r] = IF @ = "down" THEN "managed" ELSE @]
     \/ /\ Fails /\ ProcessExits
        /\ iface' = [iface EXCEPT ![r] = "down"]

\* nl_flush_stations is not fatal when it fails.
FlushStations(r) ==
  /\ stage[r] = "flush"
  /\ Goto(r, "register", 1) /\ RequestAck(r)
  /\ \/ Succeeds /\ stale' = [stale EXCEPT ![r] = @ \ {"stations"}]
     \/ Fails /\ stale' = stale
  /\ UNCHANGED <<given, up, regdom, iface, exists, cac, air, radar, moved,
                 noted>>

RegisterFrames(r) ==
  /\ stage[r] = "register"
  /\ \/ /\ Succeeds /\ Goto(r, "join", 1) /\ RequestAck(r)
        /\ UNCHANGED <<given, up, kernel, noted>>
     \/ Aborts(r)

\* A radio that cannot join the mlme group goes on without its events; the scan
\* group, which wide DFS links need, is not optional.
JoinGroups(r) ==
  /\ stage[r] = "join"
  /\ \/ /\ \/ Succeeds /\ deaf' = deaf
           \/ Fails /\ deaf' = deaf \cup {r}
        /\ Goto(r, IF r \in Mld THEN "links" ELSE "scan", 1)
        /\ UNCHANGED <<offload, vif, up, inbox, kernel, noted>>
     \/ Range(LinksOf[r]) \cap Wide # {} /\ Aborts(r)

\* An MLD adds every link before any of them gets a beacon.
AddLink(r) ==
  /\ stage[r] = "links"
  /\ \/ /\ Succeeds /\ NextLink(r, "links", "scan") /\ RequestAck(r)
        /\ exists' = exists \cup {Here(r)}
        /\ UNCHANGED <<given, up, regdom, iface, cac, air, radar, moved,
                       stale, noted>>
     \/ Aborts(r)

\* The coexistence scan of wide DFS links; it may be aborted or time out.
PreCacScan(r) ==
  /\ stage[r] = "scan"
  /\ \/ /\ Succeeds /\ NextLink(r, "scan", "cac")
        /\ IF Here(r) \in Wide THEN RequestAck(r) ELSE UNCHANGED inbox
        /\ UNCHANGED <<given, up, kernel, noted>>
     \/ Here(r) \in Wide /\ Aborts(r)

NeedsCac(r) == Here(r) \in Dfs /\ r \notin offload

\* do_cac, first half: RADAR_DETECT.  The kernel does not listen on a channel
\* where radar was found.
StartCac(r) ==
  LET l == Here(r) IN
  /\ stage[r] = "cac"
  /\ \/ /\ ~NeedsCac(r) /\ Goto(r, "start", pos[r])
        /\ UNCHANGED <<given, up, inbox, kernel, noted, bounds>>
     \/ /\ NeedsCac(r) /\ cac[l] # "unavailable"
        /\ Succeeds /\ Goto(r, "cacwait", pos[r]) /\ RequestAck(r)
        /\ cac' = [cac EXCEPT ![l] = "checking"]
        /\ UNCHANGED <<given, up, regdom, iface, exists, air, radar, moved,
                       stale, noted>>
     \/ NeedsCac(r) /\ Aborts(r)
     \/ /\ NeedsCac(r) /\ cac[l] = "unavailable"
        /\ Succeeds /\ ProcessExits /\ UNCHANGED iface

\* Events that name another link_id are skipped; only an MLD's events name one,
\* and only an MLD looks.  The netdev of the event is not looked at.
CacHears(r, e) ==
  r \in Mld /\ Owner(e.link) \in Mld /\ e.named => LinkId(e.link) = pos[r]

\* do_cac, second half: the next event of the socket, or the time-out.
CacWait(r) ==
  /\ stage[r] = "cacwait"
  /\ \/ /\ inbox[r] # <<>>
        /\ LET e == Head(inbox[r]) IN
           \/ /\ CacHears(r, e) /\ e.kind = "finished"
              /\ Goto(r, "start", pos[r]) /\ Succeeds
              /\ inbox' = [inbox EXCEPT ![r] = Tail(@)]
              /\ UNCHANGED <<given, up, kernel, noted>>
           \/ /\ CacHears(r, e) /\ e.kind \in {"aborted", "detected"}
              /\ Succeeds /\ ProcessExits /\ UNCHANGED iface
           \/ /\ ~CacHears(r, e) \/ e.kind = "switched"
              /\ inbox' = [inbox EXCEPT ![r] = Tail(@)]
              /\ UNCHANGED <<given, up, progress, kernel, noted, bounds>>
     \/ Succeeds /\ ProcessExits /\ UNCHANGED iface

\* The beacon of an MLD keeps the profiles of active partner links only.
Template(r, l) ==
  IF \A k \in Range(LinksOf[r]) \ {l} : air[k] # "off"
  THEN "complete" ELSE "partial"

KernelAdmits(l) ==
  /\ regdom = "set"
  /\ l \in Dfs /\ Owner(l) \notin offload => cac[l] = "available"

StartAp(r) ==
  LET l == Here(r) IN
  /\ stage[r] = "start"
  /\ \/ /\ KernelAdmits(l)
        /\ Succeeds /\ Goto(r, "bss", pos[r]) /\ RequestAck(r)
        /\ air' = [air EXCEPT ![l] = Template(r, l)]
        /\ UNCHANGED <<given, up, regdom, iface, exists, cac, radar, moved,
                       stale, noted>>
     \/ ~KernelAdmits(l) /\ Succeeds /\ ProcessExits /\ UNCHANGED iface
     \/ Aborts(r)

\* Mutant: the first beacons are never refreshed.
AfterStartNothing(r) == "vlans"

\* The beacons of several links are built again once all are active.
AfterStart(r) == IF Len(LinksOf[r]) > 1 THEN "refresh" ELSE "vlans"

\* SET_BSS, and the broadcast Deauthentication whose failure is not noticed.
SetBss(r) ==
  /\ stage[r] = "bss"
  /\ \/ /\ Succeeds /\ RequestAck(r)
        /\ NextLink(r, "cac", AfterStart(r))
        /\ UNCHANGED <<given, up, kernel, noted>>
     \/ Aborts(r)

\* SET_BEACON again for every link, now that all partners are active.
RefreshBeacon(r) ==
  LET l == Here(r) IN
  /\ stage[r] = "refresh"
  /\ \/ /\ Succeeds /\ NextLink(r, "refresh", "vlans") /\ RequestAck(r)
        /\ air' = [air EXCEPT ![l] = Template(r, l)]
        /\ UNCHANGED <<given, up, regdom, iface, exists, cac, radar, moved,
                       stale, noted>>
     \/ Aborts(r)

\* AP_VLANs are swept only by a radio that creates such.  From here on requests
\* use a socket of their own.
FlushVlans(r) ==
  /\ stage[r] = "vlans"
  /\ Goto(r, "keys", 1)
  /\ \/ r \in vif /\ Succeeds /\ stale' = [stale EXCEPT ![r] = @ \ {"vlans"}]
     \/ r \in vif /\ Fails /\ stale' = stale
     \/ r \notin vif /\ Succeeds /\ stale' = stale
  /\ UNCHANGED <<given, up, inbox, regdom, iface, exists, cac, air, radar,
                 moved, noted>>

InstallBaseKeys(r) ==
  /\ stage[r] = "keys"
  /\ \/ /\ Succeeds /\ Goto(r, "running", 1)
        /\ UNCHANGED <<given, up, inbox, kernel, noted>>
     \/ Aborts(r)

\* Mutant: only the first link of the netdev is looked at.
OnFirstLink(r, e) == e.link = LinksOf[r][1]

\* The event names a netdev of the radio, or none at all.
OnOwnNetdev(r, e) == e.named => Owner(e.link) = r

\* receive_events: events of other netdevs are skipped, a completed switch is
\* noted, and radar stops the BSS unless the driver deals with it.
ReceiveEvent(r) ==
  /\ stage[r] = "running" /\ inbox[r] # <<>>
  /\ LET e == Head(inbox[r])
         mine == OnOwnNetdev(r, e)
         answer == mine /\ e.kind = "detected" /\ r \notin offload
     IN \/ answer /\ Succeeds /\ ProcessExits /\ UNCHANGED iface
        \/ /\ ~answer
           /\ inbox' = [inbox EXCEPT ![r] = Tail(@)]
           /\ noted' = IF mine /\ e.kind = "switched"
                       THEN noted \cup {e.link} ELSE noted
           /\ UNCHANGED <<given, up, progress, kernel, bounds>>

RadioStep(r) ==
  \/ SetRegulatory(r) \/ RegulatoryWait(r) \/ SetInterface(r)
  \/ FlushStations(r) \/ RegisterFrames(r) \/ JoinGroups(r) \/ AddLink(r)
  \/ PreCacScan(r) \/ StartCac(r) \/ CacWait(r) \/ StartAp(r) \/ SetBss(r)
  \/ RefreshBeacon(r) \/ FlushVlans(r) \/ InstallBaseKeys(r)
  \/ ReceiveEvent(r)

-----------------------------------------------------------------------------
(* The kernel, the air and the supervisor                                  *)

Multicast(es) ==
  inbox' = [r \in Radio |-> IF Joined(r) THEN inbox[r] \o es ELSE inbox[r]]

Notify(l, kind, named) == <<[link |-> l, kind |-> kind, named |-> named]>>

CacFinished(l) ==
  /\ l \in Dfs /\ cac[l] = "checking"
  /\ cac' = [cac EXCEPT ![l] = "available"]
  /\ Multicast(Notify(l, "finished", TRUE))
  /\ UNCHANGED <<given, up, progress, regdom, iface, exists, air, radar,
                 moved, stale, noted, bounds>>

CacAborted(l) ==
  /\ l \in Dfs /\ cac[l] = "checking"
  /\ events < MaxEvents /\ events' = events + 1
  /\ cac' = [cac EXCEPT ![l] = "usable"]
  /\ Multicast(Notify(l, "aborted", TRUE))
  /\ UNCHANGED <<given, up, progress, regdom, iface, exists, air, radar,
                 moved, stale, noted, faults, starts>>

\* Radar during the check, or later while the link beacons: a driver with
\* DFS offload then moves the link by itself.
RadarPulse(l) ==
  LET beaconing == air[l] # "off"
      moves == beaconing /\ Owner(l) \in offload
  IN
  /\ l \in Dfs /\ l \notin moved /\ (beaconing \/ cac[l] = "checking")
  /\ cac[l] # "unavailable"
  /\ events < MaxEvents /\ events' = events + 1
  /\ cac' = [cac EXCEPT ![l] = "unavailable"]
  /\ radar' = IF beaconing /\ ~moves THEN radar \cup {l} ELSE radar
  /\ moved' = IF moves THEN moved \cup {l} ELSE moved
  /\ \E named \in BOOLEAN :
       Multicast(Notify(l, "detected", named)
                   \o (IF moves THEN Notify(l, "switched", TRUE) ELSE <<>>))
  /\ UNCHANGED <<given, up, progress, regdom, iface, exists, air, stale,
                 noted, faults, starts>>

\* SIGKILL at any time.
Crash ==
  /\ up /\ starts < MaxStarts
  /\ ProcessExits
  /\ UNCHANGED <<iface, bounds>>

\* A new start, perhaps after the configuration was edited.
Restart ==
  /\ ~up /\ starts < MaxStarts /\ starts' = starts + 1
  /\ up' = TRUE
  /\ stage' = [r \in Radio |-> "regulatory"]
  /\ vif' \in PerStaVifs
  /\ UNCHANGED <<offload, deaf, pos, inbox, kernel, noted, faults, events>>

Environment ==
  \/ RegChange
  \/ \E l \in Link : CacFinished(l) \/ CacAborted(l) \/ RadarPulse(l)
  \/ Crash \/ Restart

Next == (\E r \in Radio : RadioStep(r)) \/ Environment

\* Threads run, waits have time-outs; nothing is assumed of the environment.
Fairness == \A r \in Radio : WF_vars(RadioStep(r))

Spec == Init /\ [][Next]_vars /\ Fairness

-----------------------------------------------------------------------------
(* Properties                                                              *)

\* Every variable has its type: the progress of each radio, its socket and
\* what the kernel holds for it.
TypeOK ==
  /\ offload \subseteq Radio /\ vif \subseteq Radio /\ deaf \subseteq Radio
  /\ up \in BOOLEAN
  /\ stage \in [Radio -> Stage] /\ \A r \in Radio : pos[r] \in DOMAIN LinksOf[r]
  /\ inbox \in [Radio -> Seq(Event)]
  /\ regdom \in {"world", "pending", "set"}
  /\ iface \in [Radio -> {"managed", "down", "ap"}]
  /\ exists \subseteq Link /\ radar \subseteq Link
  /\ moved \subseteq Link /\ noted \subseteq moved
  /\ cac \in [Dfs -> {"usable", "checking", "available", "unavailable"}]
  /\ air \in [Link -> {"off", "partial", "complete"}]
  /\ stale \in [Radio -> SUBSET {"stations", "vlans"}]
  /\ faults \in 0 .. MaxFaults /\ events \in 0 .. MaxEvents
  /\ starts \in 1 .. MaxStarts

\* A radio that serves stations is completely on the air: every link beacons
\* with the profiles of all its partners, as an AP netdev, and unless a request
\* failed no station of a previous process is left, however that one ended and
\* whatever it was configured to, nor an AP_VLAN that the per-station VIFs of
\* this process could collide with.
RunningIsComplete ==
  \A r \in Radio : stage[r] = "running" =>
    /\ iface[r] = "ap"
    /\ r \in Mld => Range(LinksOf[r]) \subseteq exists
    /\ \A l \in Range(LinksOf[r]) : air[l] = "complete"
    /\ faults = 0 => /\ "stations" \notin stale[r]
                     /\ r \in vif => "vlans" \notin stale[r]

\* Whatever the kernel reports or fails to report, a start ends: every radio
\* serves stations or the process has given up.
StartEnds == up ~> (~up \/ \A r \in Radio : stage[r] = "running")

\* Radar the loop is told of silences the link, and a driver's channel move it
\* is told of reaches the AP's own view.
LoopAnswers ==
  \A l \in Link : LET r == Owner(l) IN
    (/\ stage[r] = "running"
     /\ \E i \in DOMAIN inbox[r] :
          inbox[r][i].link = l /\ inbox[r][i].kind \in {"detected", "switched"})
      ~> /\ l \notin radar
         /\ l \in moved => l \in noted

\* A finished availability check means that this link's channel is clear.  Does
\* not hold: do_cac does not look at the netdev of an event (README, section 4).
CacFinishedIsOwn ==
  \A r \in Radio : stage[r] = "start" /\ NeedsCac(r) =>
    cac[Here(r)] \in {"available", "unavailable"}

\* A link on which radar was detected does not go on beaconing.  Does not hold
\* before the loop runs: the event is dropped (README, section 4).
RadarVacated == \A l \in Link : l \in radar ~> l \notin radar
=============================================================================
