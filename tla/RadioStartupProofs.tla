------------------------- MODULE RadioStartupProofs -------------------------
(***************************************************************************)
(* For every number of radios and links, every fault and every crash: a    *)
(* radio that serves stations is completely on the air, and every variable *)
(* keeps its type.                                                         *)
(***************************************************************************)
EXTENDS RadioStartup, TLAPS

-----------------------------------------------------------------------------
(* The inductive invariant: what each stage of start_radio has achieved    *)

Beacon == {"off", "partial", "complete"}

\* The types the argument needs.
Types ==
  /\ stage \in [Radio -> Stage]
  /\ pos \in [Radio -> Nat]
  /\ \A r \in Radio : pos[r] \in DOMAIN LinksOf[r]
  /\ iface \in [Radio -> {"managed", "down", "ap"}]
  /\ air \in [Link -> Beacon]
  /\ stale \in [Radio -> SUBSET {"stations", "vlans"}]
  /\ faults \in Nat

BeforeType == {"idle", "regulatory", "regwait", "type"}
BeforeLinks == BeforeType \cup {"flush", "register", "join"}
Serving == {"vlans", "keys", "running"}

Active(r, i) == air[LinksOf[r][i]] # "off"
Complete(r, i) == air[LinksOf[r][i]] = "complete"

\* The netdev is an AP, and an MLD has its links.
Configured(r) ==
  /\ stage[r] \notin BeforeType => iface[r] = "ap"
  /\ r \in Mld => \A i \in DOMAIN LinksOf[r] :
       \/ stage[r] \in BeforeLinks
       \/ stage[r] = "links" /\ i >= pos[r]
       \/ LinksOf[r][i] \in exists

\* The links that were visited beacon; after the refresh with all profiles.
OnAir(r) ==
  \A i \in DOMAIN LinksOf[r] :
    /\ stage[r] \in {"cac", "cacwait", "start"} /\ i < pos[r] => Active(r, i)
    /\ stage[r] = "bss" /\ i <= pos[r] => Active(r, i)
    /\ stage[r] = "bss" /\ Len(LinksOf[r]) = 1 => Complete(r, i)
    /\ stage[r] = "refresh" => Active(r, i)
    /\ stage[r] = "refresh" /\ i < pos[r] => Complete(r, i)
    /\ stage[r] \in Serving => Complete(r, i)

\* Without faults the leftovers of an earlier process go stage by stage.
Clean(r) ==
  faults = 0 =>
    /\ stage[r] \notin BeforeType \cup {"flush"} => "stations" \notin stale[r]
    /\ stage[r] \in {"keys", "running"} /\ r \in vif => "vlans" \notin stale[r]

Achieved(r) == Configured(r) /\ OnAir(r) /\ Clean(r)

SInv == Types /\ \A r \in Radio : Achieved(r)

-----------------------------------------------------------------------------
(* Constants                                                               *)

\* The links of a radio are links, and no other radio's.
LEMMA Links ==
  /\ \A r \in Radio : \A i \in DOMAIN LinksOf[r] : LinksOf[r][i] \in Link
  /\ \A r, q \in Radio : r # q =>
       \A i \in DOMAIN LinksOf[r], j \in DOMAIN LinksOf[q] :
         LinksOf[r][i] # LinksOf[q][j]
  /\ \A r \in Radio : /\ DOMAIN LinksOf[r] = 1 .. Len(LinksOf[r])
                      /\ Len(LinksOf[r]) \in Nat /\ Len(LinksOf[r]) >= 1
<1>1. \A r \in Radio : \A i \in DOMAIN LinksOf[r] : LinksOf[r][i] \in Range(LinksOf[r])
  BY DEF Range
<1>2. \A r, q \in Radio : r # q =>
        \A i \in DOMAIN LinksOf[r], j \in DOMAIN LinksOf[q] :
          LinksOf[r][i] # LinksOf[q][j]
  BY <1>1, TopologyAssumption
<1>3. ASSUME NEW r \in Radio
      PROVE  /\ DOMAIN LinksOf[r] = 1 .. Len(LinksOf[r])
             /\ Len(LinksOf[r]) \in Nat /\ Len(LinksOf[r]) >= 1
  <2>1. LinksOf[r] \in Seq(Range(LinksOf[r])) /\ LinksOf[r] # <<>>
    BY TopologyAssumption
  <2> DEFINE S == Range(LinksOf[r])  q == LinksOf[r]
  <2>2. q \in Seq(S) /\ q # <<>>
    BY <2>1
  <2> HIDE DEF S, q
  <2>3. DOMAIN q = 1 .. Len(q) /\ Len(q) \in Nat /\ Len(q) >= 1
    BY <2>2
  <2> QED
    BY <2>3 DEF q
<1>4. \A r \in Radio : \A i \in DOMAIN LinksOf[r] : LinksOf[r][i] \in Link
  BY <1>1 DEF Link
<1> QED
  BY <1>2, <1>3, <1>4

-----------------------------------------------------------------------------
(* Steps                                                                   *)

\* The end of the process starts everything from nothing.
LEMMA ExitAchieves ==
  ASSUME Types, ProcessExits, faults' \in Nat,
         iface' \in [Radio -> {"managed", "down", "ap"}]
  PROVE  SInv'
<1>1. Types'
  BY Links DEF Types, ProcessExits, Stage, Beacon
<1>2. \A r \in Radio : stage'[r] = "idle"
  BY DEF ProcessExits
<1>3. ASSUME NEW r \in Radio PROVE Achieved(r)'
  BY <1>2, <1>3 DEF Achieved, Configured, OnAir, Clean, BeforeType, BeforeLinks, Serving
<1> QED
  BY <1>1, <1>3 DEF SInv

\* A step that concerns radio r only.
Local(r) ==
  /\ \A q \in Radio \ {r} : /\ stage'[q] = stage[q] /\ pos'[q] = pos[q]
                            /\ iface'[q] = iface[q] /\ stale'[q] = stale[q]
  /\ \A q \in Radio \ {r} : \A i \in DOMAIN LinksOf[q] :
       air'[LinksOf[q][i]] = air[LinksOf[q][i]]
  /\ exists \subseteq exists' /\ vif' = vif
  /\ faults' = 0 => faults = 0

\* It keeps what the other radios have achieved.
LEMMA OthersKeep ==
  ASSUME SInv, NEW r \in Radio, Local(r), Types', Achieved(r)'
  PROVE  SInv'
<1> SUFFICES ASSUME NEW q \in Radio, q # r PROVE Achieved(q)'
  BY DEF SInv
<1>1. Achieved(q)
  BY DEF SInv
<1>2. Configured(q)'
  BY <1>1 DEF Achieved, Configured, Local
<1>3. OnAir(q)'
  BY <1>1 DEF Achieved, OnAir, Active, Complete, Local
<1>4. Clean(q)'
  BY <1>1 DEF Achieved, Clean, Local
<1> QED
  BY <1>2, <1>3, <1>4 DEF Achieved

\* Requests that succeed or fail count their faults.
LEMMA Faults ==
  /\ faults \in Nat /\ Fails => faults' \in Nat /\ faults' # 0
  /\ Succeeds => faults' = faults
BY DEF Fails, Succeeds, bounds

\* A radio that gives up.
LEMMA AbortAchieves ==
  ASSUME Types, NEW r \in Radio, Aborts(r)
  PROVE  SInv'
BY ExitAchieves, Faults DEF Aborts, Types

\* A wait, a check or a start that ends the process.
LEMMA GiveUpAchieves ==
  ASSUME Types, Succeeds, ProcessExits, UNCHANGED iface
  PROVE  SInv'
BY ExitAchieves, Faults DEF Types

\* Moving to another stage, at the first link or at the same one.
LEMMA GotoTypes ==
  ASSUME Types, NEW r \in Radio, NEW st \in Stage, NEW p \in DOMAIN LinksOf[r],
         Goto(r, st, p)
  PROVE  /\ stage' \in [Radio -> Stage] /\ pos' \in [Radio -> Nat]
         /\ \A q \in Radio : pos'[q] \in DOMAIN LinksOf[q]
         /\ stage'[r] = st /\ pos'[r] = p
         /\ \A q \in Radio \ {r} : stage'[q] = stage[q] /\ pos'[q] = pos[q]
<1>1. p \in Nat
  BY Links
<1> QED
  BY <1>1 DEF Types, Goto

\* The loop over the links: to the next one, or out of the last one.
LEMMA NextLinkTypes ==
  ASSUME Types, NEW r \in Radio, NEW again \in Stage, NEW st \in Stage,
         NextLink(r, again, st)
  PROVE  /\ stage' \in [Radio -> Stage] /\ pos' \in [Radio -> Nat]
         /\ \A q \in Radio : pos'[q] \in DOMAIN LinksOf[q]
         /\ \A q \in Radio \ {r} : stage'[q] = stage[q] /\ pos'[q] = pos[q]
         /\ \/ /\ pos[r] = Len(LinksOf[r]) /\ stage'[r] = st /\ pos'[r] = 1
            \/ /\ pos[r] < Len(LinksOf[r]) /\ stage'[r] = again
               /\ pos'[r] = pos[r] + 1
<1>1. /\ DOMAIN LinksOf[r] = 1 .. Len(LinksOf[r])
      /\ Len(LinksOf[r]) \in Nat /\ Len(LinksOf[r]) >= 1
      /\ pos[r] \in DOMAIN LinksOf[r]
  BY Links DEF Types
<1>2. CASE IsLast(r)
  <2>1. Goto(r, st, 1) /\ 1 \in DOMAIN LinksOf[r] /\ pos[r] = Len(LinksOf[r])
    BY <1>1, <1>2 DEF NextLink, IsLast
  <2> QED
    BY <2>1, GotoTypes
<1>3. CASE ~IsLast(r)
  <2>1. /\ Goto(r, again, pos[r] + 1) /\ pos[r] + 1 \in DOMAIN LinksOf[r]
        /\ pos[r] < Len(LinksOf[r])
    BY <1>1, <1>3 DEF NextLink, IsLast
  <2> QED
    BY <2>1, GotoTypes
<1> QED
  BY <1>2, <1>3

\* The stages up to the first beacon.
LEMMA PreparationAchieves ==
  ASSUME SInv, NEW r \in Radio,
         \/ SetRegulatory(r) \/ RegulatoryWait(r) \/ SetInterface(r)
         \/ FlushStations(r) \/ RegisterFrames(r) \/ JoinGroups(r)
         \/ AddLink(r) \/ PreCacScan(r)
  PROVE  SInv'
<1> USE DEF Stage
<1>0. Types /\ Achieved(r) /\ 1 \in DOMAIN LinksOf[r]
  BY Links DEF SInv
<1>1. ASSUME SetRegulatory(r) \/ RegulatoryWait(r) PROVE SInv'
  <2>1. PICK st \in {"type", "regwait"} : Goto(r, st, 1)
    BY <1>1 DEF SetRegulatory, RegulatoryWait
  <2>2. /\ UNCHANGED <<iface, exists, air, stale, vif>>
        /\ faults' \in Nat /\ (faults' = 0 => faults = 0)
    BY <1>0, <1>1, Faults
       DEF SetRegulatory, RegulatoryWait, Types, kernel, bounds, given
  <2>3. stage[r] \in {"regulatory", "regwait"}
    BY <1>1 DEF SetRegulatory, RegulatoryWait
  <2>4. Types' /\ Local(r)
    BY <1>0, <2>1, <2>2, GotoTypes DEF Types, Local
  <2>5. stage'[r] \in {"type", "regwait"}
    BY <1>0, <2>1, GotoTypes
  <2>6. Achieved(r)'
    BY <2>5 DEF Achieved, Configured, OnAir, Clean, BeforeType, BeforeLinks, Serving
  <2> QED
    BY <2>4, <2>6, OthersKeep
<1>2. ASSUME SetInterface(r) PROVE SInv'
  <2>1. CASE Succeeds /\ Goto(r, "flush", 1) /\ iface' = [iface EXCEPT ![r] = "ap"]
             /\ UNCHANGED <<exists, air, stale, vif>>
    <3>1. Types' /\ Local(r) /\ stage'[r] = "flush" /\ iface'[r] = "ap"
      BY <1>0, <2>1, GotoTypes, Faults DEF Types, Local
    <3>2. Achieved(r)'
      BY <3>1 DEF Achieved, Configured, OnAir, Clean, BeforeType, BeforeLinks, Serving
    <3> QED
      BY <3>1, <3>2, OthersKeep
  <2>2. CASE /\ Fails /\ ProcessExits
             /\ \E v \in {"managed", "down", "ap"} : iface' = [iface EXCEPT ![r] = v]
    <3>1. iface' \in [Radio -> {"managed", "down", "ap"}]
      BY <1>0, <2>2 DEF Types
    <3> QED
      BY <1>0, <2>2, <3>1, ExitAchieves, Faults DEF Types
  <2> QED
    BY <1>0, <1>2, <2>1, <2>2 DEF SetInterface, Types, given
<1>3. ASSUME FlushStations(r) PROVE SInv'
  <2>1. /\ stage[r] = "flush" /\ Goto(r, "register", 1)
        /\ UNCHANGED <<iface, exists, air, vif>>
        /\ \/ Succeeds /\ stale' = [stale EXCEPT ![r] = @ \ {"stations"}]
           \/ Fails /\ stale' = stale
    BY <1>3 DEF FlushStations, given
  <2>2. /\ stale' \in [Radio -> SUBSET {"stations", "vlans"}]
        /\ \A q \in Radio \ {r} : stale'[q] = stale[q]
        /\ faults' \in Nat /\ (faults' = 0 => faults = 0)
        /\ faults' = 0 => "stations" \notin stale'[r]
    BY <1>0, <2>1, Faults DEF Types
  <2>3. Types' /\ Local(r) /\ stage'[r] = "register"
    BY <1>0, <2>1, <2>2, GotoTypes DEF Types, Local
  <2>4. Achieved(r)'
    BY <1>0, <2>1, <2>2, <2>3
       DEF Achieved, Configured, OnAir, Clean, BeforeType, BeforeLinks, Serving
  <2> QED
    BY <2>3, <2>4, OthersKeep
<1>4. ASSUME RegisterFrames(r) \/ JoinGroups(r) PROVE SInv'
  <2>1. CASE Aborts(r)
    BY <1>0, <2>1, AbortAchieves
  <2>2. CASE ~Aborts(r)
    <3>1. /\ stage[r] \in {"register", "join"}
          /\ UNCHANGED <<iface, exists, air, stale, vif>>
          /\ faults' \in Nat /\ (faults' = 0 => faults = 0)
          /\ \/ Goto(r, "join", 1)
             \/ r \in Mld /\ Goto(r, "links", 1)
             \/ r \notin Mld /\ Goto(r, "scan", 1)
      BY <1>0, <1>4, <2>2, Faults DEF RegisterFrames, JoinGroups, Types, kernel, given
    <3>2. /\ Types' /\ Local(r) /\ pos'[r] = 1
          /\ \/ stage'[r] \in {"join", "links"}
             \/ stage'[r] = "scan" /\ r \notin Mld
      BY <1>0, <3>1, GotoTypes DEF Types, Local
    <3>3. \A i \in DOMAIN LinksOf[r] : i >= 1
      BY Links
    <3>4. Achieved(r)'
      BY <1>0, <3>1, <3>2, <3>3
         DEF Achieved, Configured, OnAir, Clean, BeforeType, BeforeLinks, Serving
    <3> QED
      BY <3>2, <3>4, OthersKeep
  <2> QED
    BY <2>1, <2>2
<1>5. ASSUME AddLink(r) PROVE SInv'
  <2>1. CASE Aborts(r)
    BY <1>0, <2>1, AbortAchieves
  <2>2. CASE ~Aborts(r)
    <3>1. /\ stage[r] = "links" /\ NextLink(r, "links", "scan")
          /\ exists' = exists \cup {LinksOf[r][pos[r]]}
          /\ UNCHANGED <<iface, air, stale, faults, vif>>
      BY <1>5, <2>2, Faults DEF AddLink, Here, given
    <3>2. /\ Types' /\ Local(r)
          /\ \/ pos[r] = Len(LinksOf[r]) /\ stage'[r] = "scan"
             \/ stage'[r] = "links" /\ pos'[r] = pos[r] + 1
      BY <1>0, <3>1, NextLinkTypes DEF Types, Local
    <3>3. ASSUME NEW i \in DOMAIN LinksOf[r], stage'[r] = "links" => i < pos'[r],
                 r \in Mld
          PROVE  LinksOf[r][i] \in exists'
      <4>1. i \in 1 .. Len(LinksOf[r]) /\ pos[r] \in Nat
        BY <1>0, Links DEF Types
      <4>2. i <= pos[r]
        BY <3>2, <3>3, <4>1
      <4>3. i < pos[r] => LinksOf[r][i] \in exists
        BY <1>0, <3>1, <3>3, <4>1 DEF Achieved, Configured, BeforeLinks, BeforeType
      <4> QED
        BY <3>1, <4>1, <4>2, <4>3
    <3>4. \A i \in DOMAIN LinksOf[r] : i \in Nat /\ pos'[r] \in Nat
      BY <3>2, Links DEF Types
    <3>5. Configured(r)'
      BY <1>0, <3>1, <3>2, <3>3, <3>4 DEF Achieved, Configured, BeforeType, BeforeLinks
    <3>6. OnAir(r)' /\ Clean(r)'
      BY <1>0, <3>1, <3>2 DEF Achieved, OnAir, Clean, BeforeType, BeforeLinks, Serving
    <3> QED
      BY <3>2, <3>5, <3>6, OthersKeep DEF Achieved
  <2> QED
    BY <2>1, <2>2
<1>6. ASSUME PreCacScan(r) PROVE SInv'
  <2>1. CASE Aborts(r)
    BY <1>0, <2>1, AbortAchieves
  <2>2. CASE ~Aborts(r)
    <3>1. /\ stage[r] = "scan" /\ NextLink(r, "scan", "cac")
          /\ UNCHANGED <<iface, exists, air, stale, faults, vif>>
      BY <1>6, <2>2, Faults DEF PreCacScan, kernel, given
    <3>2. /\ Types' /\ Local(r)
          /\ \/ stage'[r] = "cac" /\ pos'[r] = 1
             \/ stage'[r] = "scan"
      BY <1>0, <3>1, NextLinkTypes DEF Types, Local
    <3>3. \A i \in DOMAIN LinksOf[r] : ~(i < 1)
      BY Links
    <3>4. Achieved(r)'
      BY <1>0, <3>1, <3>2, <3>3
         DEF Achieved, Configured, OnAir, Clean, BeforeType, BeforeLinks, Serving
    <3> QED
      BY <3>2, <3>4, OthersKeep
  <2> QED
    BY <2>1, <2>2
<1> QED
  BY <1>1, <1>2, <1>3, <1>4, <1>5, <1>6

\* A template built when all partners are active is complete, and a template
\* is never "off"; what it replaces is one beacon of the radio.
LEMMA TemplateBeacon ==
  ASSUME Types, NEW r \in Radio, NEW p \in DOMAIN LinksOf[r],
         air' = [air EXCEPT ![LinksOf[r][p]] = Template(r, LinksOf[r][p])]
  PROVE  /\ air' \in [Link -> Beacon]
         /\ \A q \in Radio \ {r} : \A i \in DOMAIN LinksOf[q] :
              air'[LinksOf[q][i]] = air[LinksOf[q][i]]
         /\ Active(r, p)'
         /\ \A i \in DOMAIN LinksOf[r] : Active(r, i) => Active(r, i)'
         /\ \A i \in DOMAIN LinksOf[r] :
              LinksOf[r][i] # LinksOf[r][p] => air'[LinksOf[r][i]] = air[LinksOf[r][i]]
         /\ (\A i \in DOMAIN LinksOf[r] : i # p => Active(r, i)) => Complete(r, p)'
<1> DEFINE l == LinksOf[r][p]
<1>1. l \in Link /\ Template(r, l) \in {"partial", "complete"}
  BY Links DEF Template
<1>2. air' \in [Link -> Beacon] /\ air'[l] = Template(r, l)
      /\ \A k \in Link : k # l => air'[k] = air[k]
  BY <1>1 DEF Types, Beacon
<1>3. ASSUME NEW q \in Radio \ {r}, NEW i \in DOMAIN LinksOf[q]
      PROVE  air'[LinksOf[q][i]] = air[LinksOf[q][i]]
  BY <1>2, Links
<1>4. Active(r, p)'
  BY <1>1, <1>2 DEF Active
<1>5. \A i \in DOMAIN LinksOf[r] : Active(r, i) => Active(r, i)'
  BY <1>1, <1>2, Links DEF Active
<1>6. \A i \in DOMAIN LinksOf[r] :
        LinksOf[r][i] # LinksOf[r][p] => air'[LinksOf[r][i]] = air[LinksOf[r][i]]
  BY <1>2, Links
<1>7. ASSUME \A i \in DOMAIN LinksOf[r] : i # p => Active(r, i)
      PROVE  Complete(r, p)'
  <2>1. \A k \in Range(LinksOf[r]) \ {l} : air[k] # "off"
    BY <1>7 DEF Range, Active
  <2>2. Template(r, l) = "complete"
    BY <2>1 DEF Template
  <2> QED
    BY <1>2, <2>2 DEF Complete
<1> QED
  BY <1>2, <1>3, <1>4, <1>5, <1>6, <1>7

\* The stages of the DFS check and of the beacons.
LEMMA BeaconsAchieve ==
  ASSUME SInv, NEW r \in Radio,
         \/ StartCac(r) \/ CacWait(r) \/ StartAp(r) \/ SetBss(r)
         \/ RefreshBeacon(r)
  PROVE  SInv'
<1> USE DEF Stage
<1>0. /\ Types /\ Achieved(r) /\ pos[r] \in DOMAIN LinksOf[r] /\ pos[r] \in Nat
      /\ DOMAIN LinksOf[r] = 1 .. Len(LinksOf[r]) /\ Len(LinksOf[r]) \in Nat
  BY Links DEF SInv, Types
<1>1. ASSUME StartCac(r) \/ CacWait(r) PROVE SInv'
  <2>1. CASE Aborts(r) \/ (Succeeds /\ ProcessExits /\ UNCHANGED iface)
    BY <1>0, <2>1, AbortAchieves, GiveUpAchieves
  <2>2. CASE ~(Aborts(r) \/ (Succeeds /\ ProcessExits /\ UNCHANGED iface))
    <3>1. /\ stage[r] \in {"cac", "cacwait"}
          /\ UNCHANGED <<iface, exists, air, stale, faults, vif>>
          /\ \/ Goto(r, "start", pos[r])
             \/ Goto(r, "cacwait", pos[r])
             \/ UNCHANGED progress
      BY <1>1, <2>2, Faults DEF StartCac, CacWait, kernel, bounds, given
    <3>2. /\ Types' /\ Local(r) /\ pos'[r] = pos[r]
          /\ stage'[r] \in {"cac", "cacwait", "start"}
      <4>1. CASE UNCHANGED progress
        BY <1>0, <3>1, <4>1 DEF Types, Local, progress
      <4>2. CASE Goto(r, "start", pos[r]) \/ Goto(r, "cacwait", pos[r])
        BY <1>0, <3>1, <4>2, GotoTypes DEF Types, Local
      <4> QED
        BY <3>1, <4>1, <4>2
    <3>3. Achieved(r)'
      BY <1>0, <3>1, <3>2 DEF Achieved, Configured, OnAir, Clean, Active, Complete,
         BeforeType, BeforeLinks, Serving
    <3> QED
      BY <3>2, <3>3, OthersKeep
  <2> QED
    BY <2>1, <2>2
<1>2. ASSUME StartAp(r) PROVE SInv'
  <2>1. CASE Aborts(r) \/ (Succeeds /\ ProcessExits /\ UNCHANGED iface)
    BY <1>0, <2>1, AbortAchieves, GiveUpAchieves
  <2>2. CASE ~(Aborts(r) \/ (Succeeds /\ ProcessExits /\ UNCHANGED iface))
    <3>1. /\ stage[r] = "start" /\ Goto(r, "bss", pos[r])
          /\ air' = [air EXCEPT ![LinksOf[r][pos[r]]] =
                       Template(r, LinksOf[r][pos[r]])]
          /\ UNCHANGED <<iface, exists, stale, faults, vif>>
      BY <1>2, <2>2, Faults DEF StartAp, Here, given
    <3>0. /\ air' \in [Link -> Beacon]
          /\ \A q \in Radio \ {r} : \A i \in DOMAIN LinksOf[q] :
               air'[LinksOf[q][i]] = air[LinksOf[q][i]]
      BY <1>0, <3>1, TemplateBeacon
    <3>2. Types' /\ Local(r) /\ stage'[r] = "bss" /\ pos'[r] = pos[r]
      BY <1>0, <3>1, <3>0, GotoTypes DEF Types, Local
    <3>3. ASSUME NEW i \in DOMAIN LinksOf[r], i <= pos[r] PROVE Active(r, i)'
      <4>1. i < pos[r] \/ i = pos[r]
        BY <1>0, <3>3
      <4>2. i < pos[r] => Active(r, i)
        BY <1>0, <3>1 DEF Achieved, OnAir
      <4> QED
        BY <1>0, <3>1, <4>1, <4>2, TemplateBeacon
    <3>4. ASSUME NEW i \in DOMAIN LinksOf[r], Len(LinksOf[r]) = 1
          PROVE  Complete(r, i)'
      <4>1. i = pos[r] /\ \A j \in DOMAIN LinksOf[r] : j = pos[r]
        BY <1>0, <3>4
      <4> QED
        BY <1>0, <3>1, <4>1, TemplateBeacon
    <3>5. OnAir(r)'
      BY <3>2, <3>3, <3>4 DEF OnAir, Serving
    <3>6. Configured(r)' /\ Clean(r)'
      BY <1>0, <3>1, <3>2 DEF Achieved, Configured, Clean, BeforeType, BeforeLinks
    <3> QED
      BY <3>2, <3>5, <3>6, OthersKeep DEF Achieved
  <2> QED
    BY <2>1, <2>2
<1>3. ASSUME SetBss(r) PROVE SInv'
  <2>1. CASE Aborts(r)
    BY <1>0, <2>1, AbortAchieves
  <2>2. CASE ~Aborts(r)
    <3>1. /\ stage[r] = "bss" /\ NextLink(r, "cac", AfterStart(r))
          /\ UNCHANGED <<iface, exists, air, stale, faults, vif>>
      BY <1>3, <2>2, Faults DEF SetBss, kernel, given
    <3>2. AfterStart(r) \in {"refresh", "vlans"}
      BY DEF AfterStart
    <3>3. /\ Types' /\ Local(r)
          /\ \/ /\ pos[r] = Len(LinksOf[r]) /\ stage'[r] = AfterStart(r)
                /\ pos'[r] = 1
             \/ stage'[r] = "cac" /\ pos'[r] = pos[r] + 1
      BY <1>0, <3>1, <3>2, NextLinkTypes DEF Types, Local
    <3>4. \A i \in DOMAIN LinksOf[r] : i <= pos[r] => Active(r, i)'
      BY <1>0, <3>1 DEF Achieved, OnAir, Active
    <3>5. ASSUME stage'[r] = "cac", pos'[r] = pos[r] + 1 PROVE OnAir(r)'
      <4>1. \A i \in DOMAIN LinksOf[r] : i < pos'[r] => i <= pos[r]
        BY <1>0, <3>5
      <4> QED
        BY <3>4, <3>5, <4>1 DEF OnAir, Serving
    <3>6. ASSUME pos[r] = Len(LinksOf[r]), stage'[r] = AfterStart(r), pos'[r] = 1
          PROVE  OnAir(r)'
      <4>1. \A i \in DOMAIN LinksOf[r] : i <= pos[r] /\ ~(i < pos'[r])
        BY <1>0, <3>6
      <4>2. CASE Len(LinksOf[r]) > 1
        <5>1. stage'[r] = "refresh"
          BY <3>6, <4>2 DEF AfterStart
        <5> QED
          BY <3>4, <4>1, <5>1 DEF OnAir, Serving
      <4>3. CASE Len(LinksOf[r]) = 1
        <5>1. stage'[r] = "vlans"
          BY <3>6, <4>3 DEF AfterStart
        <5>2. \A i \in DOMAIN LinksOf[r] : Complete(r, i)'
          BY <1>0, <3>1, <4>3 DEF Achieved, OnAir, Complete
        <5> QED
          BY <5>1, <5>2 DEF OnAir, Serving
      <4>4. \A n \in Nat : n >= 1 => n > 1 \/ n = 1
        OBVIOUS
      <4>5. Len(LinksOf[r]) \in Nat /\ Len(LinksOf[r]) >= 1
        BY Links
      <4> QED
        BY <4>2, <4>3, <4>4, <4>5
    <3>7. OnAir(r)'
      BY <3>3, <3>5, <3>6
    <3>8. Configured(r)' /\ Clean(r)'
      BY <1>0, <3>1, <3>2, <3>3
         DEF Achieved, Configured, Clean, BeforeType, BeforeLinks
    <3> QED
      BY <3>3, <3>7, <3>8, OthersKeep DEF Achieved
  <2> QED
    BY <2>1, <2>2
<1>4. ASSUME RefreshBeacon(r) PROVE SInv'
  <2>1. CASE Aborts(r)
    BY <1>0, <2>1, AbortAchieves
  <2>2. CASE ~Aborts(r)
    <3>1. /\ stage[r] = "refresh" /\ NextLink(r, "refresh", "vlans")
          /\ air' = [air EXCEPT ![LinksOf[r][pos[r]]] =
                       Template(r, LinksOf[r][pos[r]])]
          /\ UNCHANGED <<iface, exists, stale, faults, vif>>
      BY <1>4, <2>2, Faults DEF RefreshBeacon, Here, given
    <3>0. /\ air' \in [Link -> Beacon]
          /\ \A q \in Radio \ {r} : \A i \in DOMAIN LinksOf[q] :
               air'[LinksOf[q][i]] = air[LinksOf[q][i]]
      BY <1>0, <3>1, TemplateBeacon
    <3>2. /\ Types' /\ Local(r)
          /\ \/ pos[r] = Len(LinksOf[r]) /\ stage'[r] = "vlans"
             \/ stage'[r] = "refresh" /\ pos'[r] = pos[r] + 1
      BY <1>0, <3>1, <3>0, NextLinkTypes DEF Types, Local
    <3>3. \A i \in DOMAIN LinksOf[r] : Active(r, i) /\ (i < pos[r] => Complete(r, i))
      BY <1>0, <3>1 DEF Achieved, OnAir
    <3>4. \A i \in DOMAIN LinksOf[r] : Active(r, i)'
      BY <1>0, <3>1, <3>3, TemplateBeacon
    <3>5. air'[LinksOf[r][pos[r]]] = "complete"
      BY <1>0, <3>1, <3>3, TemplateBeacon DEF Complete
    <3>6. ASSUME NEW i \in DOMAIN LinksOf[r], i <= pos[r] PROVE Complete(r, i)'
      <4>1. CASE LinksOf[r][i] = LinksOf[r][pos[r]]
        BY <3>5, <4>1 DEF Complete
      <4>2. CASE LinksOf[r][i] # LinksOf[r][pos[r]]
        <5>1. i # pos[r] /\ i < pos[r]
          BY <1>0, <3>6, <4>2
        <5>2. air'[LinksOf[r][i]] = air[LinksOf[r][i]]
          BY <1>0, <3>1, <4>2, TemplateBeacon
        <5> QED
          BY <3>3, <5>1, <5>2 DEF Complete
      <4> QED
        BY <4>1, <4>2
    <3>7. ASSUME pos[r] = Len(LinksOf[r]), stage'[r] = "vlans" PROVE OnAir(r)'
      <4>1. \A i \in DOMAIN LinksOf[r] : i <= pos[r]
        BY <1>0, <3>7
      <4> QED
        BY <3>6, <3>7, <4>1 DEF OnAir, Serving
    <3>8. ASSUME stage'[r] = "refresh", pos'[r] = pos[r] + 1 PROVE OnAir(r)'
      <4>1. \A i \in DOMAIN LinksOf[r] : i < pos'[r] => i <= pos[r]
        BY <1>0, <3>8
      <4> QED
        BY <3>4, <3>6, <3>8, <4>1 DEF OnAir, Serving
    <3>9. Configured(r)' /\ Clean(r)'
      BY <1>0, <3>1, <3>2 DEF Achieved, Configured, Clean, BeforeType, BeforeLinks
    <3> QED
      BY <3>2, <3>7, <3>8, <3>9, OthersKeep DEF Achieved
  <2> QED
    BY <2>1, <2>2
<1> QED
  BY <1>1, <1>2, <1>3, <1>4

\* The rest of the start and the loop.
LEMMA LoopAchieves ==
  ASSUME SInv, NEW r \in Radio,
         FlushVlans(r) \/ InstallBaseKeys(r) \/ ReceiveEvent(r)
  PROVE  SInv'
<1> USE DEF Stage
<1>0. Types /\ Achieved(r) /\ 1 \in DOMAIN LinksOf[r]
  BY Links DEF SInv
<1>1. ASSUME FlushVlans(r) PROVE SInv'
  <2>1. /\ stage[r] = "vlans" /\ Goto(r, "keys", 1)
        /\ UNCHANGED <<iface, exists, air, vif>>
        /\ \/ Succeeds /\ stale' = [stale EXCEPT ![r] = @ \ {"vlans"}]
           \/ Fails /\ stale' = stale
           \/ Succeeds /\ r \notin vif /\ stale' = stale
    BY <1>1 DEF FlushVlans, given
  <2>2. /\ stale' \in [Radio -> SUBSET {"stations", "vlans"}]
        /\ \A q \in Radio \ {r} : stale'[q] = stale[q]
        /\ stale'[r] \subseteq stale[r]
        /\ faults' \in Nat /\ (faults' = 0 => faults = 0)
        /\ faults' = 0 /\ r \in vif => "vlans" \notin stale'[r]
    BY <1>0, <2>1, Faults DEF Types
  <2>3. Types' /\ Local(r) /\ stage'[r] = "keys"
    BY <1>0, <2>1, <2>2, GotoTypes DEF Types, Local
  <2>4. Achieved(r)'
    BY <1>0, <2>1, <2>2, <2>3 DEF Achieved, Configured, OnAir, Clean, Active,
       Complete, BeforeType, BeforeLinks, Serving
  <2> QED
    BY <2>3, <2>4, OthersKeep
<1>2. ASSUME InstallBaseKeys(r) PROVE SInv'
  <2>1. CASE Aborts(r)
    BY <1>0, <2>1, AbortAchieves
  <2>2. CASE ~Aborts(r)
    <3>1. /\ stage[r] = "keys" /\ Goto(r, "running", 1)
          /\ UNCHANGED <<iface, exists, air, stale, faults, vif>>
      BY <1>2, <2>2, Faults DEF InstallBaseKeys, kernel, given
    <3>2. Types' /\ Local(r) /\ stage'[r] = "running"
      BY <1>0, <3>1, GotoTypes DEF Types, Local
    <3>3. Achieved(r)'
      BY <1>0, <3>1, <3>2 DEF Achieved, Configured, OnAir, Clean, Active,
         Complete, BeforeType, BeforeLinks, Serving
    <3> QED
      BY <3>2, <3>3, OthersKeep
  <2> QED
    BY <2>1, <2>2
<1>3. ASSUME ReceiveEvent(r) PROVE SInv'
  <2>1. CASE Succeeds /\ ProcessExits /\ UNCHANGED iface
    BY <1>0, <2>1, GiveUpAchieves
  <2>2. CASE UNCHANGED <<given, progress, kernel, bounds>>
    BY <2>2 DEF SInv, Types, Achieved, Configured, OnAir, Clean, Active, Complete,
       given, progress, kernel, bounds
  <2> QED
    BY <1>3, <2>1, <2>2 DEF ReceiveEvent
<1> QED
  BY <1>1, <1>2, <1>3

\* The kernel, the air and the supervisor.
LEMMA EnvironmentAchieves ==
  ASSUME SInv, Environment
  PROVE  SInv'
<1>1. ASSUME RegChange \/ \E l \in Link : CacFinished(l) \/ CacAborted(l) \/ RadarPulse(l)
      PROVE  SInv'
  <2>1. UNCHANGED <<stage, pos, iface, exists, air, stale, faults, vif>>
    BY <1>1 DEF RegChange, CacFinished, CacAborted, RadarPulse, given, progress, bounds
  <2> QED
    BY <2>1 DEF SInv, Types, Achieved, Configured, OnAir, Clean, Active, Complete
<1>2. ASSUME Crash PROVE SInv'
  <2>1. Types /\ ProcessExits /\ UNCHANGED <<iface, faults>>
    BY <1>2 DEF Crash, SInv, bounds
  <2> QED
    BY <2>1, ExitAchieves DEF Types
<1>3. ASSUME Restart PROVE SInv'
  <2>1. /\ stage' = [r \in Radio |-> "regulatory"]
        /\ UNCHANGED <<pos, iface, exists, air, stale, faults>>
    BY <1>3 DEF Restart, kernel
  <2>2. Types'
    BY <2>1 DEF SInv, Types, Stage
  <2>3. ASSUME NEW r \in Radio PROVE Achieved(r)'
    BY <2>1, <2>3 DEF Achieved, Configured, OnAir, Clean, BeforeType, BeforeLinks, Serving
  <2> QED
    BY <2>2, <2>3 DEF SInv
<1> QED
  BY <1>1, <1>2, <1>3 DEF Environment

\* Every step keeps what the stages have achieved.
LEMMA AchievedInductive == SInv /\ [Next]_vars => SInv'
<1> SUFFICES ASSUME SInv, [Next]_vars PROVE SInv'
  OBVIOUS
<1>1. CASE UNCHANGED vars
  BY <1>1 DEF SInv, Types, Achieved, Configured, OnAir, Clean, Active, Complete,
     vars, given, progress, kernel, bounds
<1>2. ASSUME NEW r \in Radio, RadioStep(r) PROVE SInv'
  BY <1>2, PreparationAchieves, BeaconsAchieve, LoopAchieves DEF RadioStep
<1> QED
  BY <1>1, <1>2, EnvironmentAchieves DEF Next

\* The first start has achieved nothing yet.
LEMMA StartAchieves == Init => SInv
<1> SUFFICES ASSUME Init PROVE SInv
  OBVIOUS
<1>1. Types
  BY Links DEF Init, Types, Stage, Beacon
<1>2. ASSUME NEW r \in Radio PROVE Achieved(r)
  BY DEF Init, Achieved, Configured, OnAir, Clean, BeforeType, BeforeLinks, Serving
<1> QED
  BY <1>1, <1>2 DEF SInv

\* A radio that serves stations is completely on the air (start_radio): every
\* link beacons with the profiles of all its partners, on an AP netdev, and
\* without faults no station of an earlier process is left, nor, if it creates
\* per-station VIFs (run_offload_ap), an AP_VLAN; for every number of radios and
\* links, every order of their requests, every crash and every configuration of
\* the starts before.
THEOREM ServingIsComplete == Spec => []RunningIsComplete
<1>1. SInv => RunningIsComplete
  <2> SUFFICES ASSUME SInv, NEW r \in Radio, stage[r] = "running"
               PROVE  /\ iface[r] = "ap"
                      /\ r \in Mld => Range(LinksOf[r]) \subseteq exists
                      /\ \A l \in Range(LinksOf[r]) : air[l] = "complete"
                      /\ faults = 0 => /\ "stations" \notin stale[r]
                                       /\ r \in vif => "vlans" \notin stale[r]
    BY DEF RunningIsComplete
  <2>1. Types /\ Configured(r) /\ OnAir(r) /\ Clean(r)
    BY DEF SInv, Achieved
  <2>2. iface[r] = "ap" /\ (r \in Mld => Range(LinksOf[r]) \subseteq exists)
    BY <2>1 DEF Configured, BeforeType, BeforeLinks, Range
  <2>3. \A l \in Range(LinksOf[r]) : air[l] = "complete"
    BY <2>1 DEF OnAir, Serving, Complete, Range
  <2>4. faults = 0 => /\ "stations" \notin stale[r]
                      /\ r \in vif => "vlans" \notin stale[r]
    BY <2>1 DEF Clean, BeforeType
  <2> QED
    BY <2>2, <2>3, <2>4
<1> QED
  BY <1>1, StartAchieves, AchievedInductive, PTL DEF Spec

-----------------------------------------------------------------------------
(* The remaining types, and what a queued event says                       *)

Bounded ==
  /\ offload \subseteq Radio /\ vif \subseteq Radio /\ deaf \subseteq Radio
  /\ up \in BOOLEAN
  /\ regdom \in {"world", "pending", "set"}
  /\ exists \subseteq Link /\ radar \subseteq Link /\ moved \subseteq Link
  /\ cac \in [Dfs -> {"usable", "checking", "available", "unavailable"}]
  /\ faults \in 0 .. MaxFaults /\ events \in 0 .. MaxEvents
  /\ starts \in 1 .. MaxStarts

\* A completed switch that an event announces, or that the AP noted, took place.
Reported(e) == e \in Event /\ (e.kind = "switched" => e.link \in moved)

Told ==
  /\ inbox \in [Radio -> Seq(Event)]
  /\ \A r \in Radio : \A i \in DOMAIN inbox[r] : Reported(inbox[r][i])
  /\ noted \subseteq moved

\* The sockets are emptied, or advance by one event.
LEMMA ReadTold ==
  ASSUME Told, NEW r \in Radio, noted' \subseteq moved', moved' = moved,
         \/ inbox' = inbox
         \/ RequestAck(r)
         \/ inbox[r] # <<>> /\ inbox' = [inbox EXCEPT ![r] = Tail(@)]
  PROVE  Told'
<1>0. inbox[r] \in Seq(Event)
  BY DEF Told
<1>1. CASE inbox' = inbox
  BY <1>1 DEF Told, Reported
<1>2. ASSUME NEW q \in Seq(Event), inbox' = [inbox EXCEPT ![r] = q],
             \A i \in DOMAIN q : Reported(q[i])
      PROVE  Told'
  <2>1. inbox' \in [Radio -> Seq(Event)]
    BY <1>2 DEF Told
  <2>2. ASSUME NEW s \in Radio, NEW i \in DOMAIN inbox'[s] PROVE Reported(inbox[s][i])'
    <3>1. CASE s = r
      BY <1>2, <2>2, <3>1 DEF Told, Reported
    <3>2. CASE s # r
      BY <1>2, <2>2, <3>2 DEF Told, Reported
    <3> QED  BY <3>1, <3>2
  <2> QED  BY <2>1, <2>2 DEF Told
<1>3. CASE RequestAck(r)
  <2>1. <<>> \in Seq(Event) /\ \A i \in DOMAIN <<>> : Reported(<<>>[i])
    OBVIOUS
  <2> QED  BY <1>2, <1>3, <2>1 DEF RequestAck
<1>4. CASE inbox[r] # <<>> /\ inbox' = [inbox EXCEPT ![r] = Tail(@)]
  <2>1. Tail(inbox[r]) \in Seq(Event)
    BY <1>0, <1>4
  <2>2. ASSUME NEW i \in DOMAIN Tail(inbox[r]) PROVE Reported(Tail(inbox[r])[i])
    <3>1. i + 1 \in DOMAIN inbox[r] /\ Tail(inbox[r])[i] = inbox[r][i + 1]
      BY <1>0, <1>4, <2>2
    <3> QED  BY <3>1 DEF Told
  <2> QED  BY <1>2, <1>4, <2>1, <2>2
<1> QED  BY <1>1, <1>3, <1>4

\* The end of the process empties the sockets.
LEMMA ExitTold ==
  ASSUME ProcessExits
  PROVE  Told'
<1>1. inbox' = [r \in Radio |-> <<>>] /\ noted' = {} /\ moved' = {}
  BY DEF ProcessExits
<1>2. <<>> \in Seq(Event) /\ DOMAIN <<>> = {}
  OBVIOUS
<1>3. \A r \in Radio : inbox'[r] = <<>>
  BY <1>1
<1> QED  BY <1>1, <1>2, <1>3 DEF Told

\* An element of a concatenation is an element of one of its parts.
LEMMA Concatenated ==
  ASSUME NEW a \in Seq(Event), NEW b \in Seq(Event), NEW i \in DOMAIN (a \o b)
  PROVE  \/ i \in DOMAIN a /\ (a \o b)[i] = a[i]
         \/ i - Len(a) \in DOMAIN b /\ (a \o b)[i] = b[i - Len(a)]
OBVIOUS

\* The kernel tells every radio that has joined.
LEMMA CastTold ==
  ASSUME Told, NEW es \in Seq(Event), Multicast(es), noted' = noted, moved \subseteq moved',
         \A i \in DOMAIN es : es[i].kind = "switched" => es[i].link \in moved'
  PROVE  Told'
<1>1. \A r \in Radio : inbox'[r] = inbox[r] \/ inbox'[r] = inbox[r] \o es
  BY DEF Multicast
<1>2. \A r \in Radio : inbox[r] \in Seq(Event)
  BY DEF Told
<1>3. inbox' \in [Radio -> Seq(Event)]
  <2>1. \A r \in Radio : inbox[r] \o es \in Seq(Event)
    BY <1>2
  <2> QED  BY <1>1, <1>2, <2>1 DEF Multicast
<1>4. ASSUME NEW r \in Radio, NEW i \in DOMAIN inbox'[r] PROVE Reported(inbox[r][i])'
  <2>1. CASE i \in DOMAIN inbox[r] /\ inbox'[r][i] = inbox[r][i]
    BY <2>1 DEF Told, Reported
  <2>2. CASE \E j \in DOMAIN es : inbox'[r][i] = es[j]
    <3>1. \A j \in DOMAIN es : es[j] \in Event
      OBVIOUS
    <3> QED  BY <2>2, <3>1 DEF Reported
  <2>3. CASE inbox'[r] = inbox[r] \o es
    <3> DEFINE q == inbox[r]
    <3>1. q \in Seq(Event) /\ i \in DOMAIN (q \o es)
      BY <1>2, <1>4, <2>3
    <3> HIDE DEF q
    <3>2. \/ i \in DOMAIN q /\ (q \o es)[i] = q[i]
          \/ i - Len(q) \in DOMAIN es /\ (q \o es)[i] = es[i - Len(q)]
      BY <3>1, Concatenated
    <3> QED  BY <2>1, <2>2, <2>3, <3>2 DEF q
  <2> QED  BY <1>1, <1>4, <2>1, <2>3
<1> QED  BY <1>3, <1>4 DEF Told

\* What a notification says.
LEMMA Notices ==
  ASSUME NEW l \in Link, NEW named \in BOOLEAN,
         NEW kind \in {"finished", "aborted", "detected", "switched"}
  PROVE  /\ Notify(l, kind, named) \in Seq(Event)
         /\ DOMAIN Notify(l, kind, named) = {1}
         /\ Notify(l, kind, named)[1].kind = kind
         /\ Notify(l, kind, named)[1].link = l
BY DEF Notify, Event

\* Every event of the kernel is told as it is.
LEMMA EventsTold ==
  ASSUME Told, Environment
  PROVE  Told'
<1>1. CASE RegChange \/ Restart
  BY <1>1 DEF RegChange, Restart, kernel, Told, Reported
<1>2. CASE Crash
  BY <1>2, ExitTold DEF Crash
<1>3. ASSUME NEW l \in Link, CacFinished(l) PROVE Told'
  <2> DEFINE a == Notify(l, "finished", TRUE)
  <2>1. Multicast(a) /\ noted' = noted /\ moved' = moved
    BY <1>3 DEF CacFinished
  <2>2. a \in Seq(Event) /\ DOMAIN a = {1} /\ a[1].kind = "finished"
    BY DEF Notify, Event
  <2> HIDE DEF a
  <2> QED  BY <2>1, <2>2, CastTold
<1>4. ASSUME NEW l \in Link, CacAborted(l) PROVE Told'
  <2> DEFINE a == Notify(l, "aborted", TRUE)
  <2>1. Multicast(a) /\ noted' = noted /\ moved' = moved
    BY <1>4 DEF CacAborted
  <2>2. a \in Seq(Event) /\ DOMAIN a = {1} /\ a[1].kind = "aborted"
    BY DEF Notify, Event
  <2> HIDE DEF a
  <2> QED  BY <2>1, <2>2, CastTold
<1>5. ASSUME NEW l \in Link, RadarPulse(l) PROVE Told'
  <2>0. PICK named \in BOOLEAN :
          Multicast(Notify(l, "detected", named)
            \o (IF air[l] # "off" /\ Owner(l) \in offload
                THEN Notify(l, "switched", TRUE) ELSE <<>>))
    BY <1>5 DEF RadarPulse
  <2>1. CASE air[l] # "off" /\ Owner(l) \in offload
    <3> DEFINE a == Notify(l, "detected", named)  b == Notify(l, "switched", TRUE)
    <3>1. Multicast(a \o b) /\ noted' = noted /\ moved' = moved \cup {l}
      BY <1>5, <2>0, <2>1 DEF RadarPulse
    <3>2. /\ a \in Seq(Event) /\ b \in Seq(Event) /\ DOMAIN a = {1} /\ DOMAIN b = {1}
          /\ a[1].kind = "detected" /\ b[1].link = l
      <4>1. a \in Seq(Event) /\ DOMAIN a = {1} /\ a[1].kind = "detected"
        BY Notices
      <4>2. b \in Seq(Event) /\ DOMAIN b = {1} /\ b[1].link = l
        BY DEF Notify, Event
      <4> QED  BY <4>1, <4>2
    <3> HIDE DEF a, b
    <3>3. /\ a \o b \in Seq(Event)
          /\ \A i \in DOMAIN (a \o b) : (a \o b)[i] = a[1] \/ (a \o b)[i] = b[1]
      <4>1. a \o b \in Seq(Event)
        BY <3>2
      <4>2. ASSUME NEW i \in DOMAIN (a \o b)
            PROVE  \/ i \in DOMAIN a /\ (a \o b)[i] = a[i]
                   \/ i - Len(a) \in DOMAIN b /\ (a \o b)[i] = b[i - Len(a)]
        BY <3>2, <4>2, Concatenated
      <4> QED  BY <3>2, <4>1, <4>2
    <3>4. \A i \in DOMAIN (a \o b) :
            (a \o b)[i].kind = "switched" => (a \o b)[i].link \in moved'
      BY <3>1, <3>2, <3>3
    <3> QED  BY <3>1, <3>3, <3>4, CastTold
  <2>2. CASE ~(air[l] # "off" /\ Owner(l) \in offload)
    <3>1. /\ Multicast(Notify(l, "detected", named) \o <<>>)
          /\ noted' = noted /\ moved' = moved
      BY <1>5, <2>0, <2>2 DEF RadarPulse
    <3>2. Notify(l, "detected", named) \o <<>> = Notify(l, "detected", named)
      BY Notices
    <3> QED  BY <3>1, <3>2, Notices, CastTold
  <2> QED  BY <2>1, <2>2
<1> QED  BY <1>1, <1>2, <1>3, <1>4, <1>5 DEF Environment

\* What a step of a radio may do to the kernel's tables, to its socket and to the
\* bounds, when it does not end the process.
LEMMA StepEffects ==
  ASSUME NEW r \in Radio, RadioStep(r)
  PROVE  /\ Succeeds \/ Fails
         /\ ~ProcessExits =>
              /\ offload' = offload /\ vif' = vif /\ up' = up
              /\ deaf' = deaf \/ deaf' = deaf \cup {r}
              /\ radar' = radar /\ moved' = moved
              /\ regdom' \in {regdom, "pending"}
              /\ exists' = exists \/ exists' = exists \cup {Here(r)}
              /\ cac' = cac \/ cac' = [cac EXCEPT ![Here(r)] = "checking"]
         /\ ~ProcessExits /\ ~ReceiveEvent(r) =>
              /\ noted' = noted
              /\ \/ inbox' = inbox
                 \/ RequestAck(r)
                 \/ inbox[r] # <<>> /\ inbox' = [inbox EXCEPT ![r] = Tail(@)]
<1> USE DEF RadioStep, SetRegulatory, RegulatoryWait, SetInterface, FlushStations,
            RegisterFrames, JoinGroups, AddLink, PreCacScan, StartCac, CacWait, StartAp,
            SetBss, RefreshBeacon, FlushVlans, InstallBaseKeys, Aborts, kernel, given
<1>1. Succeeds \/ Fails
  BY DEF ReceiveEvent, Succeeds
<1>2. ASSUME ~ProcessExits
      PROVE  /\ offload' = offload /\ vif' = vif /\ up' = up
             /\ deaf' = deaf \/ deaf' = deaf \cup {r}
             /\ radar' = radar /\ moved' = moved
  BY <1>2 DEF ReceiveEvent
<1>3. ASSUME ~ProcessExits PROVE regdom' \in {regdom, "pending"}
  BY <1>3 DEF ReceiveEvent
<1>4. ASSUME ~ProcessExits PROVE exists' = exists \/ exists' = exists \cup {Here(r)}
  BY <1>4 DEF ReceiveEvent
<1>5. ASSUME ~ProcessExits PROVE cac' = cac \/ cac' = [cac EXCEPT ![Here(r)] = "checking"]
  BY <1>5 DEF ReceiveEvent
<1>6. ASSUME ~ProcessExits, ~ReceiveEvent(r)
      PROVE  /\ noted' = noted
             /\ \/ inbox' = inbox
                \/ RequestAck(r)
                \/ inbox[r] # <<>> /\ inbox' = [inbox EXCEPT ![r] = Tail(@)]
  BY <1>6
<1> QED  BY ONLY <1>1, <1>2, <1>3, <1>4, <1>5, <1>6

\* A radio that reads its socket notes only switches that took place.
LEMMA StepsTold ==
  ASSUME Told, NEW r \in Radio, RadioStep(r)
  PROVE  Told'
<1>1. ASSUME ProcessExits PROVE Told'
  BY <1>1, ExitTold
<1>2. ASSUME ~ProcessExits, ~ReceiveEvent(r) PROVE Told'
  BY <1>2, StepEffects, ReadTold DEF Told
<1>3. ASSUME ~ProcessExits, ReceiveEvent(r) PROVE Told'
  <2>1. /\ inbox[r] # <<>> /\ inbox' = [inbox EXCEPT ![r] = Tail(@)] /\ moved' = moved
        /\ \/ noted' = noted
           \/ /\ noted' = noted \cup {Head(inbox[r]).link}
              /\ Head(inbox[r]).kind = "switched"
    BY <1>3 DEF ReceiveEvent, kernel
  <2>2. Reported(Head(inbox[r]))
    <3>1. inbox[r] \in Seq(Event)
      BY DEF Told
    <3>2. 1 \in DOMAIN inbox[r] /\ Head(inbox[r]) = inbox[r][1]
      BY <2>1, <3>1
    <3> QED  BY <3>2 DEF Told
  <2>3. noted' \subseteq moved'
    BY <2>1, <2>2 DEF Told, Reported
  <2> QED  BY <2>1, <2>3, ReadTold
<1> QED  BY <1>1, <1>2, <1>3

\* The end of the process keeps the types.
LEMMA ExitBounded ==
  ASSUME Bounded, ProcessExits, Succeeds \/ Fails
  PROVE  Bounded'
<1>1. faults' \in 0 .. MaxFaults /\ events' = events /\ starts' = starts
  BY BoundsAssumption DEF Bounded, Succeeds, Fails, bounds
<1>2. cac' \in [Dfs -> {"usable", "checking", "available", "unavailable"}]
  BY DEF Bounded, ProcessExits
<1> QED  BY <1>1, <1>2 DEF Bounded, ProcessExits

\* Every step keeps the types.
LEMMA BoundedInductive ==
  ASSUME Types, Bounded, [Next]_vars
  PROVE  Bounded'
<1>1. ASSUME NEW r \in Radio, RadioStep(r) PROVE Bounded'
  <2>1. Succeeds \/ Fails
    BY <1>1, StepEffects
  <2>2. CASE ProcessExits
    BY <2>1, <2>2, ExitBounded
  <2>3. CASE ~ProcessExits
    <3>1. faults' \in 0 .. MaxFaults /\ events' = events /\ starts' = starts
      BY <2>1, BoundsAssumption DEF Bounded, Succeeds, Fails, bounds
    <3>2. Here(r) \in Link
      BY Links DEF Here, Types
    <3> QED  BY <1>1, <2>3, <3>1, <3>2, StepEffects DEF Bounded
  <2> QED  BY <2>2, <2>3
<1>2. CASE Crash
  <2>1. ProcessExits /\ Succeeds
    BY <1>2 DEF Crash, Succeeds, bounds
  <2> QED  BY <2>1, ExitBounded
<1>3. CASE Restart
  <2>1. starts' \in 1 .. MaxStarts /\ vif' \subseteq Radio
    BY <1>3, BoundsAssumption DEF Restart, Bounded
  <2> QED  BY <1>3, <2>1 DEF Restart, Bounded, kernel
<1>4. CASE RegChange
  BY <1>4 DEF RegChange, Bounded, given, bounds
<1>5. ASSUME NEW l \in Link, CacFinished(l) \/ CacAborted(l) \/ RadarPulse(l) PROVE Bounded'
  <2>1. events' \in 0 .. MaxEvents /\ faults' = faults /\ starts' = starts
    <3>1. \/ UNCHANGED bounds
          \/ events < MaxEvents /\ events' = events + 1 /\ UNCHANGED <<faults, starts>>
      BY <1>5 DEF CacFinished, CacAborted, RadarPulse
    <3> QED  BY <3>1, BoundsAssumption DEF Bounded, bounds
  <2>2. cac' \in [Dfs -> {"usable", "checking", "available", "unavailable"}]
    BY <1>5 DEF CacFinished, CacAborted, RadarPulse, Bounded
  <2>3. radar' \subseteq Link /\ moved' \subseteq Link
    BY <1>5 DEF CacFinished, CacAborted, RadarPulse, Bounded
  <2>4. UNCHANGED <<given, up, regdom, exists>>
    BY <1>5 DEF CacFinished, CacAborted, RadarPulse
  <2> QED  BY <2>1, <2>2, <2>3, <2>4 DEF Bounded, given
<1>6. CASE UNCHANGED vars
  BY <1>6 DEF vars, given, kernel, bounds, Bounded
<1> QED  BY <1>1, <1>2, <1>3, <1>4, <1>5, <1>6 DEF Next, Environment

\* Types, for every number of radios, links, faults and restarts: the loop over the
\* links stays within them, and the AP notes no channel move the driver did not make.
THEOREM StartupTypeCorrect == Spec => []TypeOK
<1>1. Init => SInv /\ Bounded /\ Told
  <2> SUFFICES ASSUME Init PROVE Bounded /\ Told
    BY StartAchieves
  <2>1. Bounded
    BY BoundsAssumption DEF Init, Bounded
  <2>2. <<>> \in Seq(Event) /\ DOMAIN <<>> = {}
    OBVIOUS
  <2>3. Told
    BY <2>2 DEF Init, Told
  <2> QED  BY <2>1, <2>3
<1>2. SInv /\ Bounded /\ Told /\ [Next]_vars => (SInv /\ Bounded /\ Told)'
  <2> SUFFICES ASSUME SInv, Bounded, Told, [Next]_vars PROVE (SInv /\ Bounded /\ Told)'
    OBVIOUS
  <2>1. SInv' /\ Bounded'
    BY AchievedInductive, BoundedInductive DEF SInv
  <2>2. CASE UNCHANGED vars
    BY <2>1, <2>2 DEF vars, kernel, Told, Reported
  <2> QED  BY <2>1, <2>2, StepsTold, EventsTold DEF Next
<1>3. SInv /\ Bounded /\ Told => TypeOK
  BY DEF SInv, Types, Beacon, Bounded, Told, TypeOK
<1> QED  BY <1>1, <1>2, <1>3, PTL DEF Spec
=============================================================================
