---------------------------- MODULE KernelProofs ----------------------------
(***************************************************************************)
(* For every finite set of stations, both kinds of radio, every number of  *)
(* faults and every capacity of the cleanup channel: the safety properties *)
(* of KernelStations.                                                      *)
(*                                                                         *)
(* The argument has three layers.  Sound holds of a station after every    *)
(* netlink command, also after one that failed or failed half done, so it  *)
(* is carried through the compositions of commands (Then, OrElse) one      *)
(* command at a time.  Settled holds once the loop is through with the     *)
(* station.  Claims ties what the cleanup worker was given, and what it    *)
(* reported, to the peers that retire; every step leaves a retiring peer   *)
(* Undisturbed in what such a claim is about.                              *)
(***************************************************************************)
EXTENDS KernelStations, FiniteSetTheorems, TLAPS

-----------------------------------------------------------------------------
(* What holds of one station between any two netlink commands              *)

\* The registry covers the kernel: a peer has its address recorded, an
\* assignment that is on the base BSS says so.
Registered(p) ==
  /\ p.kat # "none" => /\ p.phase # "None" /\ p.addr
                       /\ p.vid = 0 => p.kat = "base"
                       /\ p.vid # 0 /\ p.kat = "base" => p.onBase
  /\ p.kif => p.vid # 0
  /\ p.phase = "None" /\ p.vid # 0 => p.onBase

\* Only a retiring peer has a cleanup under way, and one of one kind.
Ticketed(p) ==
  /\ ~IsRetiring(p) => p.sid = 0 /\ p.iid = 0 /\ p.bid = 0 /\ ~p.removed
  /\ p.sid # 0 => p.vid # 0 /\ ~p.removed
  /\ p.iid # 0 => p.vid # 0 /\ p.removed
  /\ p.bid # 0 => p.vid = 0 /\ p.base # "none"
  /\ p.removed => p.vid # 0 /\ p.kat = "none"

\* What the kernel holds for a peer goes with the peer, and what the registry
\* awaits is awaited for a peer.
Attached(p) ==
  /\ p.kat = "none" => ~p.kassoc /\ p.kkey = 0
  /\ p.air # "none" => p.kassoc
  /\ p.kport => p.kassoc
  /\ p.sc # 0 => IsLive(p)
  /\ p.keyp => p.phase # "None" /\ (~IsRetiring(p) => p.kassoc)
  /\ 0 \notin p.txs

\* The engine's keys: one once associated, a candidate while message 4 is due.
Engine(p) ==
  /\ p.assoc => p.tk # 0
  /\ (p.hs = "m3") <=> (p.cand # 0)

\* The open port of a live peer; v is mode.vif.
Ported(v, p) ==
  p.kport /\ IsLive(p) => p.key # 0 /\ (v => p.kat = "vlan")

\* Without AP_VLANs the recorded key is the kernel's, unless the kernel has one
\* that it reported as refused.
Keyed(v, p) ==
  ~v => /\ p.vid = 0
        /\ ~IsRetiring(p) => p.kkey = p.key \/ p.klost

Sound(v, p) ==
  /\ p \in Peer
  /\ Registered(p) /\ Ticketed(p) /\ Attached(p) /\ Engine(p)
  /\ Ported(v, p) /\ Keyed(v, p)

Outcome == [p: Peer, f: Nat, ok: BOOLEAN]

\* The two peers agree on every field outside F.
KeepsBut(p, q, F) == \A x \in DOMAIN p \ F : q[x] = p[x]

\* A retiring peer stays as the cleanup worker finds it.
Undisturbed(p, q) ==
  /\ IsRetiring(q)
  /\ q.vid = p.vid /\ q.onBase = p.onBase /\ q.removed = p.removed
  /\ q.sid = p.sid /\ q.iid = p.iid /\ q.bid = p.bid
  /\ q.kat = p.kat /\ q.kif = p.kif

\* What every routing step keeps: the engine's association and its pending
\* notification, the assignment's id, silence on the air, and a retiring peer.
Follows(p, q) ==
  /\ q.assoc = p.assoc /\ q.nGone = p.nGone /\ q.vid = p.vid
  /\ q.air \in {p.air, "none"}
  /\ IsRetiring(p) => Undisturbed(p, q)

\* The id of a station that had none may be the first free one.
Given(p, q) == q.vid = p.vid \/ (p.vid = 0 /\ q.vid = FirstFreeVlanId)

\* What a step keeps that may make an assignment.
Advances(p, q) ==
  /\ q.assoc = p.assoc /\ q.nGone = p.nGone /\ Given(p, q)
  /\ q.air \in {p.air, "none"}
  /\ IsRetiring(p) => Undisturbed(p, q)

-----------------------------------------------------------------------------
(* Numbers not in use                                                      *)

\* A number that is not in use exists, and is not 0.
LEMMA FreshNumber ==
  ASSUME NEW used, IsFiniteSet(used)
  PROVE  /\ Fresh(used) \in Nat
         /\ Fresh(used) # 0
         /\ Fresh(used) \notin used
<1> DEFINE n == Cardinality(used) + 1
<1>1. Cardinality(used) \in Nat
  BY FS_CardinalityType
<1>2. IsFiniteSet(1 .. n) /\ Cardinality(1 .. n) = n
  <2>1. IsFiniteSet(1 .. n) /\ Cardinality(1 .. n) = IF 1 > n THEN 0 ELSE n - 1 + 1
    BY <1>1, FS_Interval
  <2> QED BY <1>1, <2>1
<1>3. \E k \in 1 .. n : k \notin used
  <2>1. SUFFICES ASSUME 1 .. n \subseteq used PROVE FALSE
    OBVIOUS
  <2>2. Cardinality(1 .. n) <= Cardinality(used)
    BY <2>1, FS_Subset
  <2> QED BY <1>1, <1>2, <2>2
<1>4. Fresh(used) \in 1 .. n /\ Fresh(used) \notin used
  BY <1>3 DEF Fresh
<1> QED BY <1>1, <1>4

-----------------------------------------------------------------------------
(* Updates of one peer                                                     *)

LEMMA VlanRetireKeeps ==
  ASSUME NEW p \in Peer, NEW when \in {"due", "wait"}
  PROVE  /\ VlanRetire(p, when) \in Peer
         /\ \A x \in DOMAIN p \ {"retire", "sretry"} :
              VlanRetire(p, when)[x] = p[x]
<1>1. CASE p.vid = 0
  BY <1>1 DEF VlanRetire
<1>2. CASE p.vid # 0
  <2>1. p.retire \in Deadlines /\ p.sretry \in Deadlines
    BY DEF Peer
  <2> DEFINE r == IF p.retire = "due" THEN p.retire ELSE when
             t == IF p.sretry = "none" THEN "due" ELSE p.sretry
  <2>2. r \in Deadlines /\ t \in Deadlines
    BY <2>1 DEF Deadlines
  <2>3. VlanRetire(p, when) = [p EXCEPT !.retire = r, !.sretry = t]
    BY <1>2 DEF VlanRetire
  <2> HIDE DEF r, t
  <2>4. [p EXCEPT !.retire = r, !.sretry = t] \in Peer
    BY <2>2 DEF Peer
  <2>5. \A x \in DOMAIN p \ {"retire", "sretry"} :
          [p EXCEPT !.retire = r, !.sretry = t][x] = p[x]
    BY DEF Peer
  <2> QED BY <2>3, <2>4, <2>5
<1> QED BY <1>1, <1>2

LEMMA VlanRetireSound ==
  ASSUME NEW v \in BOOLEAN, NEW p, Sound(v, p), NEW when \in {"due", "wait"}
  PROVE  /\ Sound(v, VlanRetire(p, when)) /\ Follows(p, VlanRetire(p, when))
         /\ \A x \in DOMAIN p \ {"retire", "sretry"} :
              VlanRetire(p, when)[x] = p[x]
<1> DEFINE q == VlanRetire(p, when)
<1>1. q \in Peer /\ \A x \in DOMAIN p \ {"retire", "sretry"} : q[x] = p[x]
  BY VlanRetireKeeps DEF Sound
<1> HIDE DEF q
<1>2. Sound(v, q)
  BY <1>1 DEF Sound, Peer, Registered, Ticketed, Attached, Engine, Ported,
     Keyed, IsLive, IsRetiring
<1>3. Follows(p, q)
  BY <1>1 DEF Sound, Peer, IsRetiring, Follows, Undisturbed
<1> QED BY <1>1, <1>2, <1>3 DEF q

LEMMA BeginRetirementSound ==
  ASSUME NEW v \in BOOLEAN, NEW p, Sound(v, p)
  PROVE  /\ Sound(v, BeginRetirement(p)) /\ Follows(p, BeginRetirement(p))
         /\ IsRetiring(BeginRetirement(p))
<1> DEFINE q == BeginRetirement(p)
<1>1. q \in Peer
  BY DEF BeginRetirement, Sound, Peer, Phases
<1>2. /\ q.phase = "Retiring" /\ ~q.keyp /\ q.sc = 0
      /\ \A x \in DOMAIN p \ {"phase", "inst", "keyp", "sc", "held"} :
           q[x] = p[x]
  BY DEF BeginRetirement, Sound, Peer
<1> HIDE DEF q
<1>3. Sound(v, q)
  BY <1>1, <1>2 DEF Sound, Peer, Registered, Ticketed, Attached, Engine,
     Ported, Keyed, IsLive, IsRetiring
<1>4. Follows(p, q) /\ IsRetiring(q)
  BY <1>1, <1>2 DEF Sound, Peer, IsRetiring, Follows, Undisturbed
<1> QED BY <1>3, <1>4 DEF q

LEMMA FollowsTransitive ==
  ASSUME NEW p, NEW q, NEW r, Follows(p, q), Follows(q, r)
  PROVE  Follows(p, r)
BY DEF Follows, Undisturbed

LEMMA RetireSound ==
  ASSUME NEW v \in BOOLEAN, NEW p, Sound(v, p), NEW when \in {"due", "wait"}
  PROVE  /\ Sound(v, Retire(p, when)) /\ Follows(p, Retire(p, when))
         /\ IsRetiring(Retire(p, when))
<1> DEFINE b == BeginRetirement(p)
<1>1. Sound(v, b) /\ Follows(p, b) /\ IsRetiring(b)
  BY BeginRetirementSound
<1> HIDE DEF b
<1>2. Sound(v, VlanRetire(b, when)) /\ Follows(b, VlanRetire(b, when))
  BY <1>1, VlanRetireSound
<1>3. IsRetiring(VlanRetire(b, when))
  BY <1>1, <1>2 DEF Follows, Undisturbed
<1> QED BY <1>1, <1>2, <1>3, FollowsTransitive DEF Retire, b

LEMMA RetireNowKeeps ==
  ASSUME NEW p \in Peer
  PROVE  KeepsBut(p, RetireNow(p), {"phase", "inst", "keyp", "sc", "held",
                                    "retire", "sretry"})
<1> DEFINE b == BeginRetirement(p)
<1>1. b \in Peer
  BY DEF BeginRetirement, Peer, Phases
<1>2. KeepsBut(p, b, {"phase", "inst", "keyp", "sc", "held"})
  BY DEF BeginRetirement, Peer, KeepsBut
<1> HIDE DEF b
<1>3. \A x \in DOMAIN b \ {"retire", "sretry"} : VlanRetire(b, "due")[x] = b[x]
  BY <1>1, VlanRetireKeeps
<1>4. DOMAIN b = DOMAIN p
  BY <1>1 DEF Peer
<1> QED BY <1>2, <1>3, <1>4 DEF KeepsBut, RetireNow, Retire, b

LEMMA NotAckedSound ==
  ASSUME NEW v \in BOOLEAN, NEW p, Sound(v, p)
  PROVE  /\ Sound(v, NotAcked(p)) /\ Follows(p, NotAcked(p))
         /\ \A x \in DOMAIN p \ {"hs", "cand", "alt", "tk"} :
              NotAcked(p)[x] = p[x]
<1> DEFINE q == NotAcked(p)
<1>1. p.tk \in Nat /\ p \in Peer
  BY DEF Sound, Peer
<1> DEFINE t == IF p.assoc THEN p.tk ELSE 0
<1>2. t \in Nat /\ (p.assoc => t = p.tk)
  BY <1>1
<1>3. q = [p EXCEPT !.hs = "idle", !.cand = 0, !.alt = 0, !.tk = t]
  BY DEF NotAcked
<1> HIDE DEF t, q
<1>4. q \in Peer
  BY <1>1, <1>2, <1>3 DEF Peer
<1>5. /\ q.hs = "idle" /\ q.cand = 0 /\ q.tk = t
      /\ \A x \in DOMAIN p \ {"hs", "cand", "alt", "tk"} : q[x] = p[x]
  BY <1>1, <1>3 DEF Peer
<1>6. Sound(v, q)
  BY <1>1, <1>2, <1>4, <1>5 DEF Sound, Peer, Registered, Ticketed, Attached,
     Engine, Ported, Keyed, IsLive, IsRetiring
<1>7. Follows(p, q)
  BY <1>1, <1>5 DEF Peer, IsRetiring, Follows, Undisturbed
<1> QED BY <1>5, <1>6, <1>7 DEF q

\* A first record, or the reserved one of an AP_VLAN, of a station unknown to
\* the kernel.
LEMMA RecordSound ==
  ASSUME NEW v \in BOOLEAN, NEW p, Sound(v, p), p.phase = "None",
         NEW ph \in {"Unassociated", "Associated"}
  PROVE  LET q == Record(p, ph)
         IN /\ Sound(v, q) /\ Follows(p, q)
            /\ q.phase = ph /\ q.addr /\ q.key = 0
            /\ \A x \in DOMAIN p \ {"phase", "addr", "key"} : q[x] = p[x]
<1> DEFINE q == Record(p, ph)
<1>1. q \in Peer
  BY DEF Record, Sound, Peer, Phases
<1>2. /\ q.phase = ph /\ q.addr /\ q.key = 0
      /\ \A x \in DOMAIN p \ {"phase", "addr", "key"} : q[x] = p[x]
  BY DEF Record, Sound, Peer
<1> HIDE DEF q
<1>3. Sound(v, q)
  BY <1>1, <1>2 DEF Sound, Peer, Registered, Ticketed, Attached, Engine,
     Ported, Keyed, IsLive, IsRetiring
<1>4. Follows(p, q)
  BY <1>1, <1>2 DEF Sound, Peer, IsRetiring, Follows, Undisturbed
<1> QED BY <1>2, <1>3, <1>4 DEF q

-----------------------------------------------------------------------------
(* Outcomes of commands                                                    *)

\* Fields without a part in Sound.  A port that is closed and an authorization
\* that is no longer pending are without harm too.
Minor == {"known", "nRemoved", "inst", "held", "retire", "sretry", "iretry",
          "ginit", "vgtk", "kgtk", "txq", "kport", "keyp"}

\* An outcome of a command on p.
Fine(v, p, o) == o \in Outcome /\ Sound(v, o.p) /\ Follows(p, o.p)

LEMMA MinorUpdate ==
  ASSUME NEW v \in BOOLEAN, NEW p, Sound(v, p), NEW q \in Peer,
         KeepsBut(p, q, Minor), q.kport => p.kport, q.keyp => p.keyp
  PROVE  Sound(v, q) /\ Follows(p, q)
<1>1. p \in Peer
  BY DEF Sound
<1>2. Sound(v, q)
  BY <1>1 DEF Sound, Peer, Registered, Ticketed, Attached, Engine,
     Ported, Keyed, IsLive, IsRetiring, KeepsBut, Minor
<1>3. Follows(p, q)
  BY <1>1 DEF Peer, IsRetiring, Follows, Undisturbed, KeepsBut, Minor
<1> QED BY <1>2, <1>3

LEMMA FollowsItself ==
  ASSUME NEW p \in Peer
  PROVE  Follows(p, p) /\ \A F : KeepsBut(p, p, F)
BY DEF Follows, Undisturbed, KeepsBut, Peer

LEMMA KeepsButTransitive ==
  ASSUME NEW p \in Peer, NEW q \in Peer, NEW r, NEW F, NEW G,
         KeepsBut(p, q, F), KeepsBut(q, r, F), F \subseteq G
  PROVE  KeepsBut(p, r, G)
<1>1. DOMAIN p = DOMAIN q
  BY DEF Peer
<1> QED BY <1>1 DEF KeepsBut

LEMMA DoneOutcomes ==
  ASSUME NEW p \in Peer
  PROVE  /\ \A o \in Done(p) : o \in Outcome /\ o.p = p /\ o.ok
         /\ \A o \in Refused(p) : o \in Outcome /\ o.p = p /\ ~o.ok
BY DEF Done, Refused, Outcome

LEMMA CommandOutcomes ==
  ASSUME NEW p \in Peer, NEW q \in Peer
  PROVE  /\ \A o \in Command(p, q) :
              o \in Outcome /\ o.p \in {p, q} /\ (o.ok => o.p = q)
         /\ \A o \in Done(q) \cup {[p |-> p, f |-> 1, ok |-> FALSE]} :
              o \in Outcome /\ o.p = (IF o.ok THEN q ELSE p)
<1> DEFINE D == [p |-> q, f |-> 0, ok |-> TRUE]
           E == [p |-> p, f |-> 1, ok |-> FALSE]
           F == [p |-> q, f |-> 1, ok |-> FALSE]
<1>1. {D, E, F} \subseteq Outcome
  BY DEF Outcome
<1>2. /\ Command(p, q) \subseteq {D, E, F}
      /\ Done(q) \cup {[p |-> p, f |-> 1, ok |-> FALSE]} \subseteq {D, E}
  BY DEF Command, Done
<1>3. /\ D.p = q /\ D.ok
      /\ E.p = p /\ ~E.ok
      /\ F.p = q /\ ~F.ok
  OBVIOUS
<1> HIDE DEF D, E, F
<1>4. \A o \in {D, E, F} : o \in Outcome /\ o.p \in {p, q} /\ (o.ok => o.p = q)
  BY <1>1, <1>3
<1>5. \A o \in {D, E} : o \in Outcome /\ o.p = (IF o.ok THEN q ELSE p)
  BY <1>1, <1>3
<1> QED BY <1>2, <1>4, <1>5

\* A command that leaves less when it reports an error than when it is done.
LEMMA PartialOutcomes ==
  ASSUME NEW p \in Peer, NEW q \in Peer, NEW l \in Peer,
         NEW o \in Done(q) \cup {[p |-> r, f |-> 1, ok |-> FALSE] : r \in {p, l}}
  PROVE  o \in Outcome /\ IF o.ok THEN o.p = q ELSE o.p \in {p, l}
<1>1. CASE o \in Done(q)
  BY <1>1, DoneOutcomes
<1>2. ASSUME NEW r \in {p, l}, o = [p |-> r, f |-> 1, ok |-> FALSE]
      PROVE  o \in Outcome /\ ~o.ok /\ o.p \in {p, l}
  BY <1>2 DEF Outcome
<1> QED BY <1>1, <1>2

\* Counting the failures of what came before.
LEMMA Charged ==
  ASSUME NEW x \in Outcome, NEW o \in Outcome
  PROVE  /\ [x EXCEPT !.f = @ + o.f] \in Outcome
         /\ [x EXCEPT !.f = @ + o.f].p = x.p
         /\ [x EXCEPT !.f = @ + o.f].ok = x.ok
BY DEF Outcome

\* An outcome that may come with an assignment.
Made(v, p, o) == o \in Outcome /\ Sound(v, o.p) /\ Advances(p, o.p)

LEMMA FineMade ==
  ASSUME NEW v, NEW p, NEW o, Fine(v, p, o)
  PROVE  Made(v, p, o)
BY DEF Fine, Made, Follows, Advances, Given

LEMMA AdvancesOn ==
  ASSUME NEW p, NEW q, NEW r, Advances(p, q), Follows(q, r)
  PROVE  Advances(p, r)
BY DEF Advances, Follows, Given, Undisturbed

LEMMA ChargedMade ==
  ASSUME NEW v \in BOOLEAN, NEW p, NEW o, Made(v, p, o),
         NEW x, Fine(v, o.p, x)
  PROVE  Made(v, p, [x EXCEPT !.f = @ + o.f])
<1>1. /\ [x EXCEPT !.f = @ + o.f] \in Outcome
      /\ [x EXCEPT !.f = @ + o.f].p = x.p
  BY Charged DEF Fine, Made
<1> QED BY <1>1, AdvancesOn DEF Fine, Made

LEMMA ChargedFine ==
  ASSUME NEW v \in BOOLEAN, NEW p, NEW o, Fine(v, p, o),
         NEW x, Fine(v, o.p, x)
  PROVE  Fine(v, p, [x EXCEPT !.f = @ + o.f])
<1>1. /\ [x EXCEPT !.f = @ + o.f] \in Outcome
      /\ [x EXCEPT !.f = @ + o.f].p = x.p
  BY Charged DEF Fine
<1> QED BY <1>1, FollowsTransitive DEF Fine

\* A command that refreshes flags without AUTHORIZED.
LEMMA FlagsFine ==
  ASSUME NEW v \in BOOLEAN, NEW p, Sound(v, p),
         NEW o \in SetStation(p, [p EXCEPT !.kport = FALSE])
  PROVE  /\ Fine(v, p, o) /\ KeepsBut(p, o.p, {"kport"})
         /\ o.ok => p.kat # "none" /\ ~o.p.kport
<1> DEFINE q == [p EXCEPT !.kport = FALSE]
<1>1. p \in Peer /\ q \in Peer /\ ~q.kport /\ KeepsBut(p, q, {"kport"})
  BY DEF Sound, Peer, KeepsBut
<1>2. Sound(v, q) /\ Follows(p, q)
  <2>1. KeepsBut(p, q, Minor) /\ q.keyp = p.keyp
    BY <1>1 DEF KeepsBut, Minor, Peer
  <2> QED BY <1>1, <2>1, MinorUpdate
<1>3. o \in Outcome /\ o.p \in {p, q} /\ (o.ok => o.p = q /\ p.kat # "none")
  <2>1. CASE p.kat = "none"
    BY <1>1, <2>1, DoneOutcomes DEF SetStation
  <2>2. CASE p.kat # "none"
    BY <1>1, <2>2, CommandOutcomes DEF SetStation
  <2> QED BY <2>1, <2>2
<1> QED BY <1>1, <1>2, <1>3, FollowsItself DEF Fine

\* A finite number of arguments, a finite number of values.
LEMMA FiniteValues ==
  ASSUME NEW S, IsFiniteSet(S), NEW f \in [S -> Nat]
  PROVE  IsFiniteSet({f[x] : x \in S})
<1> DEFINE T == {f[x] : x \in S}
<1>1. f \in Surjection(S, T)
  BY DEF Surjection
<1> HIDE DEF T
<1>2. IsFiniteSet(T)
  BY <1>1, FS_Surjection
<1> QED BY <1>2 DEF T

LEMMA FirstFreeVlanIdType ==
  ASSUME peer \in [Sta -> Peer]
  PROVE  /\ FirstFreeVlanId \in Nat /\ FirstFreeVlanId # 0
         /\ \A t \in Sta : peer[t].vid # FirstFreeVlanId
<1> DEFINE f == [t \in Sta |-> peer[t].vid]
<1>1. f \in [Sta -> Nat]
  BY DEF Peer
<1>2. IsFiniteSet({f[t] : t \in Sta})
  BY <1>1, BoundsAssumption, FiniteValues
<1>3. {f[t] : t \in Sta} = {peer[t].vid : t \in Sta}
  OBVIOUS
<1>4. IsFiniteSet({peer[t].vid : t \in Sta} \ {0})
  BY <1>2, <1>3, FS_RemoveElement
<1>5. /\ FirstFreeVlanId \in Nat /\ FirstFreeVlanId # 0
      /\ FirstFreeVlanId \notin {peer[t].vid : t \in Sta} \ {0}
  BY <1>4, FreshNumber DEF FirstFreeVlanId
<1> QED BY <1>5

\* The fields of an AP_VLAN that PrepareVlan may set.
VlanFields == {"vid", "onBase", "kif", "vgtk", "kgtk"}

LEMMA NewVlanGtkFine ==
  ASSUME NEW v \in BOOLEAN, NEW p, Sound(v, p), NEW o \in NewVlanGtk(p)
  PROVE  Fine(v, p, o) /\ KeepsBut(p, o.p, {"vgtk", "kgtk"})
<1> DEFINE q == [p EXCEPT !.kgtk = "current", !.vgtk = "current"]
           l == [p EXCEPT !.kgtk = "current"]
<1>1. p \in Peer /\ q \in Peer /\ KeepsBut(p, q, {"vgtk", "kgtk"})
  BY DEF Sound, Peer, KeepsBut, GroupKey
<1>2. l \in Peer /\ KeepsBut(p, l, {"vgtk", "kgtk"})
  BY <1>1 DEF Peer, KeepsBut, GroupKey
<1>3. o \in Outcome /\ o.p \in {p, l, q}
  <2>1. CASE p.kif
    BY <1>1, <1>2, <2>1, PartialOutcomes DEF NewVlanGtk
  <2>2. CASE ~p.kif
    BY <1>1, <2>2, DoneOutcomes DEF NewVlanGtk
  <2> QED BY <2>1, <2>2
<1> HIDE DEF q, l
<1>4. Sound(v, q) /\ Follows(p, q)
  <2>1. KeepsBut(p, q, Minor) /\ q.keyp = p.keyp /\ q.kport = p.kport
    BY <1>1 DEF KeepsBut, Minor, Peer
  <2> QED BY <1>1, <2>1, MinorUpdate
<1>5. Sound(v, l) /\ Follows(p, l)
  <2>1. KeepsBut(p, l, Minor) /\ l.keyp = p.keyp /\ l.kport = p.kport
    BY <1>1, <1>2 DEF KeepsBut, Minor, Peer
  <2> QED BY <1>2, <2>1, MinorUpdate
<1> QED BY <1>1, <1>2, <1>3, <1>4, <1>5, FollowsItself DEF Fine

-----------------------------------------------------------------------------
(* What holds of one station between any two steps of the loop             *)

\* A peer that was only reserved is not associated; on an isolating radio an
\* associated peer whose response is no longer awaited is on its AP_VLAN, or
\* had been associated before, or is about to be retired; without AP_VLANs
\* the recorded key of an authorized station is the engine's.
Settled(v, p) ==
  /\ p.phase = "Unassociated" => ~p.kassoc
  /\ v /\ IsLive(p) /\ p.sc = 0 /\ p.kassoc /\ p.kat # "vlan"
       => p.assoc \/ (p.hs = "idle" /\ p.nGone)
  /\ ~v /\ p.phase = "Authorized" /\ p.assoc /\ p.hs # "m3" /\ ~p.keyp
       => p.key = p.tk

LEMMA RetiringSettled ==
  ASSUME NEW v, NEW p, IsRetiring(p)
  PROVE  Settled(v, p)
BY DEF Settled, IsRetiring, IsLive

LEMMA UnassociatedSettled ==
  ASSUME NEW v, NEW p, ~p.kassoc, p.phase # "Authorized"
  PROVE  Settled(v, p)
BY DEF Settled

LEMMA SettledKept ==
  ASSUME NEW v, NEW p \in Peer, Settled(v, p), NEW q, NEW F,
         KeepsBut(p, q, F),
         F \cap {"phase", "kassoc", "sc", "kat", "assoc", "hs", "nGone",
                 "keyp", "key", "tk"} = {}
  PROVE  Settled(v, q)
<1>1. {"phase", "kassoc", "sc", "kat", "assoc", "hs", "nGone",
       "keyp", "key", "tk"} \subseteq DOMAIN p
  BY DEF Peer
<1>2. \A x \in {"phase", "kassoc", "sc", "kat", "assoc", "hs", "nGone",
               "keyp", "key", "tk"} : q[x] = p[x]
  BY <1>1 DEF KeepsBut
<1> QED BY <1>2 DEF Settled, IsLive

-----------------------------------------------------------------------------
(* route_outputs                                                           *)

Context == mode \in [vif: BOOLEAN, full: BOOLEAN] /\ peer \in [Sta -> Peer]

LEMMA Amended ==
  ASSUME NEW a \in Outcome, NEW r \in Peer
  PROVE  /\ [a EXCEPT !.p = r] \in Outcome
         /\ [a EXCEPT !.p = r].p = r
         /\ [a EXCEPT !.p = r].ok = a.ok
BY DEF Outcome

LEMMA RetireElse ==
  ASSUME NEW v \in BOOLEAN, NEW p, NEW a, Fine(v, p, a), ~a.ok
  PROVE  LET x == [a EXCEPT !.p = RetireNow(@)]
         IN Fine(v, p, x) /\ ~x.ok /\ IsRetiring(x.p)
<1> DEFINE r == RetireNow(a.p)
<1>1. Sound(v, r) /\ Follows(a.p, r) /\ IsRetiring(r)
  BY RetireSound DEF Fine, RetireNow
<1> HIDE DEF r
<1>2. [a EXCEPT !.p = r] \in Outcome /\ [a EXCEPT !.p = r].p = r
      /\ [a EXCEPT !.p = r].ok = a.ok
  BY <1>1, Amended DEF Fine, Sound
<1>3. Fine(v, p, [a EXCEPT !.p = r]) /\ ~[a EXCEPT !.p = r].ok
      /\ IsRetiring([a EXCEPT !.p = r].p)
  BY <1>1, <1>2, FollowsTransitive DEF Fine
<1> QED BY <1>3 DEF r

LEMMA PrepareVlanFine ==
  ASSUME Context, NEW p, Sound(mode.vif, p), ~IsRetiring(p),
         NEW o \in PrepareVlan(p)
  PROVE  Made(mode.vif, p, o) /\ KeepsBut(p, o.p, VlanFields)
<1> DEFINE v == mode.vif
           id == FirstFreeVlanId
           A == IF p.vid # 0 THEN Done(p) ELSE CreateApVlan(p, id)
           Gtk(q) == IF q.vgtk = "current" THEN Done(q) ELSE NewVlanGtk(q)
           c == [p EXCEPT !.vid = id, !.onBase = TRUE, !.kif = TRUE]
<1>1. v \in BOOLEAN /\ p \in Peer /\ id \in Nat /\ id # 0
  BY FirstFreeVlanIdType DEF Context, Sound
<1>2. ASSUME ~v PROVE Made(v, p, o) /\ KeepsBut(p, o.p, VlanFields)
  <2>1. o \in Done(p)
    BY <1>2 DEF PrepareVlan
  <2> QED BY <1>1, <2>1, DoneOutcomes, FollowsItself, FineMade DEF Fine
<1>3. ASSUME v PROVE Made(v, p, o) /\ KeepsBut(p, o.p, VlanFields)
  <2>1. PrepareVlan(p) = Then(A, Gtk)
    BY <1>3 DEF PrepareVlan
  <2>2. ASSUME NEW a \in A
        PROVE  Made(v, p, a) /\ KeepsBut(p, a.p, VlanFields)
    <3>1. CASE p.vid # 0
      BY <1>1, <3>1, DoneOutcomes, FollowsItself, FineMade DEF Fine
    <3>2. CASE p.vid = 0
      <4> HIDE DEF id
      <4>1. c \in Peer
        BY <1>1 DEF Peer
      <4>2. /\ c.vid = id /\ c.onBase /\ c.kif
            /\ KeepsBut(p, c, {"vid", "onBase", "kif"})
        BY <1>1 DEF Peer, KeepsBut
      <4>3. a \in Outcome /\ a.p \in {p, c}
        BY <1>1, <3>2, <4>1, CommandOutcomes DEF CreateApVlan
      <4> HIDE DEF c
      <4>4. Sound(v, c)
        BY <1>1, <1>3, <3>2, <4>1, <4>2 DEF Sound, Peer, Registered, Ticketed,
           Attached, Engine, Ported, Keyed, IsLive, IsRetiring, KeepsBut
      <4>5. Advances(p, c) /\ Advances(p, p)
        BY <1>1, <3>2, <4>2 DEF Advances, Given, Peer, KeepsBut, Undisturbed, id
      <4>6. KeepsBut(p, c, VlanFields)
        BY <4>2 DEF KeepsBut, VlanFields
      <4> QED BY <1>1, <4>3, <4>4, <4>5, <4>6, FollowsItself DEF Made
    <3> QED BY <3>1, <3>2
  <2>3. ASSUME NEW a \in A, NEW x \in Gtk(a.p)
        PROVE  Fine(v, a.p, x) /\ KeepsBut(a.p, x.p, VlanFields)
    <3>1. Sound(v, a.p) /\ a.p \in Peer
      BY <2>2 DEF Made, Sound
    <3>2. CASE a.p.vgtk = "current"
      BY <3>1, <3>2, DoneOutcomes, FollowsItself DEF Fine
    <3>3. CASE a.p.vgtk # "current"
      <4>1. Fine(v, a.p, x) /\ KeepsBut(a.p, x.p, {"vgtk", "kgtk"})
        BY <1>1, <3>1, <3>3, NewVlanGtkFine
      <4> QED BY <4>1 DEF KeepsBut, VlanFields
    <3> QED BY <3>2, <3>3
  <2> HIDE DEF A, Gtk
  <2>4. PICK a \in A :
          IF a.ok THEN \E x \in Gtk(a.p) : o = [x EXCEPT !.f = @ + a.f]
          ELSE o = a
    BY <2>1 DEF Then
  <2>5. CASE ~a.ok
    BY <2>2, <2>4, <2>5
  <2>6. CASE a.ok
    <3>1. PICK x \in Gtk(a.p) : o = [x EXCEPT !.f = @ + a.f]
      BY <2>4, <2>6
    <3>2. Made(v, p, o)
      BY <1>1, <2>2, <2>3, <3>1, ChargedMade
    <3>3. o.p = x.p /\ KeepsBut(p, x.p, VlanFields)
      BY <1>1, <2>2, <2>3, <3>1, Charged, KeepsButTransitive DEF Fine, Made, Sound
    <3> QED BY <3>2, <3>3
  <2> QED BY <2>5, <2>6
<1> QED BY <1>1, <1>2, <1>3

LEMMA FlagsType ==
  ASSUME NEW p \in Peer
  PROVE  [p EXCEPT !.kassoc = FALSE, !.kport = FALSE] \in Peer
BY DEF Peer

LEMMA KatType ==
  ASSUME NEW p \in Peer, NEW k \in {"none", "base", "vlan"}
  PROVE  [p EXCEPT !.kat = k] \in Peer
BY DEF Peer

LEMMA KkeyType ==
  ASSUME NEW p \in Peer, NEW n \in Nat, NEW b \in BOOLEAN
  PROVE  [p EXCEPT !.kkey = n, !.klost = b] \in Peer
BY DEF Peer

LEMMA AirType ==
  ASSUME NEW p \in Peer, NEW a \in {"none", "m1", "m3"}
  PROVE  [p EXCEPT !.air = a] \in Peer
BY DEF Peer

LEMMA KernelPeerType ==
  ASSUME NEW p \in Peer, NEW k \in {"none", "base", "vlan"}, NEW n \in Nat,
         NEW a \in {"none", "m1", "m3"}
  PROVE  /\ [p EXCEPT !.kat = k, !.kassoc = FALSE, !.kport = FALSE,
                      !.kkey = n, !.klost = FALSE] \in Peer
         /\ [p EXCEPT !.kat = k, !.kassoc = FALSE, !.kport = FALSE,
                      !.kkey = n, !.klost = FALSE, !.air = a] \in Peer
<1>1. PICK q \in Peer : q = [p EXCEPT !.kat = k]
  BY KatType
<1>2. PICK r \in Peer : r = [q EXCEPT !.kassoc = FALSE, !.kport = FALSE]
  BY FlagsType
<1>3. PICK t \in Peer : t = [r EXCEPT !.kkey = n, !.klost = FALSE]
  BY KkeyType
<1>4. [t EXCEPT !.air = a] \in Peer
  BY AirType
<1>5. t = [p EXCEPT !.kat = k, !.kassoc = FALSE, !.kport = FALSE, !.kkey = n,
                    !.klost = FALSE]
  BY <1>1, <1>2, <1>3
<1> QED BY <1>4, <1>5

LEMMA NewStationFine ==
  ASSUME NEW v \in BOOLEAN, NEW p, Sound(v, p), IsLive(p), p.addr, p.key = 0,
         p.vid # 0 => p.onBase, NEW o \in NewStation(p)
  PROVE  /\ Fine(v, p, o)
         /\ KeepsBut(p, o.p, {"kat", "kassoc", "kport", "kkey", "klost"})
         /\ p.kat = "none" => ~o.p.kassoc
<1> DEFINE q == [p EXCEPT !.kat = "base", !.kassoc = FALSE,
                          !.kport = FALSE, !.kkey = 0, !.klost = FALSE]
<1>1. p \in Peer
  BY DEF Sound
<1>q. q \in Peer
  BY <1>1, KernelPeerType
<1>2. CASE p.kat # "none"
  <2>1. o \in Refused(p)
    BY <1>2 DEF NewStation
  <2> QED BY <1>1, <1>2, <2>1, DoneOutcomes, FollowsItself DEF Fine
<1>3. CASE p.kat = "none"
  <2>2. /\ q.kat = "base" /\ ~q.kassoc /\ ~q.kport /\ q.kkey = 0
        /\ KeepsBut(p, q, {"kat", "kassoc", "kport", "kkey", "klost"})
    BY <1>1 DEF Peer, KeepsBut
  <2>3. o \in Outcome /\ o.p \in {p, q}
    BY <1>1, <1>q, <1>3, CommandOutcomes DEF NewStation
  <2> HIDE DEF q
  <2>4. Sound(v, q)
    BY <1>1, <1>q, <1>3, <2>2 DEF Sound, Peer, Registered, Ticketed, Attached,
       Engine, Ported, Keyed, IsLive, IsRetiring, KeepsBut
  <2>5. Follows(p, q)
    BY <1>1, <2>2 DEF Follows, Peer, KeepsBut, IsLive, IsRetiring
  <2>6. ~p.kassoc
    BY <1>3 DEF Sound, Attached
  <2> QED BY <1>1, <2>2, <2>3, <2>4, <2>5, <2>6, FollowsItself DEF Fine
<1> QED BY <1>2, <1>3

\* The station is published as Unassociated before it exists in the kernel.
LEMMA PublishReserved ==
  ASSUME NEW v \in BOOLEAN, NEW p, Sound(v, p), p.phase = "None",
         NEW o \in OrElse(Then(ResetStation(Record(p, "Unassociated")),
                               NewStation), RetireNow)
  PROVE  Fine(v, p, o) /\ Settled(v, o.p)
<1> DEFINE r == Record(p, "Unassociated")
           A == ResetStation(r)
           B == Then(A, NewStation)
<1>1. /\ Sound(v, r) /\ Follows(p, r)
      /\ r.phase = "Unassociated" /\ r.addr /\ r.key = 0
      /\ KeepsBut(p, r, {"phase", "addr", "key"})
  BY RecordSound DEF KeepsBut
<1>2. p \in Peer /\ r \in Peer
  BY <1>1 DEF Sound
<1>3. r.kat = "none" /\ ~r.kassoc /\ IsLive(r) /\ (r.vid # 0 => r.onBase)
  <2>1. p.kat = "none" /\ ~p.kassoc /\ (p.vid # 0 => p.onBase)
    BY DEF Sound, Registered, Attached, Peer
  <2>2. r.kat = p.kat /\ r.kassoc = p.kassoc /\ r.vid = p.vid
        /\ r.onBase = p.onBase
    BY <1>1, <1>2 DEF KeepsBut, Peer
  <2> QED BY <1>1, <2>1, <2>2 DEF IsLive
<1> HIDE DEF r
<1>4. ASSUME NEW a \in A PROVE a \in Outcome /\ a.p = r
  <2>1. A = Command(r, r)
    BY <1>3 DEF ResetStation, DelStation
  <2> QED BY <1>2, <2>1, CommandOutcomes
<1>5. ASSUME NEW x \in NewStation(r)
      PROVE  Fine(v, r, x) /\ ~x.p.kassoc /\ x.p.phase = "Unassociated"
  <2>1. /\ Fine(v, r, x) /\ ~x.p.kassoc
        /\ KeepsBut(r, x.p, {"kat", "kassoc", "kport", "kkey", "klost"})
    BY <1>1, <1>3, NewStationFine
  <2> QED BY <1>1, <1>2, <2>1 DEF KeepsBut, Peer
<1> HIDE DEF A
<1>6. ASSUME NEW b \in B
      PROVE  Fine(v, p, b) /\ ~b.p.kassoc /\ b.p.phase = "Unassociated"
  <2>1. PICK a \in A :
          IF a.ok THEN \E x \in NewStation(a.p) : b = [x EXCEPT !.f = @ + a.f]
          ELSE b = a
    BY DEF Then
  <2>2. Fine(v, p, a) /\ a.p = r
    BY <1>1, <1>4 DEF Fine
  <2>3. CASE ~a.ok
    BY <1>1, <1>3, <2>1, <2>2, <2>3
  <2>4. CASE a.ok
    <3>1. PICK x \in NewStation(r) : b = [x EXCEPT !.f = @ + a.f]
      BY <2>1, <2>2, <2>4
    <3>2. Fine(v, p, b)
      BY <1>5, <2>2, <3>1, ChargedFine
    <3>3. b.p = x.p
      BY <1>5, <2>2, <3>1, Charged DEF Fine
    <3> QED BY <1>5, <3>2, <3>3
  <2> QED BY <2>3, <2>4
<1> HIDE DEF B
<1>7. PICK b \in B : o = IF b.ok THEN b ELSE [b EXCEPT !.p = RetireNow(@)]
  BY DEF OrElse, B, A, r
<1>8. CASE b.ok
  BY <1>6, <1>7, <1>8, UnassociatedSettled
<1>9. CASE ~b.ok
  <2>1. Fine(v, p, o) /\ IsRetiring(o.p)
    BY <1>6, <1>7, <1>9, RetireElse
  <2> QED BY <2>1, RetiringSettled
<1> QED BY <1>8, <1>9

LEMMA ReservePeerFine ==
  ASSUME Context, NEW p, Sound(mode.vif, p), Settled(mode.vif, p),
         NEW o \in ReservePeer(p)
  PROVE  /\ Made(mode.vif, p, o) /\ Settled(mode.vif, o.p)
         /\ ~Reserves(p) => o.p.vid = p.vid
<1> DEFINE v == mode.vif
           A == PrepareVlan(p)
           B == OrElse(A, VlanRetireNow)
           Publish(q) ==
             OrElse(Then(ResetStation(Record(q, "Unassociated")), NewStation),
                    RetireNow)
<1>1. v \in BOOLEAN /\ p \in Peer
  BY DEF Context, Sound
<1>2. CASE ~(v /\ mode.full /\ p.phase = "None")
  <2>1. o \in Done(p)
    BY <1>2 DEF ReservePeer, Reserves
  <2> QED BY <1>1, <2>1, DoneOutcomes, FollowsItself, FineMade DEF Fine
<1>3. CASE v /\ mode.full /\ p.phase = "None"
  <2>0. Reserves(p)
    BY <1>3 DEF Reserves
  <2>1. o \in Then(B, Publish)
    BY <1>3 DEF ReservePeer, Reserves
  <2>2. ASSUME NEW a \in A
        PROVE  Made(v, p, a) /\ KeepsBut(p, a.p, VlanFields)
    BY <1>3, PrepareVlanFine DEF IsRetiring
  <2> HIDE DEF A
  <2>3. ASSUME NEW b \in B
        PROVE  /\ Made(v, p, b) /\ b.p.phase = "None"
               /\ ~b.ok => Settled(v, b.p)
    <3>1. PICK a \in A :
            b = IF a.ok THEN a ELSE [a EXCEPT !.p = VlanRetireNow(@)]
      BY DEF OrElse
    <3>0. "phase" \in DOMAIN p \ VlanFields
      BY <1>1 DEF Peer, VlanFields
    <3>2. Made(v, p, a) /\ a.p.phase = "None" /\ a.p \in Peer
      BY <1>3, <2>2, <3>0 DEF KeepsBut, Made, Sound
    <3> DEFINE r == VlanRetireNow(a.p)
    <3>3. Sound(v, r) /\ Follows(a.p, r) /\ r.phase = "None"
      <4>1. /\ Sound(v, r) /\ Follows(a.p, r)
            /\ \A x \in DOMAIN a.p \ {"retire", "sretry"} : r[x] = a.p[x]
        BY <1>1, <3>2, VlanRetireSound DEF VlanRetireNow, Made
      <4> QED BY <3>2, <4>1 DEF Peer
    <3> HIDE DEF r
    <3>4. CASE a.ok
      BY <3>1, <3>2, <3>4
    <3>5. CASE ~a.ok
      <4>1. b = [a EXCEPT !.p = r]
        BY <3>1, <3>5 DEF r
      <4>2. b \in Outcome /\ b.p = r
        BY <3>2, <3>3, <4>1, Amended DEF Made, Sound
      <4>3. Made(v, p, b)
        BY <3>2, <3>3, <4>2, AdvancesOn DEF Made
      <4>4. ~r.kassoc
        BY <3>3 DEF Sound, Registered, Attached
      <4> QED BY <3>3, <4>2, <4>3, <4>4, UnassociatedSettled
    <3> QED BY <3>4, <3>5
  <2> HIDE DEF B
  <2>4. PICK b \in B :
          IF b.ok THEN \E x \in Publish(b.p) : o = [x EXCEPT !.f = @ + b.f]
          ELSE o = b
    BY <2>1 DEF Then
  <2>5. CASE ~b.ok
    BY <2>0, <2>3, <2>4, <2>5
  <2>6. CASE b.ok
    <3>1. PICK x \in Publish(b.p) : o = [x EXCEPT !.f = @ + b.f]
      BY <2>4, <2>6
    <3>2. Fine(v, b.p, x) /\ Settled(v, x.p)
      BY <1>1, <2>3, <3>1, PublishReserved DEF Made
    <3>3. Made(v, p, o)
      BY <1>1, <2>3, <3>1, <3>2, ChargedMade
    <3>4. o.p = x.p
      BY <2>3, <3>1, <3>2, Charged DEF Fine, Made
    <3> QED BY <2>0, <3>2, <3>3, <3>4
  <2> QED BY <2>5, <2>6
<1> QED BY <1>2, <1>3

LEMMA RouteAuthFine ==
  ASSUME Context, NEW p, Sound(mode.vif, p), Settled(mode.vif, p),
         NEW o \in RouteAuth(p)
  PROVE  /\ Made(mode.vif, p, o) /\ Settled(mode.vif, o.p)
         /\ ~Reserves(p) => o.p.vid = p.vid
<1> DEFINE v == mode.vif
           A == ReservePeer(p)
           Refresh(q) ==
             IF q.phase = "Unassociated"
             THEN OrElse(PreAssocFlags(q), RetireNow) ELSE Done(q)
<1>1. v \in BOOLEAN /\ p \in Peer
  BY DEF Context, Sound
<1>2. ASSUME NEW a \in A
      PROVE  Made(v, p, a) /\ Settled(v, a.p) /\ (~Reserves(p) => a.p.vid = p.vid)
  BY ReservePeerFine
<1>3. ASSUME NEW q, Sound(v, q), Settled(v, q), NEW x \in Refresh(q)
      PROVE  Fine(v, q, x) /\ Settled(v, x.p)
  <2>1. q \in Peer
    BY <1>3 DEF Sound
  <2>2. CASE q.phase # "Unassociated"
    BY <1>3, <2>1, <2>2, DoneOutcomes, FollowsItself DEF Fine
  <2>3. CASE q.phase = "Unassociated"
    <3>1. PICK a \in PreAssocFlags(q) :
            x = IF a.ok THEN a ELSE [a EXCEPT !.p = RetireNow(@)]
      BY <1>3, <2>3 DEF OrElse
    <3>2. Fine(v, q, a) /\ KeepsBut(q, a.p, {"kport"})
      BY <1>1, <1>3, FlagsFine DEF PreAssocFlags
    <3>3. Settled(v, a.p)
      BY <1>3, <2>1, <3>2, SettledKept
    <3>4. CASE a.ok
      BY <3>1, <3>2, <3>3, <3>4
    <3>5. CASE ~a.ok
      <4>1. Fine(v, q, x) /\ IsRetiring(x.p)
        BY <1>1, <3>1, <3>2, <3>5, RetireElse
      <4> QED BY <4>1, RetiringSettled
    <3> QED BY <3>4, <3>5
  <2> QED BY <2>2, <2>3
<1> HIDE DEF A, Refresh
<1>4. PICK a \in A :
        IF a.ok THEN \E x \in Refresh(a.p) : o = [x EXCEPT !.f = @ + a.f]
        ELSE o = a
  BY DEF Then, RouteAuth, A, Refresh
<1>5. CASE ~a.ok
  BY <1>2, <1>4, <1>5
<1>6. CASE a.ok
  <2>1. PICK x \in Refresh(a.p) : o = [x EXCEPT !.f = @ + a.f]
    BY <1>4, <1>6
  <2>2. Fine(v, a.p, x) /\ Settled(v, x.p)
    BY <1>2, <1>3, <2>1 DEF Made
  <2>3. Made(v, p, o) /\ o.p = x.p
    BY <1>1, <1>2, <2>1, <2>2, ChargedMade, Charged DEF Fine, Made
  <2>4. x.p.vid = a.p.vid
    BY <2>2 DEF Fine, Follows
  <2> QED BY <1>2, <2>2, <2>3, <2>4
<1> QED BY <1>5, <1>6

-----------------------------------------------------------------------------
(* The Association Response                                                *)

LEMMA SuppressSound ==
  ASSUME NEW v \in BOOLEAN, NEW p, Sound(v, p)
  PROVE  /\ Sound(v, Suppress(p)) /\ Follows(p, Suppress(p))
         /\ KeepsBut(p, Suppress(p), {"hs", "cand", "alt", "tk", "retire",
                                       "sretry"})
<1> DEFINE n == NotAcked(p)
           q == VlanRetire(n, "due")
<1>1. /\ Sound(v, n) /\ Follows(p, n)
      /\ \A x \in DOMAIN p \ {"hs", "cand", "alt", "tk"} : n[x] = p[x]
  BY NotAckedSound
<1> HIDE DEF n
<1>2. /\ Sound(v, q) /\ Follows(n, q)
      /\ \A x \in DOMAIN n \ {"retire", "sretry"} : q[x] = n[x]
  BY <1>1, VlanRetireSound
<1> HIDE DEF q
<1>3. DOMAIN p = DOMAIN n
  BY <1>1 DEF Sound, Peer
<1>4. KeepsBut(p, q, {"hs", "cand", "alt", "tk", "retire", "sretry"})
  BY <1>1, <1>2, <1>3 DEF KeepsBut
<1> QED BY <1>1, <1>2, <1>4, FollowsTransitive DEF Suppress, n, q

LEMMA AddPeerFine ==
  ASSUME NEW v \in BOOLEAN, NEW p, Sound(v, p),
         p.phase \in {"None", "Unassociated"}, NEW o \in AddPeer(p)
  PROVE  Fine(v, p, o) /\ o.p.phase \in {"Unassociated", "Associated"}
<1>1. p \in Peer
  BY DEF Sound
<1>2. CASE p.phase = "Unassociated"
  BY <1>1, <1>2, DoneOutcomes, FollowsItself DEF Fine, AddPeer
<1>3. CASE p.phase = "None"
  <2> DEFINE r == Record(p, "Associated")
  <2>1. /\ Sound(v, r) /\ Follows(p, r)
        /\ r.phase = "Associated" /\ r.addr /\ r.key = 0
        /\ KeepsBut(p, r, {"phase", "addr", "key"})
    BY <1>3, RecordSound DEF KeepsBut
  <2>2. r \in Peer
    BY <2>1 DEF Sound
  <2>3. o \in NewStation(r)
    BY <1>3 DEF AddPeer
  <2>4. IsLive(r) /\ (r.vid # 0 => r.onBase)
    <3>1. p.vid # 0 => p.onBase
      BY <1>3 DEF Sound, Registered
    <3>2. r.vid = p.vid /\ r.onBase = p.onBase
      BY <1>1, <2>1 DEF KeepsBut, Peer
    <3> QED BY <2>1, <3>1, <3>2 DEF IsLive
  <2> HIDE DEF r
  <2>5. /\ Fine(v, r, o)
        /\ KeepsBut(r, o.p, {"kat", "kassoc", "kport", "kkey", "klost"})
    BY <2>1, <2>3, <2>4, NewStationFine
  <2>6. o.p.phase = "Associated"
    BY <2>1, <2>2, <2>5 DEF KeepsBut, Peer
  <2> QED BY <2>1, <2>5, <2>6, FollowsTransitive DEF Fine
<1> QED BY <1>2, <1>3

LEMMA AssociatePeerFine ==
  ASSUME NEW v \in BOOLEAN, NEW p, Sound(v, p), NEW o \in AssociatePeer(p)
  PROVE  Fine(v, p, o) /\ o.p.phase = p.phase
<1> DEFINE A == AddLinkStations(p)
           q == [p EXCEPT !.kassoc = TRUE]
<1>1. p \in Peer
  BY DEF Sound
<1>2. q \in Peer /\ q.kassoc /\ KeepsBut(p, q, {"kassoc"})
  BY <1>1 DEF Peer, KeepsBut
<1>3. ASSUME NEW a \in A
      PROVE  a \in Outcome /\ a.p = p /\ (a.ok => p.kat # "none")
  <2>1. CASE p.kat = "none"
    BY <1>1, <2>1, DoneOutcomes DEF AddLinkStations, SetStation
  <2>2. CASE p.kat # "none"
    BY <1>1, <2>2, CommandOutcomes DEF AddLinkStations, SetStation
  <2> QED BY <2>1, <2>2
<1>4. ASSUME p.kat # "none", NEW x \in SetAssociated(p)
      PROVE  x \in Outcome /\ x.p \in {p, q}
  BY <1>1, <1>2, <1>4, CommandOutcomes DEF SetAssociated, SetStation
<1> HIDE DEF A, q
<1>5. ASSUME p.kat # "none" PROVE Sound(v, q) /\ Follows(p, q)
  <2>1. Sound(v, q)
    BY <1>1, <1>2, <1>5 DEF Sound, Peer, Registered, Ticketed, Attached,
       Engine, Ported, Keyed, IsLive, IsRetiring, KeepsBut
  <2>2. Follows(p, q)
    BY <1>1, <1>2 DEF Follows, Undisturbed, IsRetiring, Peer, KeepsBut
  <2> QED BY <2>1, <2>2
<1>6. q.phase = p.phase
  BY <1>1, <1>2 DEF KeepsBut, Peer
<1>7. PICK a \in A : IF a.ok THEN \E x \in SetAssociated(a.p) :
                                    o = [x EXCEPT !.f = @ + a.f]
                     ELSE o = a
  BY DEF AssociatePeer, Then, A
<1>8. Fine(v, p, a)
  BY <1>1, <1>3, FollowsItself DEF Fine
<1>9. CASE ~a.ok
  BY <1>3, <1>7, <1>8, <1>9
<1>10. CASE a.ok
  <2>1. PICK x \in SetAssociated(p) : o = [x EXCEPT !.f = @ + a.f]
    BY <1>3, <1>7, <1>10
  <2>2. Fine(v, a.p, x) /\ x.p.phase = p.phase
    BY <1>1, <1>3, <1>4, <1>5, <1>6, <1>10, FollowsItself DEF Fine
  <2>3. Fine(v, p, o) /\ o.p = x.p
    BY <1>8, <2>1, <2>2, ChargedFine, Charged DEF Fine
  <2> QED BY <2>2, <2>3
<1> QED BY <1>9, <1>10

LEMMA StationFine ==
  ASSUME NEW v \in BOOLEAN, NEW p, Sound(v, p),
         p.phase \in {"None", "Unassociated"},
         NEW o \in OrElse(Then(AddPeer(p), AssociatePeer), RetireNow)
  PROVE  /\ Fine(v, p, o)
         /\ IF o.ok THEN o.p.phase \in {"Unassociated", "Associated"}
            ELSE IsRetiring(o.p)
<1> DEFINE A == AddPeer(p)
           B == Then(A, AssociatePeer)
<1>1. ASSUME NEW a \in A
      PROVE  Fine(v, p, a) /\ a.p.phase \in {"Unassociated", "Associated"}
  BY AddPeerFine
<1> HIDE DEF A
<1>2. ASSUME NEW b \in B
      PROVE  Fine(v, p, b) /\ b.p.phase \in {"Unassociated", "Associated"}
  <2>1. PICK a \in A : IF a.ok THEN \E x \in AssociatePeer(a.p) :
                                      b = [x EXCEPT !.f = @ + a.f]
                       ELSE b = a
    BY DEF Then
  <2>2. CASE ~a.ok
    BY <1>1, <2>1, <2>2
  <2>3. CASE a.ok
    <3>1. PICK x \in AssociatePeer(a.p) : b = [x EXCEPT !.f = @ + a.f]
      BY <2>1, <2>3
    <3>2. Fine(v, a.p, x) /\ x.p.phase = a.p.phase
      BY <1>1, AssociatePeerFine DEF Fine
    <3>3. Fine(v, p, b) /\ b.p = x.p
      BY <1>1, <3>1, <3>2, ChargedFine, Charged DEF Fine
    <3> QED BY <1>1, <3>2, <3>3
  <2> QED BY <2>2, <2>3
<1> HIDE DEF B
<1>3. PICK b \in B : o = IF b.ok THEN b ELSE [b EXCEPT !.p = RetireNow(@)]
  BY DEF OrElse, B, A
<1>4. CASE b.ok
  BY <1>2, <1>3, <1>4
<1>5. CASE ~b.ok
  BY <1>2, <1>3, <1>5, RetireElse
<1> QED BY <1>4, <1>5

\* A response that is not sent leaves nothing that EAPOL could go to.
LEMMA PublishAssociatedFine ==
  ASSUME Context, NEW p, Sound(mode.vif, p), Settled(mode.vif, p),
         p.phase \in {"None", "Unassociated"}, NEW o \in PublishAssociated(p)
  PROVE  /\ Made(mode.vif, p, o)
         /\ IF o.ok THEN o.p.phase = "Associated"
            ELSE \/ IsRetiring(o.p)
                 \/ ~o.p.kassoc /\ o.p.phase # "Authorized"
<1> DEFINE v == mode.vif
           Station(q) == OrElse(Then(AddPeer(q), AssociatePeer), RetireNow)
           Mark(q) == Done([q EXCEPT !.phase = "Associated"])
           P == PrepareVlan(p)
           A == OrElse(P, Suppress)
           B == Then(A, Station)
<1>1. v \in BOOLEAN /\ p \in Peer /\ ~p.kassoc /\ ~IsRetiring(p)
  BY DEF Context, Sound, Settled, Registered, Attached, IsRetiring
<1>2. ASSUME NEW a \in P PROVE Made(v, p, a) /\ KeepsBut(p, a.p, VlanFields)
  BY <1>1, PrepareVlanFine
<1> HIDE DEF P
<1>3. ASSUME NEW a \in A
      PROVE  Made(v, p, a) /\ a.p.phase = p.phase /\ ~a.p.kassoc
  <2>1. PICK b \in P : a = IF b.ok THEN b ELSE [b EXCEPT !.p = Suppress(@)]
    BY DEF OrElse
  <2>2. {"phase", "kassoc"} \subseteq DOMAIN p \ VlanFields
    BY <1>1 DEF Peer, VlanFields
  <2>3. Made(v, p, b) /\ b.p.phase = p.phase /\ ~b.p.kassoc
    BY <1>1, <1>2, <2>2 DEF KeepsBut
  <2>4. CASE b.ok
    BY <2>1, <2>3, <2>4
  <2>5. CASE ~b.ok
    <3> DEFINE r == Suppress(b.p)
    <3>1. /\ Sound(v, r) /\ Follows(b.p, r)
          /\ KeepsBut(b.p, r, {"hs", "cand", "alt", "tk", "retire",
                               "sretry"})
      BY <1>1, <2>3, SuppressSound DEF Made
    <3> HIDE DEF r
    <3>2. a = [b EXCEPT !.p = r]
      BY <2>1, <2>5 DEF r
    <3>3. a \in Outcome /\ a.p = r
      BY <2>3, <3>1, <3>2, Amended DEF Made, Sound
    <3>4. {"phase", "kassoc"} \subseteq
            DOMAIN b.p \ {"hs", "cand", "alt", "tk", "retire", "sretry"}
      BY <2>3 DEF Made, Sound, Peer
    <3>5. r.phase = b.p.phase /\ r.kassoc = b.p.kassoc
      BY <3>1, <3>4 DEF KeepsBut
    <3>6. Made(v, p, a)
      BY <2>3, <3>1, <3>3, AdvancesOn DEF Made
    <3> QED BY <2>3, <3>3, <3>5, <3>6
  <2> QED BY <2>4, <2>5
<1> HIDE DEF A
<1>4. ASSUME NEW b \in B
      PROVE  /\ Made(v, p, b)
             /\ IF b.ok THEN b.p.phase \in {"Unassociated", "Associated"}
                ELSE \/ IsRetiring(b.p)
                     \/ ~b.p.kassoc /\ b.p.phase # "Authorized"
  <2>1. PICK a \in A : IF a.ok THEN \E x \in Station(a.p) :
                                      b = [x EXCEPT !.f = @ + a.f]
                       ELSE b = a
    BY DEF Then
  <2>2. CASE ~a.ok
    BY <1>3, <2>1, <2>2
  <2>3. CASE a.ok
    <3>1. PICK x \in Station(a.p) : b = [x EXCEPT !.f = @ + a.f]
      BY <2>1, <2>3
    <3>2. /\ Fine(v, a.p, x)
          /\ IF x.ok THEN x.p.phase \in {"Unassociated", "Associated"}
             ELSE IsRetiring(x.p)
      BY <1>1, <1>3, <3>1, StationFine DEF Made
    <3>3. Made(v, p, b) /\ b.p = x.p /\ b.ok = x.ok
      BY <1>1, <1>3, <3>1, <3>2, ChargedMade, Charged DEF Fine, Made
    <3> QED BY <3>2, <3>3
  <2> QED BY <2>2, <2>3
<1> HIDE DEF B, Station
<1>5. PICK b \in B :
        IF b.ok THEN \E x \in Mark(b.p) : o = [x EXCEPT !.f = @ + b.f]
        ELSE o = b
  BY DEF PublishAssociated, Then, B, A, P, Station
<1>6. CASE ~b.ok
  BY <1>4, <1>5, <1>6
<1>7. CASE b.ok
  <2> DEFINE q == b.p
             r == [q EXCEPT !.phase = "Associated"]
  <2>1. Sound(v, q) /\ q \in Peer /\ q.phase \in {"Unassociated", "Associated"}
    BY <1>4, <1>7 DEF Made, Sound
  <2> HIDE DEF q
  <2>2. r \in Peer /\ r.phase = "Associated" /\ KeepsBut(q, r, {"phase"})
    BY <2>1 DEF Peer, Phases, KeepsBut
  <2>3. PICK x \in Done(r) : o = [x EXCEPT !.f = @ + b.f]
    BY <1>5, <1>7 DEF q
  <2>4. x \in Outcome /\ x.p = r /\ x.ok
    BY <2>2, <2>3, DoneOutcomes
  <2> HIDE DEF r
  <2>5. Sound(v, r)
    BY <1>1, <2>1, <2>2 DEF Sound, Peer, Registered, Ticketed, Attached,
       Engine, Ported, Keyed, IsLive, IsRetiring, KeepsBut
  <2>6. Follows(q, r)
    BY <2>1, <2>2 DEF Follows, IsRetiring, Peer, KeepsBut
  <2>7. Fine(v, b.p, x)
    BY <2>4, <2>5, <2>6 DEF Fine, q
  <2>8. Made(v, p, o) /\ o.p = x.p /\ o.ok = x.ok
    BY <1>1, <1>4, <2>3, <2>7, ChargedMade, Charged DEF Fine, Made
  <2> QED BY <2>2, <2>4, <2>8
<1> QED BY <1>6, <1>7

\* EAPOL has no one to go to without being held back.
Closed(p) == IsRetiring(p) \/ p.sc # 0 \/ ~p.kassoc

LEMMA SendResponseFine ==
  ASSUME NEW v \in BOOLEAN, NEW p, Sound(v, p), p.phase = "Associated",
         NEW sc \in Nat, sc # 0, NEW o \in SendResponse(p, sc)
  PROVE  Fine(v, p, o) /\ Settled(v, o.p) /\ Closed(o.p)
<1> DEFINE q == [p EXCEPT !.sc = sc, !.txs = @ \cup {sc}]
<1>1. p \in Peer /\ p.txs \subseteq Nat
  BY DEF Sound, Peer
<1>2. q \in Peer
  <2>1. p.txs \cup {sc} \in SUBSET Nat
    BY <1>1
  <2> DEFINE t == p.txs \cup {sc}
  <2>2. q = [p EXCEPT !.sc = sc, !.txs = t]
    OBVIOUS
  <2> HIDE DEF t, q
  <2> QED BY <1>1, <2>1, <2>2 DEF Peer, t
<1>3. q.sc = sc /\ q.txs = p.txs \cup {sc} /\ KeepsBut(p, q, {"sc", "txs"})
  BY <1>1 DEF Peer, KeepsBut
<1>4. PICK a \in Command(q, q) :
        o = IF a.ok THEN a ELSE [a EXCEPT !.p = RetireNow(@)]
  BY DEF SendResponse, RefreshApSettings, OrElse
<1> HIDE DEF q
<1>5. a \in Outcome /\ a.p = q
  BY <1>2, <1>4, CommandOutcomes
<1>6. Sound(v, q)
  <2>1. 0 \notin q.txs
    BY <1>3 DEF Sound, Attached
  <2> QED BY <1>1, <1>2, <1>3, <2>1 DEF Sound, Peer, Registered, Ticketed,
         Attached, Engine, Ported, Keyed, IsLive, IsRetiring, KeepsBut
<1>7. Follows(p, q) /\ q.phase = "Associated"
  BY <1>1, <1>3 DEF Follows, IsRetiring, Peer, KeepsBut
<1>8. Fine(v, p, a)
  BY <1>5, <1>6, <1>7 DEF Fine
<1>9. CASE a.ok
  <2>1. o.p = q
    BY <1>4, <1>5, <1>9
  <2> QED BY <1>3, <1>4, <1>7, <1>8, <1>9, <2>1 DEF Settled, Closed
<1>10. CASE ~a.ok
  <2>1. Fine(v, p, o) /\ IsRetiring(o.p)
    BY <1>4, <1>8, <1>10, RetireElse
  <2> QED BY <2>1, RetiringSettled DEF Closed
<1> QED BY <1>9, <1>10

LEMMA RouteAssocResponseFine ==
  ASSUME Context, NEW p, Sound(mode.vif, p), Settled(mode.vif, p),
         NEW sc \in Nat, sc # 0, NEW o \in RouteAssocResponse(p, sc)
  PROVE  /\ Made(mode.vif, p, o) /\ Settled(mode.vif, o.p) /\ Closed(o.p)
         /\ ~Publishes(p) => o.p.vid = p.vid
<1>0. ASSUME Fine(mode.vif, p, o) /\ Settled(mode.vif, o.p) /\ Closed(o.p)
      PROVE  /\ Made(mode.vif, p, o) /\ Settled(mode.vif, o.p) /\ Closed(o.p)
             /\ ~Publishes(p) => o.p.vid = p.vid
  BY <1>0, FineMade DEF Fine, Follows
<1> DEFINE v == mode.vif
           Send(q) == SendResponse(q, sc)
<1>1. v \in BOOLEAN /\ p \in Peer
  BY DEF Context, Sound
<1>2. p.phase \in Phases
  BY <1>1 DEF Peer
<1>3. ASSUME NEW q, Sound(v, q), Follows(p, q), IsRetiring(q),
             o \in Refused(Suppress(q))
      PROVE  Fine(v, p, o) /\ Settled(v, o.p) /\ Closed(o.p)
  <2> DEFINE r == Suppress(q)
  <2>1. Sound(v, r) /\ Follows(q, r)
    BY <1>1, <1>3, SuppressSound
  <2>2. IsRetiring(r)
    BY <1>3, <2>1 DEF Follows, Undisturbed
  <2>3. o \in Outcome /\ o.p = r
    BY <1>3, <2>1, DoneOutcomes DEF Sound
  <2> HIDE DEF r
  <2>4. Fine(v, p, o) /\ IsRetiring(o.p)
    BY <1>3, <2>1, <2>2, <2>3, FollowsTransitive DEF Fine
  <2> QED BY <2>4, RetiringSettled DEF Closed
<1>4. CASE IsRetiring(p)
  <2>1. o \in Refused(Suppress(p))
    BY <1>4 DEF RouteAssocResponse, IsRetiring
  <2> QED BY <1>0, <1>1, <1>3, <1>4, <2>1, FollowsItself
<1>5. CASE p.phase = "Authorized"
  <2>1. o \in Refused(Suppress(BeginRetirement(p)))
    BY <1>5 DEF RouteAssocResponse, IsRetiring
  <2> QED BY <1>0, <1>1, <1>3, <2>1, BeginRetirementSound
<1>6. CASE p.phase = "Associated"
  <2>1. o \in SendResponse(p, sc)
    BY <1>6 DEF RouteAssocResponse, IsRetiring
  <2> QED BY <1>0, <1>1, <1>6, <2>1, SendResponseFine
<1>7. CASE p.phase \in {"None", "Unassociated"}
  <2> DEFINE A == PublishAssociated(p)
  <2>0. Publishes(p)
    BY <1>7 DEF Publishes, IsRetiring
  <2>1. ASSUME NEW a \in A
        PROVE  /\ Made(v, p, a)
               /\ IF a.ok THEN a.p.phase = "Associated"
                  ELSE \/ IsRetiring(a.p)
                       \/ ~a.p.kassoc /\ a.p.phase # "Authorized"
    BY <1>7, PublishAssociatedFine
  <2> HIDE DEF A
  <2>2. o \in Then(A, Send)
    BY <1>7 DEF RouteAssocResponse, IsRetiring, A
  <2>3. PICK a \in A :
          IF a.ok THEN \E x \in Send(a.p) : o = [x EXCEPT !.f = @ + a.f]
          ELSE o = a
    BY <2>2 DEF Then
  <2>4. CASE ~a.ok
    <3>1. Made(v, p, o) /\ \/ IsRetiring(o.p)
                           \/ ~o.p.kassoc /\ o.p.phase # "Authorized"
      BY <2>1, <2>3, <2>4
    <3>2. CASE IsRetiring(o.p)
      BY <2>0, <3>1, <3>2, RetiringSettled DEF Closed
    <3>3. CASE ~o.p.kassoc /\ o.p.phase # "Authorized"
      BY <2>0, <3>1, <3>3, UnassociatedSettled DEF Closed
    <3> QED BY <3>1, <3>2, <3>3
  <2>5. CASE a.ok
    <3>1. PICK x \in SendResponse(a.p, sc) : o = [x EXCEPT !.f = @ + a.f]
      BY <2>3, <2>5
    <3>2. Fine(v, a.p, x) /\ Settled(v, x.p) /\ Closed(x.p)
      BY <1>1, <2>1, <2>5, <3>1, SendResponseFine DEF Made
    <3>3. Made(v, p, o) /\ o.p = x.p
      BY <1>1, <2>1, <3>1, <3>2, ChargedMade, Charged DEF Fine, Made
    <3> QED BY <2>0, <3>2, <3>3
  <2> QED BY <2>4, <2>5
<1> QED BY <1>2, <1>4, <1>5, <1>6, <1>7 DEF Phases, IsRetiring

-----------------------------------------------------------------------------
(* EAPOL                                                                   *)

\* What a step of the loop on one station keeps.  A frame that appears on the
\* air goes to an associated peer, on isolating radios on its AP_VLAN.
Routed(v, p, o) ==
  /\ o \in Outcome /\ Sound(v, o.p) /\ Settled(v, o.p)
  /\ o.p.nGone = p.nGone /\ o.p.vid = p.vid
  /\ IsRetiring(p) => Undisturbed(p, o.p)
  /\ o.p.air \notin {"none", p.air} => o.p.kassoc /\ (v => o.p.kat = "vlan")

\* The same of a step that may make an assignment.
Issued(v, p, o) ==
  /\ o \in Outcome /\ Sound(v, o.p) /\ Settled(v, o.p)
  /\ o.p.nGone = p.nGone /\ Given(p, o.p)
  /\ IsRetiring(p) => Undisturbed(p, o.p)
  /\ o.p.air \notin {"none", p.air} => o.p.kassoc /\ (v => o.p.kat = "vlan")

\* EAPOL that leaves at once in an initial association may leave.
Ready(v, p) ==
  v /\ ~IsRetiring(p) /\ p.sc = 0 /\ ~p.assoc /\ p.kassoc => p.kat = "vlan"

LEMMA FineRouted ==
  ASSUME NEW v, NEW p, NEW o, Fine(v, p, o), Settled(v, o.p)
  PROVE  Routed(v, p, o)
BY DEF Fine, Routed, Follows

LEMMA MadeIssued ==
  ASSUME NEW v, NEW p, NEW o, Made(v, p, o), Settled(v, o.p)
  PROVE  Issued(v, p, o)
BY DEF Made, Issued, Advances

LEMMA ChargedIssued ==
  ASSUME NEW v \in BOOLEAN, NEW p, NEW o, Made(v, p, o),
         NEW x, Routed(v, o.p, x)
  PROVE  Issued(v, p, [x EXCEPT !.f = @ + o.f])
<1>1. /\ [x EXCEPT !.f = @ + o.f] \in Outcome
      /\ [x EXCEPT !.f = @ + o.f].p = x.p
  BY Charged DEF Made, Routed
<1> QED BY <1>1 DEF Made, Routed, Issued, Advances, Given, Undisturbed

LEMMA ChargedRouted ==
  ASSUME NEW v \in BOOLEAN, NEW p, NEW o, Fine(v, p, o),
         NEW x, Routed(v, o.p, x)
  PROVE  Routed(v, p, [x EXCEPT !.f = @ + o.f])
<1>1. /\ [x EXCEPT !.f = @ + o.f] \in Outcome
      /\ [x EXCEPT !.f = @ + o.f].p = x.p
  BY Charged DEF Fine, Routed
<1> QED BY <1>1 DEF Fine, Routed, Follows, Undisturbed

LEMMA RouteEapolRouted ==
  ASSUME NEW v \in BOOLEAN, NEW p, Sound(v, p), Settled(v, p), Ready(v, p),
         NEW m \in {"m1", "m3"}, NEW o \in RouteEapol(p, m)
  PROVE  Routed(v, p, o)
<1>1. p \in Peer
  BY DEF Sound
<1>2. ASSUME NEW q \in Peer, KeepsBut(p, q, {"held", "txq"}), o \in Done(q)
      PROVE  Routed(v, p, o)
  <2>1. KeepsBut(p, q, Minor) /\ q.kport = p.kport /\ q.keyp = p.keyp
    BY <1>1, <1>2 DEF KeepsBut, Minor, Peer
  <2>2. Sound(v, q) /\ Follows(p, q)
    BY <1>1, <2>1, MinorUpdate
  <2>3. Settled(v, q)
    BY <1>1, <1>2, SettledKept
  <2>4. o \in Outcome /\ o.p = q
    BY <1>2, DoneOutcomes
  <2> QED BY <2>2, <2>3, <2>4, FineRouted DEF Fine
<1>3. CASE p.sc # 0
  <2>1. o \in Done([p EXCEPT !.held = m])
    BY <1>3 DEF RouteEapol
  <2>2. /\ [p EXCEPT !.held = m] \in Peer
        /\ KeepsBut(p, [p EXCEPT !.held = m], {"held", "txq"})
    BY <1>1 DEF Peer, KeepsBut
  <2> QED BY <1>2, <2>1, <2>2
<1>4. CASE p.sc = 0 /\ IsRetiring(p)
  <2>1. o \in Done(p)
    BY <1>4 DEF RouteEapol
  <2> QED BY <1>1, <1>2, <2>1, FollowsItself
<1>5. CASE p.sc = 0 /\ ~IsRetiring(p) /\ p.assoc
  <2>1. o \in Done([p EXCEPT !.txq = m]) \cup Done(p)
    BY <1>5 DEF RouteEapol
  <2>2. /\ [p EXCEPT !.txq = m] \in Peer
        /\ KeepsBut(p, [p EXCEPT !.txq = m], {"held", "txq"})
    BY <1>1 DEF Peer, KeepsBut
  <2> QED BY <1>1, <1>2, <2>1, <2>2, FollowsItself
<1>6. CASE p.sc = 0 /\ ~IsRetiring(p) /\ ~p.assoc
  <2>1. PICK a \in SubmitEapol(p, m) :
          o = IF a.ok THEN a ELSE [a EXCEPT !.p = RetireNow(@)]
    BY <1>6 DEF RouteEapol, OrElse
  <2> DEFINE q == [p EXCEPT !.air = m, !.txq = "none"]
  <2>2. q \in Peer /\ q.air = m /\ KeepsBut(p, q, {"air", "txq"})
    BY <1>1 DEF Peer, KeepsBut
  <2>3. /\ a \in Outcome /\ a.p \in {p, q} /\ (a.ok => a.p = q)
        /\ a.p = q => p.kassoc
    <3>1. CASE p.kassoc
      <4>1. a \in Command(p, q)
        BY <2>1, <3>1 DEF SubmitEapol
      <4> HIDE DEF q
      <4> QED BY <1>1, <2>2, <3>1, <4>1, CommandOutcomes
    <3>2. CASE ~p.kassoc
      <4>1. a \in Outcome /\ a.p = p /\ ~a.ok
        BY <1>1, <2>1, <3>2, DoneOutcomes DEF SubmitEapol
      <4>2. p.air = "none"
        BY <3>2 DEF Sound, Attached
      <4> HIDE DEF q
      <4> QED BY <2>2, <4>1, <4>2
    <3> QED BY <3>1, <3>2
  <2> HIDE DEF q
  <2>4. ASSUME a.p = q
        PROVE  /\ q.kassoc /\ q.nGone = p.nGone /\ q.vid = p.vid /\ (v => q.kat = "vlan")
               /\ Sound(v, q) /\ Settled(v, q)
    <3>1. /\ q.kassoc /\ q.kat = p.kat /\ q.nGone = p.nGone
          /\ q.vid = p.vid /\ p.kassoc
      BY <1>1, <2>2, <2>3, <2>4 DEF KeepsBut, Peer
    <3>2. Sound(v, q)
      BY <1>1, <2>2, <3>1 DEF Sound, Peer, Registered, Ticketed,
         Attached, Engine, Ported, Keyed, IsLive, IsRetiring, KeepsBut
    <3>3. Settled(v, q)
      BY <1>1, <2>2, SettledKept
    <3>4. v => q.kat = "vlan"
      BY <1>6, <3>1 DEF Ready
    <3> QED BY <3>1, <3>2, <3>3, <3>4
  <2>5. CASE a.p = p /\ ~a.ok
    <3>1. Fine(v, p, a)
      BY <1>1, <2>3, <2>5, FollowsItself DEF Fine
    <3>2. Fine(v, p, o) /\ IsRetiring(o.p)
      BY <2>1, <2>5, <3>1, RetireElse
    <3> QED BY <3>2, RetiringSettled, FineRouted
  <2>6. CASE a.p = q /\ ~a.ok
    <3>1. Fine(v, q, a)
      BY <2>2, <2>3, <2>4, <2>6, FollowsItself DEF Fine
    <3>2. Fine(v, q, o) /\ IsRetiring(o.p)
      BY <2>1, <2>6, <3>1, RetireElse
    <3>3. o.p = RetireNow(q)
      <4>1. o = [a EXCEPT !.p = RetireNow(a.p)]
        BY <2>1, <2>6
      <4> QED BY <2>3, <2>6, <4>1 DEF Outcome
    <3>4. o.p.kassoc = q.kassoc /\ o.p.kat = q.kat /\ o.p.nGone = q.nGone
      BY <2>2, <3>3, RetireNowKeeps DEF KeepsBut, Peer
    <3> QED BY <1>6, <2>4, <2>6, <3>2, <3>4, RetiringSettled DEF Routed, Fine, Follows
  <2>7. CASE a.ok
    <3>1. o \in Outcome /\ o.p = q
      BY <2>1, <2>3, <2>7
    <3> QED BY <1>6, <2>3, <2>4, <2>7, <3>1 DEF Routed
  <2> QED BY <2>3, <2>5, <2>6, <2>7
<1> QED BY <1>1, <1>3, <1>4, <1>5, <1>6 DEF Peer

LEMMA AndEapolRouted ==
  ASSUME Context, NEW p, Sound(mode.vif, p), Settled(mode.vif, p),
         NEW sc \in Nat, sc # 0, NEW m \in {"m1", "m3"},
         NEW o \in AndEapol(RouteAssocResponse(p, sc), m)
  PROVE  Issued(mode.vif, p, o) /\ (~Publishes(p) => o.p.vid = p.vid)
<1> DEFINE v == mode.vif
<1>1. v \in BOOLEAN
  BY DEF Context
<1>0. PICK a \in RouteAssocResponse(p, sc) :
        \E x \in RouteEapol(a.p, m) : o = [x EXCEPT !.f = @ + a.f]
  BY DEF AndEapol
<1>2. PICK x \in RouteEapol(a.p, m) : o = [x EXCEPT !.f = @ + a.f]
  BY <1>0
<1>3. /\ Made(v, p, a) /\ Settled(v, a.p) /\ Closed(a.p)
      /\ ~Publishes(p) => a.p.vid = p.vid
  BY <1>2, RouteAssocResponseFine
<1>4. Ready(v, a.p) /\ Sound(v, a.p)
  BY <1>3 DEF Closed, Ready, Made
<1>5. Routed(v, a.p, x)
  BY <1>1, <1>2, <1>3, <1>4, RouteEapolRouted
<1>6. o.p = x.p /\ x.p.vid = a.p.vid
  BY <1>2, <1>3, <1>5, Charged DEF Made, Routed
<1> QED BY <1>1, <1>2, <1>3, <1>5, <1>6, ChargedIssued

-----------------------------------------------------------------------------
(* The TX status of the response                                           *)

\* What the move of a station to its AP_VLAN changes.
BindFields == {"kkey", "klost", "kat", "onBase", "kport", "ginit", "vgtk", "kgtk"}

\* An outcome on the way to the AP_VLAN.
Moving(p, o) == Fine(TRUE, p, o) /\ KeepsBut(p, o.p, BindFields)

LEMMA ChargedMoving ==
  ASSUME NEW p \in Peer, NEW o, Moving(p, o), NEW x, Moving(o.p, x)
  PROVE  LET y == [x EXCEPT !.f = @ + o.f]
         IN Moving(p, y) /\ y.p = x.p /\ y.ok = x.ok
<1> DEFINE y == [x EXCEPT !.f = @ + o.f]
<1>1. y.p = x.p /\ y.ok = x.ok
  BY Charged DEF Moving, Fine
<1>2. Fine(TRUE, p, y)
  BY ChargedFine DEF Moving
<1>3. KeepsBut(p, x.p, BindFields)
  BY KeepsButTransitive DEF Moving, Fine, Sound
<1> QED BY <1>1, <1>2, <1>3 DEF Moving

LEMMA DelPairwiseKeyMoving ==
  ASSUME NEW p, Sound(TRUE, p), NEW o \in DelPairwiseKey(p)
  PROVE  Moving(p, o) /\ o.p.kat = p.kat
<1> DEFINE q == [p EXCEPT !.kkey = 0, !.klost = FALSE]
<1>1. p \in Peer
  BY DEF Sound
<1>2. q \in Peer /\ q.kkey = 0 /\ KeepsBut(p, q, {"kkey", "klost"})
  BY <1>1 DEF Peer, KeepsBut
<1>3. o \in Outcome /\ o.p \in {p, q}
  BY <1>1, <1>2, CommandOutcomes DEF DelPairwiseKey
<1> HIDE DEF q
<1>4. Sound(TRUE, q) /\ q.kat = p.kat
  BY <1>1, <1>2 DEF Sound, Peer, Registered, Ticketed, Attached, Engine,
     Ported, Keyed, IsLive, IsRetiring, KeepsBut
<1>5. Follows(p, q)
  BY <1>1, <1>2 DEF Follows, Undisturbed, IsRetiring, Peer, KeepsBut
<1>6. KeepsBut(p, q, BindFields)
  BY <1>2 DEF KeepsBut, BindFields
<1> QED BY <1>1, <1>3, <1>4, <1>5, <1>6, FollowsItself DEF Moving, Fine

LEMMA SetStaVlanMoving ==
  ASSUME NEW p, Sound(TRUE, p), IsLive(p), p.vid # 0, NEW o \in SetStaVlan(p)
  PROVE  Moving(p, o) /\ (o.ok => o.p.kat = "vlan")
<1> DEFINE q == [p EXCEPT !.kat = "vlan"]
<1>1. p \in Peer
  BY DEF Sound
<1>2. q \in Peer /\ q.kat = "vlan" /\ KeepsBut(p, q, {"kat"})
  BY <1>1 DEF Peer, KeepsBut
<1>3. CASE p.kat = "none"
  <2>1. o \in Outcome /\ o.p = p /\ ~o.ok
    BY <1>1, <1>3, DoneOutcomes DEF SetStaVlan, SetStation
  <2> QED BY <1>1, <2>1, FollowsItself DEF Moving, Fine
<1>4. CASE p.kat # "none"
  <2>1. o \in Outcome /\ o.p \in {p, q} /\ (o.ok => o.p = q)
    BY <1>1, <1>2, <1>4, CommandOutcomes DEF SetStaVlan, SetStation
  <2> HIDE DEF q
  <2>2. Sound(TRUE, q)
    BY <1>1, <1>2, <1>4 DEF Sound, Peer, Registered, Ticketed, Attached,
       Engine, Ported, Keyed, IsLive, IsRetiring, KeepsBut
  <2>3. Follows(p, q)
    BY <1>1, <1>2 DEF Follows, IsLive, IsRetiring, Peer, KeepsBut
  <2>4. KeepsBut(p, q, BindFields)
    BY <1>2 DEF KeepsBut, BindFields
  <2> QED BY <1>1, <1>2, <2>1, <2>2, <2>3, <2>4, FollowsItself
          DEF Moving, Fine
<1> QED BY <1>3, <1>4

LEMMA BoundMoving ==
  ASSUME NEW p, Sound(TRUE, p), IsLive(p), p.kat = "vlan",
         NEW o \in Done([p EXCEPT !.onBase = FALSE])
  PROVE  Moving(p, o) /\ o.p.kat = "vlan"
<1> DEFINE q == [p EXCEPT !.onBase = FALSE]
<1>1. p \in Peer
  BY DEF Sound
<1>2. q \in Peer /\ ~q.onBase /\ KeepsBut(p, q, {"onBase"})
  BY <1>1 DEF Peer, KeepsBut
<1>3. o \in Outcome /\ o.p = q
  BY <1>2, DoneOutcomes
<1> HIDE DEF q
<1>4. Sound(TRUE, q) /\ q.kat = "vlan"
  BY <1>1, <1>2 DEF Sound, Peer, Registered, Ticketed, Attached, Engine,
     Ported, Keyed, IsLive, IsRetiring, KeepsBut
<1>5. Follows(p, q)
  BY <1>1, <1>2 DEF Follows, IsLive, IsRetiring, Peer, KeepsBut
<1>6. KeepsBut(p, q, BindFields)
  BY <1>2 DEF KeepsBut, BindFields
<1> QED BY <1>3, <1>4, <1>5, <1>6 DEF Moving, Fine

LEMMA FlagsMoving ==
  ASSUME NEW p, Sound(TRUE, p),
         NEW o \in SetStation(p, [p EXCEPT !.kport = FALSE])
  PROVE  Moving(p, o) /\ o.p.kat = p.kat
<1>1. Fine(TRUE, p, o) /\ KeepsBut(p, o.p, {"kport"})
  BY FlagsFine
<1>2. KeepsBut(p, o.p, BindFields) /\ o.p.kat = p.kat
  BY <1>1 DEF KeepsBut, BindFields, Sound, Peer
<1> QED BY <1>1, <1>2 DEF Moving

LEMMA NewGtkType ==
  ASSUME NEW p \in Peer
  PROVE  NewGtk(p) \in Peer /\ KeepsBut(p, NewGtk(p), {"vgtk", "kgtk"})
<1> DEFINE Age(k) == IF k = "none" THEN k ELSE "stale"
           a == Age(p.vgtk)
           b == Age(p.kgtk)
<1>1. a \in GroupKey /\ b \in GroupKey
  BY DEF GroupKey, Peer
<1>2. NewGtk(p) = [p EXCEPT !.vgtk = a, !.kgtk = b]
  BY DEF NewGtk
<1> HIDE DEF a, b
<1>3. [p EXCEPT !.vgtk = a, !.kgtk = b] \in Peer
  BY <1>1 DEF Peer
<1>4. KeepsBut(p, [p EXCEPT !.vgtk = a, !.kgtk = b], {"vgtk", "kgtk"})
  BY DEF KeepsBut, Peer
<1> QED BY <1>2, <1>3, <1>4

LEMMA InitializeVlanGroupMoving ==
  ASSUME NEW p, Sound(TRUE, p), NEW o \in InitializeVlanGroup(p)
  PROVE  Moving(p, o) /\ o.p.kat = p.kat
<1> DEFINE q == IF p.ginit THEN p ELSE [NewGtk(p) EXCEPT !.ginit = TRUE]
<1>1. p \in Peer
  BY DEF Sound
<1>2. q \in Peer /\ KeepsBut(p, q, {"ginit", "vgtk", "kgtk"})
  <2>1. PICK n \in Peer : n = NewGtk(p) /\ KeepsBut(p, n, {"vgtk", "kgtk"})
    BY <1>1, NewGtkType
  <2>2. [n EXCEPT !.ginit = TRUE] \in Peer
    BY DEF Peer
  <2>3. KeepsBut(p, [n EXCEPT !.ginit = TRUE], {"ginit", "vgtk", "kgtk"})
    BY <1>1, <2>1 DEF KeepsBut, Peer
  <2> QED BY <1>1, <2>1, <2>2, <2>3, FollowsItself
<1>3. o \in NewVlanGtk(q)
  BY DEF InitializeVlanGroup
<1> HIDE DEF q
<1>4. KeepsBut(p, q, Minor) /\ q.keyp = p.keyp /\ q.kport = p.kport
  BY <1>1, <1>2 DEF KeepsBut, Minor, Peer
<1>5. Sound(TRUE, q) /\ Follows(p, q)
  BY <1>1, <1>2, <1>4, MinorUpdate
<1>6. Fine(TRUE, q, o) /\ KeepsBut(q, o.p, {"vgtk", "kgtk"})
  BY <1>3, <1>5, NewVlanGtkFine
<1>7. DOMAIN p = DOMAIN q /\ "kat" \in DOMAIN p
  BY <1>1, <1>2 DEF Peer
<1>8. KeepsBut(p, o.p, BindFields) /\ o.p.kat = p.kat
  BY <1>2, <1>6, <1>7 DEF KeepsBut, BindFields
<1> QED BY <1>5, <1>6, <1>8, FollowsTransitive DEF Moving, Fine

LEMMA BindVlanMoving ==
  ASSUME NEW p, Sound(TRUE, p), IsLive(p), p.vid # 0, NEW z \in BindVlan(p)
  PROVE  Moving(p, z) /\ (z.ok => z.p.kat = "vlan")
<1> DEFINE Bound(q) == Done([q EXCEPT !.onBase = FALSE])
           S0 == EnableMulticastToUnicast(p)
           S1 == Then(S0, DelPairwiseKey)
           S2 == Then(S1, SetStaVlan)
           S3 == Then(S2, Bound)
           S4 == Then(S3, RefreshFlags)
           S5 == Then(S4, DelPairwiseKey)
           S6 == Then(S5, ClearAuthorized)
           S7 == Then(S6, InitializeVlanGroup)
<1>1. p \in Peer
  BY DEF Sound
<1>2. ASSUME NEW a, Moving(p, a)
      PROVE  Sound(TRUE, a.p) /\ IsLive(a.p) /\ a.p.vid # 0
  <2>1. {"phase", "vid"} \subseteq DOMAIN p \ BindFields
    BY <1>1 DEF Peer, BindFields
  <2> QED BY <1>2, <2>1 DEF Moving, Fine, KeepsBut, IsLive
<1>3. ASSUME NEW o \in S0 PROVE Moving(p, o)
  <2>1. o \in Outcome /\ o.p = p
    BY <1>1, CommandOutcomes DEF EnableMulticastToUnicast
  <2> QED BY <1>1, <2>1, FollowsItself DEF Moving, Fine
<1> HIDE DEF S0
<1>4. ASSUME NEW o \in S1 PROVE Moving(p, o)
  <2>1. PICK a \in S0 :
          IF a.ok THEN \E x \in DelPairwiseKey(a.p) : o = [x EXCEPT !.f = @ + a.f]
          ELSE o = a
    BY DEF Then
  <2>2. Moving(p, a)
    BY <1>3
  <2>3. CASE ~a.ok
    BY <2>1, <2>2, <2>3
  <2>4. CASE a.ok
    <3>1. PICK x \in DelPairwiseKey(a.p) : o = [x EXCEPT !.f = @ + a.f]
      BY <2>1, <2>4
    <3>2. Moving(a.p, x)
      BY <1>2, <1>3, <2>2, <2>4, <3>1, DelPairwiseKeyMoving
    <3> QED BY <1>1, <2>2, <3>1, <3>2, ChargedMoving
  <2> QED BY <2>3, <2>4
<1> HIDE DEF S1
<1>5. ASSUME NEW o \in S2 PROVE Moving(p, o) /\ (o.ok => o.p.kat = "vlan")
  <2>1. PICK a \in S1 :
          IF a.ok THEN \E x \in SetStaVlan(a.p) : o = [x EXCEPT !.f = @ + a.f]
          ELSE o = a
    BY DEF Then
  <2>2. Moving(p, a)
    BY <1>4
  <2>3. CASE ~a.ok
    BY <2>1, <2>2, <2>3
  <2>4. CASE a.ok
    <3>1. PICK x \in SetStaVlan(a.p) : o = [x EXCEPT !.f = @ + a.f]
      BY <2>1, <2>4
    <3>2. Moving(a.p, x) /\ (x.ok => x.p.kat = "vlan")
      BY <1>2, <1>4, <2>2, <2>4, <3>1, SetStaVlanMoving
    <3> QED BY <1>1, <2>2, <3>1, <3>2, ChargedMoving
  <2> QED BY <2>3, <2>4
<1> HIDE DEF S2
<1>6. ASSUME NEW o \in S3 PROVE Moving(p, o) /\ (o.ok => o.p.kat = "vlan")
  <2>1. PICK a \in S2 :
          IF a.ok THEN \E x \in Bound(a.p) : o = [x EXCEPT !.f = @ + a.f]
          ELSE o = a
    BY DEF Then
  <2>2. Moving(p, a)
    BY <1>5
  <2>3. CASE ~a.ok
    BY <2>1, <2>2, <2>3
  <2>4. CASE a.ok
    <3>1. PICK x \in Bound(a.p) : o = [x EXCEPT !.f = @ + a.f]
      BY <2>1, <2>4
    <3>2. Moving(a.p, x) /\ (x.ok => x.p.kat = "vlan")
      BY <1>2, <1>5, <2>2, <2>4, <3>1, BoundMoving
    <3> QED BY <1>1, <2>2, <3>1, <3>2, ChargedMoving
  <2> QED BY <2>3, <2>4
<1> HIDE DEF S3
<1>7. ASSUME NEW o \in S4 PROVE Moving(p, o) /\ (o.ok => o.p.kat = "vlan")
  <2>1. PICK a \in S3 :
          IF a.ok THEN \E x \in RefreshFlags(a.p) : o = [x EXCEPT !.f = @ + a.f]
          ELSE o = a
    BY DEF Then
  <2>2. Moving(p, a)
    BY <1>6
  <2>3. CASE ~a.ok
    BY <2>1, <2>2, <2>3
  <2>4. CASE a.ok
    <3>1. PICK x \in RefreshFlags(a.p) : o = [x EXCEPT !.f = @ + a.f]
      BY <2>1, <2>4
    <3>2. Moving(a.p, x) /\ (x.ok => x.p.kat = "vlan")
      BY <1>2, <1>6, <2>2, <2>4, <3>1, FlagsMoving DEF RefreshFlags
    <3> QED BY <1>1, <2>2, <3>1, <3>2, ChargedMoving
  <2> QED BY <2>3, <2>4
<1> HIDE DEF S4
<1>8. ASSUME NEW o \in S5 PROVE Moving(p, o) /\ (o.ok => o.p.kat = "vlan")
  <2>1. PICK a \in S4 :
          IF a.ok THEN \E x \in DelPairwiseKey(a.p) : o = [x EXCEPT !.f = @ + a.f]
          ELSE o = a
    BY DEF Then
  <2>2. Moving(p, a)
    BY <1>7
  <2>3. CASE ~a.ok
    BY <2>1, <2>2, <2>3
  <2>4. CASE a.ok
    <3>1. PICK x \in DelPairwiseKey(a.p) : o = [x EXCEPT !.f = @ + a.f]
      BY <2>1, <2>4
    <3>2. Moving(a.p, x) /\ (x.ok => x.p.kat = "vlan")
      BY <1>2, <1>7, <2>2, <2>4, <3>1, DelPairwiseKeyMoving
    <3> QED BY <1>1, <2>2, <3>1, <3>2, ChargedMoving
  <2> QED BY <2>3, <2>4
<1> HIDE DEF S5
<1>9. ASSUME NEW o \in S6 PROVE Moving(p, o) /\ (o.ok => o.p.kat = "vlan")
  <2>1. PICK a \in S5 :
          IF a.ok THEN \E x \in ClearAuthorized(a.p) : o = [x EXCEPT !.f = @ + a.f]
          ELSE o = a
    BY DEF Then
  <2>2. Moving(p, a)
    BY <1>8
  <2>3. CASE ~a.ok
    BY <2>1, <2>2, <2>3
  <2>4. CASE a.ok
    <3>1. PICK x \in ClearAuthorized(a.p) : o = [x EXCEPT !.f = @ + a.f]
      BY <2>1, <2>4
    <3>2. Moving(a.p, x) /\ (x.ok => x.p.kat = "vlan")
      BY <1>2, <1>8, <2>2, <2>4, <3>1, FlagsMoving DEF ClearAuthorized
    <3> QED BY <1>1, <2>2, <3>1, <3>2, ChargedMoving
  <2> QED BY <2>3, <2>4
<1> HIDE DEF S6
<1>10. ASSUME NEW o \in S7 PROVE Moving(p, o) /\ (o.ok => o.p.kat = "vlan")
  <2>1. PICK a \in S6 :
          IF a.ok THEN \E x \in InitializeVlanGroup(a.p) : o = [x EXCEPT !.f = @ + a.f]
          ELSE o = a
    BY DEF Then
  <2>2. Moving(p, a)
    BY <1>9
  <2>3. CASE ~a.ok
    BY <2>1, <2>2, <2>3
  <2>4. CASE a.ok
    <3>1. PICK x \in InitializeVlanGroup(a.p) : o = [x EXCEPT !.f = @ + a.f]
      BY <2>1, <2>4
    <3>2. Moving(a.p, x) /\ (x.ok => x.p.kat = "vlan")
      BY <1>2, <1>9, <2>2, <2>4, <3>1, InitializeVlanGroupMoving
    <3> QED BY <1>1, <2>2, <3>1, <3>2, ChargedMoving
  <2> QED BY <2>3, <2>4
<1> HIDE DEF S7
<1> QED BY <1>10 DEF BindVlan, S7, S6, S5, S4, S3, S2, S1, S0

\* On isolating radios the station is where EAPOL may go, if anywhere.
LEMMA FinalizeStationFine ==
  ASSUME Context, NEW p, Sound(mode.vif, p), IsLive(p),
         NEW o \in FinalizeStation(p)
  PROVE  /\ Fine(mode.vif, p, o)
         /\ KeepsBut(p, o.p, BindFields)
         /\ ~mode.vif => KeepsBut(p, o.p, {"kport"})
         /\ mode.vif /\ o.ok => o.p.kat = "vlan" \/ ~o.p.kassoc
<1> DEFINE v == mode.vif
<1>1. v \in BOOLEAN /\ p \in Peer
  BY DEF Context, Sound
<1>2. p.vid \in Nat /\ p.onBase \in BOOLEAN /\ p.kat \in {"none", "base", "vlan"}
  BY <1>1 DEF Peer
<1>3. CASE v /\ p.vid = 0
  <2>1. o \in Refused(p)
    BY <1>3 DEF FinalizeStation
  <2>2. o \in Outcome /\ o.p = p /\ ~o.ok
    BY <1>1, <2>1, DoneOutcomes
  <2>3. Fine(v, p, o) /\ KeepsBut(p, o.p, BindFields)
    BY <1>1, <2>2, FollowsItself DEF Fine
  <2> QED BY <1>3, <2>2, <2>3
<1>4. CASE v /\ p.vid # 0 /\ p.onBase
  <2>1. o \in BindVlan(p)
    BY <1>4 DEF FinalizeStation
  <2>2. Sound(TRUE, p) /\ v = TRUE
    BY <1>1, <1>4
  <2>3. Moving(p, o) /\ (o.ok => o.p.kat = "vlan")
    BY <1>4, <2>1, <2>2, BindVlanMoving
  <2> QED BY <1>4, <2>2, <2>3 DEF Moving
<1>5. CASE v /\ p.vid # 0 /\ ~p.onBase
  <2>1. o \in Done(p)
    BY <1>5 DEF FinalizeStation
  <2>2. p.kat = "vlan" \/ ~p.kassoc
    BY <1>2, <1>5 DEF Sound, Registered, Attached
  <2>3. o \in Outcome /\ o.p = p
    BY <1>1, <2>1, DoneOutcomes
  <2>4. Fine(v, p, o) /\ KeepsBut(p, o.p, BindFields)
    BY <1>1, <2>3, FollowsItself DEF Fine
  <2> QED BY <1>5, <2>2, <2>3, <2>4
<1>6. CASE ~v
  <2>1. o \in RefreshFlags(p)
    BY <1>6 DEF FinalizeStation
  <2>2. Fine(v, p, o) /\ KeepsBut(p, o.p, {"kport"})
    BY <1>1, <2>1, FlagsFine DEF RefreshFlags
  <2>3. KeepsBut(p, o.p, BindFields)
    BY <2>2 DEF KeepsBut, BindFields
  <2> QED BY <1>6, <2>2, <2>3
<1> QED BY <1>1, <1>2, <1>3, <1>4, <1>5, <1>6

LEMMA FinalizeFine ==
  ASSUME Context, NEW p, Sound(mode.vif, p), Settled(mode.vif, p), p.sc # 0,
         NEW o \in Finalize(p)
  PROVE  Fine(mode.vif, p, o) /\ Settled(mode.vif, o.p) /\ Ready(mode.vif, o.p)
<1> DEFINE v == mode.vif
           q == [p EXCEPT !.sc = 0]
           Fail(r) == RetireNow(NotAcked(r))
           A == FinalizeStation(q)
<1>1. v \in BOOLEAN /\ p \in Peer
  BY DEF Context, Sound
<1>2. q \in Peer /\ q.sc = 0 /\ KeepsBut(p, q, {"sc"})
  BY <1>1 DEF Peer, KeepsBut
<1>3. PICK a \in A : o = IF a.ok THEN a ELSE [a EXCEPT !.p = Fail(@)]
  BY DEF Finalize, OrElse
<1> HIDE DEF q
<1>4. Sound(v, q)
  BY <1>1, <1>2 DEF Sound, Peer, Registered, Ticketed, Attached, Engine,
     Ported, Keyed, IsLive, IsRetiring, KeepsBut
<1>5. Follows(p, q)
  BY <1>1, <1>2 DEF Follows, Undisturbed, IsRetiring, Peer, KeepsBut
<1>6. IsLive(q)
  <2>1. IsLive(p)
    BY DEF Sound, Attached
  <2> QED BY <1>1, <1>2, <2>1 DEF KeepsBut, Peer, IsLive
<1>7. /\ Fine(v, q, a) /\ KeepsBut(q, a.p, BindFields)
      /\ ~v => KeepsBut(q, a.p, {"kport"})
      /\ v /\ a.ok => a.p.kat = "vlan" \/ ~a.p.kassoc
  BY <1>3, <1>4, <1>6, FinalizeStationFine
<1>8. Fine(v, p, a)
  BY <1>5, <1>7, FollowsTransitive DEF Fine
<1>9. CASE a.ok
  <2>1. o = a
    BY <1>3, <1>9
  <2>2. {"phase", "kassoc"} \subseteq DOMAIN p \ ({"sc"} \cup BindFields)
    BY <1>1 DEF Peer, BindFields
  <2>3. DOMAIN q = DOMAIN p
    BY <1>1, <1>2 DEF Peer
  <2>4. a.p.phase = p.phase /\ a.p.kassoc = p.kassoc
    BY <1>2, <1>7, <2>2, <2>3 DEF KeepsBut
  <2>5. CASE v
    BY <1>7, <1>8, <1>9, <2>1, <2>4, <2>5 DEF Settled, Ready
  <2>6. CASE ~v
    <3>1. KeepsBut(p, a.p, {"sc", "kport"})
      BY <1>2, <1>7, <2>3, <2>6 DEF KeepsBut
    <3>2. \A x \in {"phase", "kassoc", "assoc", "hs", "keyp", "key", "tk"} :
             a.p[x] = p[x]
      <4>1. {"phase", "kassoc", "assoc", "hs", "keyp", "key", "tk"}
              \subseteq DOMAIN p \ {"sc", "kport"}
        BY <1>1 DEF Peer
      <4> QED BY <3>1, <4>1 DEF KeepsBut
    <3> QED BY <1>8, <2>1, <2>6, <3>2 DEF Settled, Ready
  <2> QED BY <1>1, <2>5, <2>6
<1>10. CASE ~a.ok
  <2> DEFINE n == NotAcked(a.p)
             r == RetireNow(n)
  <2>1. Sound(v, n) /\ Follows(a.p, n)
    BY <1>1, <1>8, NotAckedSound DEF Fine
  <2>2. Sound(v, r) /\ Follows(n, r) /\ IsRetiring(r)
    BY <1>1, <2>1, RetireSound DEF RetireNow
  <2>3. o = [a EXCEPT !.p = r]
    BY <1>3, <1>10
  <2> HIDE DEF n, r
  <2>4. o \in Outcome /\ o.p = r
    BY <1>8, <2>2, <2>3, Amended DEF Fine, Sound
  <2>5. Follows(p, r)
    BY <1>8, <2>1, <2>2, FollowsTransitive DEF Fine
  <2> QED BY <2>2, <2>4, <2>5, RetiringSettled DEF Fine, Ready
<1> QED BY <1>9, <1>10

LEMMA AckedResponseRouted ==
  ASSUME Context, NEW p, Sound(mode.vif, p), Settled(mode.vif, p), p.sc # 0,
         NEW o \in AckedResponse(p)
  PROVE  Routed(mode.vif, p, o)
<1> DEFINE v == mode.vif
           A == Finalize(p)
<1>1. v \in BOOLEAN
  BY DEF Context
<1>2. ASSUME NEW a \in A
      PROVE  Fine(v, p, a) /\ Settled(v, a.p) /\ Ready(v, a.p)
  BY FinalizeFine
<1> HIDE DEF A
<1>3. PICK a \in A : IF a.ok THEN \E x \in ReleaseHeld(a.p) :
                                    o = [x EXCEPT !.f = @ + a.f]
                     ELSE o = a
  BY DEF AckedResponse, Then, A
<1>4. CASE ~a.ok
  BY <1>2, <1>3, <1>4, FineRouted
<1>5. CASE a.ok
  <2>1. PICK x \in ReleaseHeld(a.p) : o = [x EXCEPT !.f = @ + a.f]
    BY <1>3, <1>5
  <2> DEFINE p1 == a.p
  <2>2. Sound(v, p1) /\ Settled(v, p1) /\ Ready(v, p1) /\ p1 \in Peer
    BY <1>2 DEF Fine, Sound
  <2>3. Routed(v, p1, x)
    <3> HIDE DEF p1
    <3>1. CASE p1.held = "none"
      <4>1. x \in Outcome /\ x.p = p1
        BY <2>1, <2>2, <3>1, DoneOutcomes DEF ReleaseHeld, p1
      <4> QED BY <2>2, <4>1, FineRouted, FollowsItself DEF Fine
    <3>2. CASE p1.held # "none"
      <4> DEFINE q == [p1 EXCEPT !.held = "none"]
                 m == p1.held
      <4>1. q \in Peer /\ KeepsBut(p1, q, {"held"})
        BY <2>2 DEF Peer, KeepsBut
      <4>2. m \in {"m1", "m3"}
        BY <2>2, <3>2 DEF Peer
      <4>3. x \in RouteEapol(q, m)
        BY <2>1, <3>2 DEF ReleaseHeld, p1
      <4> HIDE DEF q, m
      <4>4. KeepsBut(p1, q, Minor) /\ q.kport = p1.kport /\ q.keyp = p1.keyp
        BY <2>2, <4>1 DEF KeepsBut, Minor, Peer
      <4>5. Sound(v, q) /\ Follows(p1, q)
        BY <1>1, <2>2, <4>1, <4>4, MinorUpdate
      <4>6. Settled(v, q)
        BY <2>2, <4>1, SettledKept
      <4>7. Ready(v, q)
        BY <2>2, <4>1 DEF Ready, KeepsBut, Peer, IsRetiring
      <4>8. Routed(v, q, x)
        BY <1>1, <4>2, <4>3, <4>5, <4>6, <4>7, RouteEapolRouted
      <4> QED BY <4>5, <4>8 DEF Routed, Follows, Undisturbed
    <3> QED BY <3>1, <3>2
  <2> QED BY <1>1, <1>2, <2>1, <2>3, ChargedRouted
<1> QED BY <1>4, <1>5

LEMMA LostResponseRouted ==
  ASSUME Context, NEW p, Sound(mode.vif, p), Settled(mode.vif, p), p.sc # 0,
         NEW o \in Done(LostResponse(p))
  PROVE  Routed(mode.vif, p, o)
<1> DEFINE v == mode.vif
           q == [p EXCEPT !.sc = 0, !.held = "none"]
<1>1. v \in BOOLEAN /\ p \in Peer
  BY DEF Context, Sound
<1>2. q \in Peer /\ q.sc = 0 /\ KeepsBut(p, q, {"sc", "held"})
  BY <1>1 DEF Peer, KeepsBut
<1>3. LostResponse(p) = IF p.assoc THEN q ELSE BeginRetirement(NotAcked(q))
  BY DEF LostResponse
<1> HIDE DEF q
<1>4. Sound(v, q)
  BY <1>1, <1>2 DEF Sound, Peer, Registered, Ticketed, Attached, Engine,
     Ported, Keyed, IsLive, IsRetiring, KeepsBut
<1>5. Follows(p, q)
  BY <1>1, <1>2 DEF Follows, Undisturbed, IsRetiring, Peer, KeepsBut
<1>6. CASE p.assoc
  <2>1. o \in Outcome /\ o.p = q
    BY <1>2, <1>3, <1>6, DoneOutcomes
  <2>2. Settled(v, q)
    <3>1. \A x \in {"phase", "kassoc", "assoc", "hs", "keyp", "key", "tk"} :
             q[x] = p[x]
      <4>1. {"phase", "kassoc", "assoc", "hs", "keyp", "key", "tk"}
              \subseteq DOMAIN p \ {"sc", "held"}
        BY <1>1 DEF Peer
      <4> QED BY <1>2, <4>1 DEF KeepsBut
    <3> QED BY <1>6, <3>1 DEF Settled
  <2> QED BY <1>4, <1>5, <2>1, <2>2, FineRouted DEF Fine
<1>7. CASE ~p.assoc
  <2> DEFINE n == NotAcked(q)
             r == BeginRetirement(n)
  <2>1. Sound(v, n) /\ Follows(q, n)
    BY <1>1, <1>4, NotAckedSound
  <2>2. Sound(v, r) /\ Follows(n, r) /\ IsRetiring(r)
    BY <1>1, <2>1, BeginRetirementSound
  <2>3. o \in Done(r)
    BY <1>3, <1>7
  <2> HIDE DEF n, r
  <2>4. o \in Outcome /\ o.p = r
    BY <2>2, <2>3, DoneOutcomes DEF Sound
  <2>5. Follows(p, r)
    BY <1>5, <2>1, <2>2, FollowsTransitive
  <2> QED BY <2>2, <2>4, <2>5, RetiringSettled, FineRouted DEF Fine
<1> QED BY <1>6, <1>7

-----------------------------------------------------------------------------
(* reconcile_stations                                                      *)

LEMMA DrainRemovedFine ==
  ASSUME NEW v \in BOOLEAN, NEW p, Sound(v, p), Settled(v, p)
  PROVE  LET q == DrainRemoved(p)
         IN Sound(v, q) /\ Settled(v, q) /\ Follows(p, q)
<1> DEFINE r == [p EXCEPT !.nRemoved = FALSE]
<1>1. p \in Peer
  BY DEF Sound
<1>2. r \in Peer /\ KeepsBut(p, r, {"nRemoved"})
  BY <1>1 DEF Peer, KeepsBut
<1>3. DrainRemoved(p) = IF p.nRemoved THEN Retire(r, "wait") ELSE p
  BY DEF DrainRemoved, RetireWithGrace
<1> HIDE DEF r
<1>4. KeepsBut(p, r, Minor) /\ r.kport = p.kport /\ r.keyp = p.keyp
  BY <1>1, <1>2 DEF KeepsBut, Minor, Peer
<1>5. Sound(v, r) /\ Follows(p, r)
  BY <1>1, <1>2, <1>4, MinorUpdate
<1>6. LET q == Retire(r, "wait")
      IN Sound(v, q) /\ Settled(v, q) /\ Follows(p, q)
  BY <1>5, RetireSound, RetiringSettled, FollowsTransitive
<1> QED BY <1>1, <1>3, <1>6, FollowsItself

\* The key in the kernel and the key recorded for it change together.
LEMMA InstallKeyFine ==
  ASSUME NEW v \in BOOLEAN, NEW p, Sound(v, p), ~IsRetiring(p),
         NEW tk \in Nat, tk # 0, NEW o \in InstallKey(p, tk)
  PROVE  /\ Fine(v, p, o) /\ KeepsBut(p, o.p, {"kkey", "klost", "key"})
         /\ o.p.key = IF o.ok THEN tk ELSE p.key
<1> DEFINE k == [p EXCEPT !.kkey = tk, !.klost = FALSE]
           l == [p EXCEPT !.kkey = tk, !.klost = TRUE]
           q == [k EXCEPT !.key = tk]
           Recorded(r) == Done([r EXCEPT !.key = tk])
           A == NewPairwiseKey(p, tk)
<1>1. p \in Peer
  BY DEF Sound
<1>2. CASE p.key = tk
  <2>1. o \in Done(p)
    BY <1>2 DEF InstallKey, KernelHasKey
  <2>2. o \in Outcome /\ o.p = p
    BY <1>1, <2>1, DoneOutcomes
  <2> QED BY <1>1, <1>2, <2>2, FollowsItself DEF Fine
<1>3. CASE p.key # tk
  <2>1. k \in Peer /\ KeepsBut(p, k, {"kkey", "klost"}) /\ k.kkey = tk
    BY <1>1 DEF Peer, KeepsBut
  <2>l. l \in Peer /\ KeepsBut(p, l, {"kkey", "klost"}) /\ l.klost
    BY <1>1 DEF Peer, KeepsBut
  <2>2. q \in Peer /\ KeepsBut(p, q, {"kkey", "klost", "key"})
        /\ q.kkey = tk /\ q.key = tk
    <3> HIDE DEF k
    <3>1. q \in Peer /\ KeepsBut(k, q, {"key"}) /\ q.key = tk /\ q.kkey = k.kkey
      BY <2>1 DEF Peer, KeepsBut
    <3>2. DOMAIN k = DOMAIN p
      BY <1>1, <2>1 DEF Peer
    <3> QED BY <2>1, <3>1, <3>2 DEF KeepsBut
  <2>3. ASSUME NEW a \in A
        PROVE  /\ a \in Outcome
               /\ IF a.ok THEN a.p = k ELSE a.p \in {p, l}
               /\ a.p # p \/ a.ok => p.kat # "none"
    <3>1. CASE p.kat = "none"
      BY <1>1, <3>1, DoneOutcomes DEF NewPairwiseKey
    <3>2. CASE p.kat # "none"
      <4>1. a \in Done(k) \cup {[p |-> r, f |-> 1, ok |-> FALSE] : r \in {p, l}}
        BY <3>2 DEF NewPairwiseKey
      <4> QED BY <1>1, <2>1, <2>l, <3>2, <4>1, PartialOutcomes
    <3> QED BY <3>1, <3>2
  <2> HIDE DEF A
  <2>4. o \in Then(A, Recorded)
    BY <1>3 DEF InstallKey, KernelHasKey, A
  <2>5. PICK a \in A :
          IF a.ok THEN \E x \in Recorded(a.p) : o = [x EXCEPT !.f = @ + a.f]
          ELSE o = a
    BY <2>4 DEF Then
  <2>6. CASE ~a.ok /\ a.p = p
    <3>1. o \in Outcome /\ o.p = p /\ ~o.ok
      BY <2>3, <2>5, <2>6
    <3> QED BY <1>1, <3>1, FollowsItself DEF Fine
  <2>7. CASE ~a.ok /\ a.p # p
    <3>1. o \in Outcome /\ o.p = l /\ ~o.ok /\ p.kat # "none"
      BY <2>3, <2>5, <2>7
    <3> HIDE DEF l
    <3>2. Sound(v, l)
      BY <1>1, <2>l, <3>1 DEF Sound, Peer, Registered, Ticketed, Attached,
         Engine, Ported, Keyed, IsLive, IsRetiring, KeepsBut
    <3>3. Follows(p, l) /\ l.key = p.key
      BY <1>1, <2>l DEF Follows, Peer, KeepsBut
    <3>4. KeepsBut(p, l, {"kkey", "klost", "key"})
      BY <2>l DEF KeepsBut
    <3> QED BY <3>1, <3>2, <3>3, <3>4 DEF Fine
  <2>8. CASE a.ok
    <3>1. PICK x \in Done(q) : o = [x EXCEPT !.f = @ + a.f]
      BY <2>3, <2>5, <2>8
    <3> HIDE DEF q
    <3>2. x \in Outcome /\ x.p = q /\ x.ok
      BY <2>2, <3>1, DoneOutcomes
    <3>3. o \in Outcome /\ o.p = q /\ o.ok
      BY <2>3, <3>1, <3>2, Charged
    <3>4. p.kat # "none"
      BY <2>3, <2>8
    <3>5. Sound(v, q)
      BY <1>1, <2>2, <3>4 DEF Sound, Peer, Registered, Ticketed, Attached,
         Engine, Ported, Keyed, IsLive, IsRetiring, KeepsBut
    <3>6. Follows(p, q)
      BY <1>1, <2>2 DEF Follows, Peer, KeepsBut
    <3> QED BY <2>2, <3>3, <3>5, <3>6 DEF Fine
  <2> QED BY <2>6, <2>7, <2>8
<1> QED BY <1>2, <1>3

LEMMA InstallPendingFine ==
  ASSUME NEW v \in BOOLEAN, NEW p, Sound(v, p), Settled(v, p),
         NEW o \in InstallPending(p)
  PROVE  Fine(v, p, o) /\ Settled(v, o.p)
<1> DEFINE Installed(q) == Done([q EXCEPT !.inst = FALSE])
<1>1. p \in Peer /\ p.cand \in Nat
  BY DEF Sound, Peer
<1>2. ASSUME NEW q, Sound(v, q), Settled(v, q), NEW x \in Installed(q)
      PROVE  Fine(v, q, x) /\ Settled(v, x.p)
  <2> DEFINE r == [q EXCEPT !.inst = FALSE]
  <2>1. q \in Peer
    BY <1>2 DEF Sound
  <2>2. r \in Peer /\ KeepsBut(q, r, {"inst"})
    BY <2>1 DEF Peer, KeepsBut
  <2>3. x \in Outcome /\ x.p = r
    BY <1>2, <2>2, DoneOutcomes
  <2> HIDE DEF r
  <2>4. KeepsBut(q, r, Minor) /\ r.kport = q.kport /\ r.keyp = q.keyp
    BY <2>1, <2>2 DEF KeepsBut, Minor, Peer
  <2>5. Sound(v, r) /\ Follows(q, r)
    BY <1>2, <2>2, <2>4, MinorUpdate
  <2>6. Settled(v, r)
    BY <1>2, <2>1, <2>2, SettledKept
  <2> QED BY <2>3, <2>5, <2>6 DEF Fine
<1>3. CASE ~p.inst
  <2>1. o \in Outcome /\ o.p = p
    BY <1>1, <1>3, DoneOutcomes DEF InstallPending
  <2> QED BY <1>1, <2>1, FollowsItself DEF Fine
<1>4. CASE p.inst /\ (~IsLive(p) \/ p.cand = 0)
  <2>1. o \in Installed(p)
    BY <1>4 DEF InstallPending
  <2> QED BY <1>2, <2>1
<1>5. CASE p.inst /\ IsLive(p) /\ p.cand # 0
  <2> DEFINE A == InstallKey(p, p.cand)
  <2>1. ASSUME NEW a \in A PROVE Fine(v, p, a) /\ Settled(v, a.p)
    <3>1. ~IsRetiring(p)
      BY <1>5 DEF IsLive, IsRetiring
    <3>2. Fine(v, p, a) /\ KeepsBut(p, a.p, {"kkey", "klost", "key"})
      BY <1>1, <1>5, <3>1, InstallKeyFine
    <3>3. \A x \in {"phase", "kassoc", "sc", "kat", "assoc", "hs", "nGone"} :
             a.p[x] = p[x]
      <4>1. {"phase", "kassoc", "sc", "kat", "assoc", "hs", "nGone"}
              \subseteq DOMAIN p \ {"kkey", "klost", "key"}
        BY <1>1 DEF Peer
      <4> QED BY <3>2, <4>1 DEF KeepsBut
    <3>4. p.hs = "m3"
      BY <1>5 DEF Sound, Engine
    <3> QED BY <3>2, <3>3, <3>4 DEF Settled, IsLive
  <2> HIDE DEF A
  <2>2. o \in Then(A, Installed)
    BY <1>5 DEF InstallPending, A
  <2>3. PICK a \in A :
          IF a.ok THEN \E x \in Installed(a.p) : o = [x EXCEPT !.f = @ + a.f]
          ELSE o = a
    BY <2>2 DEF Then
  <2>4. CASE ~a.ok
    BY <2>1, <2>3, <2>4
  <2>5. CASE a.ok
    <3>1. PICK x \in Installed(a.p) : o = [x EXCEPT !.f = @ + a.f]
      BY <2>3, <2>5
    <3>2. Fine(v, a.p, x) /\ Settled(v, x.p)
      BY <1>2, <2>1, <3>1 DEF Fine
    <3>3. Fine(v, p, o) /\ o.p = x.p
      BY <2>1, <3>1, <3>2, ChargedFine, Charged DEF Fine
    <3> QED BY <3>2, <3>3
  <2> QED BY <2>4, <2>5
<1> QED BY <1>3, <1>4, <1>5

\* An authorization that is no longer pending.
LEMMA NotPending ==
  ASSUME NEW v \in BOOLEAN, NEW p, Sound(v, p)
  PROVE  LET q == [p EXCEPT !.keyp = FALSE]
         IN /\ Sound(v, q) /\ Follows(p, q)
            /\ ~q.keyp /\ KeepsBut(p, q, {"keyp"})
<1> DEFINE q == [p EXCEPT !.keyp = FALSE]
<1>1. p \in Peer
  BY DEF Sound
<1>2. q \in Peer /\ ~q.keyp /\ KeepsBut(p, q, {"keyp"})
  BY <1>1 DEF Peer, KeepsBut
<1> HIDE DEF q
<1>3. KeepsBut(p, q, Minor) /\ q.kport = p.kport
  BY <1>1, <1>2 DEF KeepsBut, Minor, Peer
<1>4. Sound(v, q) /\ Follows(p, q)
  BY <1>1, <1>2, <1>3, MinorUpdate
<1> QED BY <1>2, <1>4 DEF q

\* The port of a keyed station that is where it belongs.
LEMMA AuthorizeFine ==
  ASSUME NEW v \in BOOLEAN, NEW p, Sound(v, p), Settled(v, p),
         p.keyp, ~IsRetiring(p), p.assoc, v => VlanBound(p), p.key = p.tk,
         NEW o \in Then(OpenPort(p), LAMBDA q :
                Done([[q EXCEPT !.keyp = FALSE] EXCEPT !.phase = "Authorized"]))
  PROVE  Fine(v, p, o) /\ Settled(v, o.p)
<1> DEFINE Authorized(q) ==
             Done([[q EXCEPT !.keyp = FALSE] EXCEPT !.phase = "Authorized"])
           A == OpenPort(p)
           q == [p EXCEPT !.kport = TRUE]
<1>1. p \in Peer
  BY DEF Sound
<1>2. q \in Peer /\ q.kport /\ KeepsBut(p, q, {"kport"})
  BY <1>1 DEF Peer, KeepsBut
<1>3. p.kassoc /\ p.kat # "none" /\ IsLive(p) /\ p.key # 0
      /\ (v => p.kat = "vlan")
  <2>1. p.kassoc /\ p.phase # "None" /\ p.tk # 0
    BY DEF Sound, Attached, Engine
  <2>2. p.kat # "none"
    BY <2>1 DEF Sound, Attached
  <2>3. v => p.kat = "vlan"
    BY <1>1, <2>2 DEF VlanBound, Sound, Registered, Peer
  <2> QED BY <2>1, <2>2, <2>3 DEF IsLive, IsRetiring
<1>4. ASSUME NEW a \in A PROVE a \in Outcome /\ a.p \in {p, q} /\ (a.ok => a.p = q)
  BY <1>1, <1>2, <1>3, CommandOutcomes DEF OpenPort, SetStation
<1> HIDE DEF A
<1>5. o \in Then(A, Authorized)
  BY DEF A
<1>6. PICK a \in A :
        IF a.ok THEN \E x \in Authorized(a.p) : o = [x EXCEPT !.f = @ + a.f]
        ELSE o = a
  BY <1>5 DEF Then
<1> HIDE DEF q
<1>7. Sound(v, q)
  BY <1>1, <1>2, <1>3 DEF Sound, Peer, Registered, Ticketed, Attached,
     Engine, Ported, Keyed, IsLive, IsRetiring, KeepsBut
<1>8. Follows(p, q) /\ Settled(v, q)
  <2>0. {"assoc", "nGone", "air", "vid"} \subseteq DOMAIN p \ {"kport"}
    BY <1>1 DEF Peer
  <2>1. Follows(p, q)
    BY <1>2, <2>0 DEF Follows, KeepsBut
  <2>2. Settled(v, q)
    BY <1>1, <1>2, SettledKept
  <2> QED BY <2>1, <2>2
<1>9. Fine(v, p, a) /\ Settled(v, a.p)
  BY <1>1, <1>4, <1>7, <1>8, FollowsItself DEF Fine
<1>10. CASE ~a.ok
  BY <1>6, <1>9, <1>10
<1>11. CASE a.ok
  <2> DEFINE n == [q EXCEPT !.keyp = FALSE]
             r == [n EXCEPT !.phase = "Authorized"]
  <2>1. Sound(v, n) /\ Follows(q, n) /\ ~n.keyp /\ KeepsBut(q, n, {"keyp"})
    BY <1>7, NotPending
  <2>2. PICK x \in Done(r) : o = [x EXCEPT !.f = @ + a.f]
    BY <1>4, <1>6, <1>11
  <2>3. n \in Peer
    BY <2>1 DEF Sound
  <2> HIDE DEF n
  <2>4. r \in Peer /\ r.phase = "Authorized" /\ KeepsBut(n, r, {"phase"})
    BY <2>3 DEF Peer, Phases, KeepsBut
  <2>5. x \in Outcome /\ x.p = r
    BY <2>2, <2>4, DoneOutcomes
  <2> HIDE DEF r
  <2>6. IsLive(n) /\ n.key = n.tk /\ (v => n.kat = "vlan")
    BY <1>1, <1>2, <1>3, <2>1 DEF KeepsBut, Peer, IsLive
  <2>7. Sound(v, r)
    BY <2>1, <2>3, <2>4, <2>6 DEF Sound, Peer, Registered, Ticketed,
       Attached, Engine, Ported, Keyed, IsLive, IsRetiring, KeepsBut
  <2>8. Follows(n, r)
    BY <2>3, <2>4, <2>6 DEF Follows, IsLive, IsRetiring, Peer, KeepsBut
  <2>9. Settled(v, r)
    BY <2>3, <2>4, <2>6 DEF Settled, KeepsBut, Peer
  <2>10. Fine(v, a.p, x) /\ x.p = r
    BY <1>4, <1>11, <2>1, <2>5, <2>7, <2>8, FollowsTransitive DEF Fine
  <2>11. Fine(v, p, o) /\ o.p = r
    BY <1>9, <2>2, <2>10, ChargedFine, Charged DEF Fine
  <2> QED BY <2>9, <2>11
<1> QED BY <1>10, <1>11

LEMMA AuthorizePendingFine ==
  ASSUME Context, NEW p, Sound(mode.vif, p), Settled(mode.vif, p),
         NEW o \in AuthorizePending(p)
  PROVE  Fine(mode.vif, p, o) /\ Settled(mode.vif, o.p)
<1> DEFINE v == mode.vif
           Off(q) == [q EXCEPT !.keyp = FALSE]
           Authorized(q) == Done([Off(q) EXCEPT !.phase = "Authorized"])
           Authorize(q) == IF q.phase = "Authorized" THEN Done(Off(q))
                           ELSE Then(OpenPort(q), Authorized)
           A == InstallKey(p, p.tk)
<1>1. v \in BOOLEAN /\ p \in Peer /\ p.tk \in Nat
  BY DEF Context, Sound, Peer
<1>2. CASE ~p.keyp
  <2>1. o \in Done(p)
    BY <1>2 DEF AuthorizePending
  <2> QED BY <1>1, <2>1, DoneOutcomes, FollowsItself DEF Fine
<1>3. CASE p.keyp /\ (IsRetiring(p) \/ ~p.assoc)
  <2> DEFINE q == Off(p)
  <2>1. o \in Done(q)
    BY <1>3 DEF AuthorizePending
  <2>2. Sound(v, q) /\ Follows(p, q) /\ ~q.keyp /\ KeepsBut(p, q, {"keyp"})
    BY <1>1, NotPending
  <2>3. o \in Outcome /\ o.p = q
    BY <2>1, <2>2, DoneOutcomes DEF Sound
  <2> HIDE DEF q
  <2>4. Settled(v, q)
    BY <1>1, <1>3, <2>2 DEF Settled, KeepsBut, Peer, IsRetiring, IsLive
  <2> QED BY <2>2, <2>3, <2>4 DEF Fine
<1>4. CASE p.keyp /\ ~IsRetiring(p) /\ p.assoc /\ v /\ ~VlanBound(p)
  <2> DEFINE r == RetireNow(p)
             q == Off(r)
  <2>1. o \in Done(q)
    BY <1>4 DEF AuthorizePending
  <2>2. Sound(v, r) /\ Follows(p, r) /\ IsRetiring(r)
    BY <1>1, RetireSound DEF RetireNow
  <2> HIDE DEF r
  <2>3. Sound(v, q) /\ Follows(r, q)
    BY <1>1, <2>2, NotPending
  <2>4. o \in Outcome /\ o.p = q
    BY <2>1, <2>3, DoneOutcomes DEF Sound
  <2> HIDE DEF q
  <2>5. IsRetiring(q)
    BY <2>2, <2>3 DEF Follows, Undisturbed
  <2> QED BY <2>2, <2>3, <2>4, <2>5, FollowsTransitive, RetiringSettled
          DEF Fine
<1>5. CASE p.keyp /\ ~IsRetiring(p) /\ p.assoc /\ (v => VlanBound(p))
  <2>1. p.tk # 0 /\ p.kassoc /\ p.phase # "Unassociated"
    BY <1>5 DEF Sound, Engine, Attached, Settled
  <2>2. ASSUME NEW a \in A
        PROVE  /\ Fine(v, p, a) /\ KeepsBut(p, a.p, {"kkey", "klost", "key"})
               /\ a.ok => a.p.key = p.tk
    BY <1>1, <1>5, <2>1, InstallKeyFine
  <2>3. o \in Then(A, Authorize)
    BY <1>5 DEF AuthorizePending
  <2> HIDE DEF A
  <2>4. PICK a \in A :
          IF a.ok THEN \E x \in Authorize(a.p) : o = [x EXCEPT !.f = @ + a.f]
          ELSE o = a
    BY <2>3 DEF Then
  <2>5. CASE ~a.ok
    <3>1. PICK q : q = a.p
      OBVIOUS
    <3>2. /\ q.keyp = p.keyp /\ q.phase = p.phase /\ q.assoc = p.assoc
          /\ q.hs = p.hs /\ q.kassoc = p.kassoc /\ q.nGone = p.nGone
          /\ q.sc = p.sc /\ q.kat = p.kat
      BY <1>1, <2>2, <3>1 DEF Peer, KeepsBut
    <3>3. Settled(v, q)
      BY <1>5, <3>2 DEF Settled, IsLive
    <3> QED BY <2>2, <2>4, <2>5, <3>1, <3>3
  <2>6. CASE a.ok
    <3>1. PICK x \in Authorize(a.p) : o = [x EXCEPT !.f = @ + a.f]
      BY <2>4, <2>6
    <3>2. PICK q : q = a.p
      OBVIOUS
    <3>3. /\ Sound(v, q) /\ q \in Peer /\ q.key = p.tk
          /\ \A y \in DOMAIN p \ {"kkey", "klost", "key"} : q[y] = p[y]
      BY <2>2, <2>6, <3>2 DEF Fine, Sound, KeepsBut
    <3>4. /\ q.keyp /\ q.assoc /\ q.key = q.tk /\ q.phase = p.phase
          /\ q.vid = p.vid /\ q.onBase = p.onBase
          /\ q.hs = p.hs /\ q.kassoc = p.kassoc
          /\ q.sc = p.sc /\ q.kat = p.kat
      BY <1>1, <1>5, <3>3 DEF Peer
    <3>5. ~IsRetiring(q) /\ (v => VlanBound(q)) /\ Settled(v, q)
      BY <1>5, <2>1, <3>4 DEF IsRetiring, VlanBound, Settled
    <3>6. Fine(v, q, x) /\ Settled(v, x.p)
      <4>1. CASE q.phase # "Authorized"
        <5>1. x \in Then(OpenPort(q), LAMBDA r :
                Done([[r EXCEPT !.keyp = FALSE] EXCEPT !.phase = "Authorized"]))
          BY <3>1, <3>2, <4>1
        <5> QED BY <1>1, <3>3, <3>4, <3>5, <5>1, AuthorizeFine
      <4>2. CASE q.phase = "Authorized"
        <5> DEFINE r == [q EXCEPT !.keyp = FALSE]
        <5>1. x \in Done(r)
          BY <3>1, <3>2, <4>2
        <5>2. Sound(v, r) /\ Follows(q, r) /\ KeepsBut(q, r, {"keyp"})
          BY <1>1, <3>3, NotPending
        <5>3. x \in Outcome /\ x.p = r
          BY <5>1, <5>2, DoneOutcomes DEF Sound
        <5> HIDE DEF r
        <5>4. r.key = r.tk /\ r.assoc /\ r.phase = "Authorized"
          BY <3>3, <3>4, <4>2, <5>2 DEF KeepsBut, Peer
        <5> QED BY <5>2, <5>3, <5>4 DEF Fine, Settled
      <4> QED BY <4>1, <4>2
    <3>7. Fine(v, p, o) /\ o.p = x.p
      BY <1>1, <2>2, <3>1, <3>2, <3>6, ChargedFine, Charged DEF Fine
    <3> QED BY <3>6, <3>7
  <2> QED BY <2>5, <2>6
<1> QED BY <1>1, <1>2, <1>3, <1>4, <1>5

LEMMA ReconcileFine ==
  ASSUME Context, NEW p, Sound(mode.vif, p), Settled(mode.vif, p),
         NEW o \in AndAuthorize(InstallPending(DrainRemoved(p)))
  PROVE  Fine(mode.vif, p, o) /\ Settled(mode.vif, o.p)
<1> DEFINE v == mode.vif
           q == DrainRemoved(p)
<1>1. v \in BOOLEAN
  BY DEF Context
<1>2. Sound(v, q) /\ Settled(v, q) /\ Follows(p, q)
  BY <1>1, DrainRemovedFine
<1>3. PICK a \in InstallPending(q) :
        \E x \in AuthorizePending(a.p) : o = [x EXCEPT !.f = @ + a.f]
  BY DEF AndAuthorize
<1> HIDE DEF q
<1>4. Fine(v, q, a) /\ Settled(v, a.p)
  BY <1>1, <1>2, <1>3, InstallPendingFine
<1>5. Fine(v, p, a)
  BY <1>2, <1>4, FollowsTransitive DEF Fine
<1>6. PICK x \in AuthorizePending(a.p) : o = [x EXCEPT !.f = @ + a.f]
  BY <1>3
<1>7. Fine(v, a.p, x) /\ Settled(v, x.p)
  BY <1>4, <1>6, AuthorizePendingFine DEF Fine
<1>8. Fine(v, p, o) /\ o.p = x.p
  BY <1>1, <1>5, <1>6, <1>7, ChargedFine, Charged DEF Fine
<1> QED BY <1>7, <1>8

-----------------------------------------------------------------------------
(* The engine                                                              *)

\* What a change of the engine's state keeps.
Engaged(v, p, q) ==
  /\ Sound(v, q) /\ Settled(v, q) /\ q.vid = p.vid
  /\ IsRetiring(p) => Undisturbed(p, q)
  /\ q.air \in {p.air, "none"}

\* An association that ends: the engine forgets its keys, and the transport is
\* notified.
Ended(p, q) ==
  /\ q \in Peer
  /\ KeepsBut(p, q, {"known", "hs", "assoc", "cand", "alt", "tk", "ginit",
                     "vgtk", "kgtk", "nRemoved", "nGone", "air"})
  /\ q.hs = "idle" /\ ~q.assoc /\ q.cand = 0 /\ q.tk = 0
  /\ q.nGone = (p.nGone \/ p.assoc)
  /\ q.air \in {p.air, "none"}

LEMMA EndedEngaged ==
  ASSUME NEW v \in BOOLEAN, NEW p, Sound(v, p), Settled(v, p),
         NEW q, Ended(p, q)
  PROVE  Engaged(v, p, q)
<1>1. p \in Peer /\ q \in Peer
  BY DEF Sound, Ended
<1>2. /\ q.phase = p.phase /\ q.addr = p.addr /\ q.key = p.key
      /\ q.keyp = p.keyp /\ q.sc = p.sc
      /\ q.base = p.base /\ q.bid = p.bid /\ q.vid = p.vid
      /\ q.onBase = p.onBase /\ q.removed = p.removed /\ q.sid = p.sid
      /\ q.iid = p.iid /\ q.kat = p.kat /\ q.kassoc = p.kassoc
      /\ q.kport = p.kport /\ q.kkey = p.kkey /\ q.klost = p.klost
      /\ q.kif = p.kif
      /\ q.txs = p.txs
  BY <1>1 DEF Ended, KeepsBut, Peer
<1>3. q.hs = "idle" /\ ~q.assoc /\ q.cand = 0 /\ q.nGone = (p.nGone \/ p.assoc)
      /\ q.air \in {p.air, "none"}
  BY DEF Ended
<1>4. Sound(v, q)
  BY <1>1, <1>2, <1>3 DEF Sound, Registered, Ticketed, Attached, Engine,
     Ported, Keyed, IsLive, IsRetiring
<1>5. Settled(v, q)
  BY <1>2, <1>3 DEF Settled, IsLive
<1>6. IsRetiring(p) => Undisturbed(p, q)
  BY <1>2 DEF Undisturbed, IsRetiring
<1> QED BY <1>2, <1>3, <1>4, <1>5, <1>6 DEF Engaged

LEMMA IdleType ==
  ASSUME NEW p \in Peer, NEW b \in BOOLEAN
  PROVE  [p EXCEPT !.known = b, !.hs = "idle"] \in Peer
BY DEF Peer

LEMMA NoKeysType ==
  ASSUME NEW p \in Peer
  PROVE  [p EXCEPT !.cand = 0, !.alt = 0, !.tk = 0] \in Peer
BY DEF Peer

LEMMA NotAssociatedType ==
  ASSUME NEW p \in Peer
  PROVE  [p EXCEPT !.assoc = FALSE, !.ginit = FALSE] \in Peer
BY DEF Peer

LEMMA NotifiedType ==
  ASSUME NEW p \in Peer, NEW g \in BOOLEAN
  PROVE  [p EXCEPT !.nRemoved = TRUE, !.nGone = g] \in Peer
BY DEF Peer

LEMMA GoneType ==
  ASSUME NEW p \in Peer, NEW g \in BOOLEAN
  PROVE  [p EXCEPT !.assoc = FALSE, !.nGone = g] \in Peer
BY DEF Peer

LEMMA DisconnectEnds ==
  ASSUME NEW p \in Peer, p.known
  PROVE  Ended(p, Disconnect(p))
<1>1. PICK n \in Peer : n = NewGtk(p) /\ KeepsBut(p, n, {"vgtk", "kgtk"})
  BY NewGtkType
<1> DEFINE g == p.nGone \/ p.assoc
           a == IF p.air = "m3" THEN "none" ELSE p.air
           q == [n EXCEPT !.known = FALSE, !.hs = "idle", !.assoc = FALSE,
                          !.cand = 0, !.alt = 0, !.tk = 0, !.ginit = FALSE,
                          !.nRemoved = TRUE, !.nGone = g, !.air = a]
<1>2. g \in BOOLEAN /\ a \in {"none", "m1", "m3"} /\ a \in {p.air, "none"}
  BY DEF Peer
<1>3. n.nGone = p.nGone /\ n.air = p.air
  BY <1>1 DEF KeepsBut, Peer
<1>4. Disconnect(p) = q
  BY <1>1, <1>3 DEF Disconnect
<1> HIDE DEF g, a
<1>5. q \in Peer
  <2>1. PICK n1 \in Peer : n1 = [n EXCEPT !.known = FALSE, !.hs = "idle"]
    BY IdleType
  <2>2. PICK n2 \in Peer : n2 = [n1 EXCEPT !.assoc = FALSE, !.ginit = FALSE]
    BY NotAssociatedType
  <2>3. PICK n3 \in Peer : n3 = [n2 EXCEPT !.cand = 0, !.alt = 0, !.tk = 0]
    BY NoKeysType
  <2>4. PICK n4 \in Peer : n4 = [n3 EXCEPT !.nRemoved = TRUE, !.nGone = g]
    BY <1>2, NotifiedType
  <2>5. PICK n5 \in Peer : n5 = [n4 EXCEPT !.air = a]
    BY <1>2, AirType
  <2>6. q = n5
    BY <2>1, <2>2, <2>3, <2>4, <2>5
  <2> QED BY <2>6
<1>6. /\ KeepsBut(n, q, {"known", "hs", "assoc", "cand", "alt", "tk", "ginit",
                         "nRemoved", "nGone", "air"})
      /\ q.hs = "idle" /\ ~q.assoc /\ q.cand = 0 /\ q.tk = 0
      /\ q.nGone = g /\ q.air = a
  BY DEF KeepsBut, Peer
<1> HIDE DEF q
<1>7. DOMAIN n = DOMAIN p
  BY DEF Peer
<1>8. KeepsBut(p, q, {"known", "hs", "assoc", "cand", "alt", "tk", "ginit",
                      "vgtk", "kgtk", "nRemoved", "nGone", "air"})
  BY <1>1, <1>6, <1>7 DEF KeepsBut
<1>9. Ended(p, q)
  BY <1>2, <1>5, <1>6, <1>8 DEF Ended, g
<1> QED BY <1>4, <1>9

LEMMA AuthResetEnds ==
  ASSUME NEW p \in Peer
  PROVE  Ended(p, AuthReset(p))
<1>1. PICK n \in Peer : n = NewGtk(p) /\ KeepsBut(p, n, {"vgtk", "kgtk"})
  BY NewGtkType
<1> DEFINE g == p.nGone \/ p.assoc
           a == IF p.air = "m3" THEN "none" ELSE p.air
           q == [n EXCEPT !.known = TRUE, !.hs = "idle", !.assoc = FALSE,
                          !.cand = 0, !.alt = 0, !.tk = 0, !.nGone = g,
                          !.air = a]
<1>2. g \in BOOLEAN /\ a \in {"none", "m1", "m3"} /\ a \in {p.air, "none"}
  BY DEF Peer
<1>3. n.nGone = p.nGone /\ n.air = p.air
  BY <1>1 DEF KeepsBut, Peer
<1>4. AuthReset(p) = q
  BY <1>1, <1>3 DEF AuthReset
<1> HIDE DEF g, a
<1>5. q \in Peer
  <2>1. PICK n1 \in Peer : n1 = [n EXCEPT !.known = TRUE, !.hs = "idle"]
    BY IdleType
  <2>2. PICK n3 \in Peer : n3 = [n1 EXCEPT !.cand = 0, !.alt = 0, !.tk = 0]
    BY NoKeysType
  <2>3. PICK n4 \in Peer : n4 = [n3 EXCEPT !.assoc = FALSE, !.nGone = g]
    BY <1>2, GoneType
  <2>4. PICK n5 \in Peer : n5 = [n4 EXCEPT !.air = a]
    BY <1>2, AirType
  <2>5. q = n5
    BY <2>1, <2>2, <2>3, <2>4
  <2> QED BY <2>5
<1>6. /\ KeepsBut(n, q, {"known", "hs", "assoc", "cand", "alt", "tk", "nGone",
                         "air"})
      /\ q.hs = "idle" /\ ~q.assoc /\ q.cand = 0 /\ q.tk = 0
      /\ q.nGone = g /\ q.air = a
  BY DEF KeepsBut, Peer
<1> HIDE DEF q
<1>7. DOMAIN n = DOMAIN p
  BY DEF Peer
<1>8. KeepsBut(p, q, {"known", "hs", "assoc", "cand", "alt", "tk", "ginit",
                      "vgtk", "kgtk", "nRemoved", "nGone", "air"})
  BY <1>1, <1>6, <1>7 DEF KeepsBut
<1>9. Ended(p, q)
  BY <1>2, <1>5, <1>6, <1>8 DEF Ended, g
<1> QED BY <1>4, <1>9

LEMMA DisconnectEngaged ==
  ASSUME NEW v \in BOOLEAN, NEW p, Sound(v, p), Settled(v, p)
  PROVE  Engaged(v, p, Disconnect(p)) /\ (p.nGone => Disconnect(p).nGone)
<1>1. p \in Peer
  BY DEF Sound
<1>2. CASE p.known
  BY <1>1, <1>2, DisconnectEnds, EndedEngaged DEF Ended
<1>3. CASE ~p.known
  <2>1. Disconnect(p) = p
    BY <1>3 DEF Disconnect
  <2> QED BY <1>1, <2>1, FollowsItself DEF Engaged, Follows
<1> QED BY <1>2, <1>3

LEMMA NewKeyType ==
  ASSUME NEW p \in Peer
  PROVE  NewKey(p) \in Nat /\ NewKey(p) # 0
<1> DEFINE used == {p.cand, p.alt, p.tk, p.key, p.kkey}
<1>1. IsFiniteSet({} \cup {p.cand})
  BY FS_EmptySet, FS_AddElement
<1>2. IsFiniteSet(({} \cup {p.cand}) \cup {p.alt})
  BY <1>1, FS_AddElement
<1>3. IsFiniteSet((({} \cup {p.cand}) \cup {p.alt}) \cup {p.tk})
  BY <1>2, FS_AddElement
<1>4. IsFiniteSet(((({} \cup {p.cand}) \cup {p.alt}) \cup {p.tk})
                   \cup {p.key})
  BY <1>3, FS_AddElement
<1>5. IsFiniteSet((((({} \cup {p.cand}) \cup {p.alt}) \cup {p.tk})
                   \cup {p.key}) \cup {p.kkey})
  BY <1>4, FS_AddElement
<1>6. used = (((({} \cup {p.cand}) \cup {p.alt}) \cup {p.tk})
               \cup {p.key}) \cup {p.kkey}
  OBVIOUS
<1>7. IsFiniteSet(used)
  BY <1>5, <1>6
<1> HIDE DEF used
<1> QED BY <1>7, FreshNumber DEF NewKey, used

LEMMA Message2Engaged ==
  ASSUME NEW v \in BOOLEAN, NEW p, Sound(v, p), Settled(v, p), p.hs = "m1"
  PROVE  /\ Engaged(v, p, Message2(p)) /\ Message2(p).hs = "m3"
         /\ Message2(p).nGone = p.nGone /\ Message2(p).vid = p.vid
<1> DEFINE c == NewKey(p)
           q == [p EXCEPT !.hs = "m3", !.inst = TRUE, !.air = "none",
                          !.cand = c]
<1>1. p \in Peer
  BY DEF Sound
<1>2. c \in Nat /\ c # 0
  BY <1>1, NewKeyType
<1>3. Message2(p) = q
  BY DEF Message2
<1> HIDE DEF c
<1>4. q \in Peer
  <2>1. PICK n1 \in Peer : n1 = [p EXCEPT !.hs = "m3", !.inst = TRUE]
    BY <1>1 DEF Peer
  <2>2. PICK n2 \in Peer : n2 = [n1 EXCEPT !.air = "none"]
    BY AirType
  <2>3. PICK n3 \in Peer : n3 = [n2 EXCEPT !.cand = c]
    BY <1>2 DEF Peer
  <2>4. q = n3
    BY <2>1, <2>2, <2>3
  <2> QED BY <2>4
<1>5. /\ q.hs = "m3" /\ q.cand = c /\ q.air = "none"
      /\ KeepsBut(p, q, {"hs", "inst", "air", "cand"})
  BY <1>1 DEF KeepsBut, Peer
<1> HIDE DEF q
<1>6. /\ q.phase = p.phase /\ q.addr = p.addr /\ q.key = p.key
      /\ q.keyp = p.keyp /\ q.sc = p.sc /\ q.assoc = p.assoc /\ q.tk = p.tk
      /\ q.base = p.base /\ q.bid = p.bid /\ q.vid = p.vid
      /\ q.onBase = p.onBase /\ q.removed = p.removed /\ q.sid = p.sid
      /\ q.iid = p.iid /\ q.kat = p.kat /\ q.kassoc = p.kassoc
      /\ q.kport = p.kport /\ q.kkey = p.kkey /\ q.klost = p.klost
      /\ q.kif = p.kif
      /\ q.txs = p.txs /\ q.nGone = p.nGone
  BY <1>1, <1>5 DEF KeepsBut, Peer
<1>7. Sound(v, q)
  BY <1>2, <1>4, <1>5, <1>6 DEF Sound, Registered, Ticketed, Attached, Engine,
     Ported, Keyed, IsLive, IsRetiring
<1>8. Settled(v, q)
  BY <1>5, <1>6 DEF Settled, IsLive
<1>9. IsRetiring(p) => Undisturbed(p, q)
  BY <1>6 DEF Undisturbed, IsRetiring
<1> QED BY <1>3, <1>5, <1>6, <1>7, <1>8, <1>9 DEF Engaged

LEMMA Message2AgainEngaged ==
  ASSUME NEW v \in BOOLEAN, NEW p, Sound(v, p), Settled(v, p), p.hs = "m3",
         NEW c \in Nat, c # 0, NEW older \in Nat
  PROVE  LET q == Message2Again(p, c, older)
         IN Engaged(v, p, q) /\ q.hs = "m3" /\ q.vid = p.vid
<1> DEFINE q == [p EXCEPT !.inst = TRUE, !.cand = c, !.alt = older]
<1>1. p \in Peer
  BY DEF Sound
<1>2. Message2Again(p, c, older) = q
  BY DEF Message2Again
<1>3. q \in Peer
  BY <1>1 DEF Peer
<1>4. q.cand = c /\ KeepsBut(p, q, {"inst", "cand", "alt"})
  BY <1>1 DEF KeepsBut, Peer
<1> HIDE DEF q
<1>5. /\ q.phase = p.phase /\ q.addr = p.addr /\ q.key = p.key
      /\ q.keyp = p.keyp /\ q.sc = p.sc /\ q.assoc = p.assoc /\ q.tk = p.tk
      /\ q.base = p.base /\ q.bid = p.bid /\ q.vid = p.vid
      /\ q.onBase = p.onBase /\ q.removed = p.removed /\ q.sid = p.sid
      /\ q.iid = p.iid /\ q.kat = p.kat /\ q.kassoc = p.kassoc
      /\ q.kport = p.kport /\ q.kkey = p.kkey /\ q.klost = p.klost
      /\ q.kif = p.kif /\ q.hs = p.hs /\ q.air = p.air
      /\ q.txs = p.txs /\ q.nGone = p.nGone
  BY <1>1, <1>4 DEF KeepsBut, Peer
<1>6. Sound(v, q)
  BY <1>3, <1>4, <1>5 DEF Sound, Registered, Ticketed, Attached, Engine,
     Ported, Keyed, IsLive, IsRetiring
<1>7. Settled(v, q)
  BY <1>5 DEF Settled, IsLive
<1>8. IsRetiring(p) => Undisturbed(p, q)
  BY <1>5 DEF Undisturbed, IsRetiring
<1> QED BY <1>2, <1>5, <1>6, <1>7, <1>8 DEF Engaged

LEMMA Message4Engaged ==
  ASSUME NEW v \in BOOLEAN, NEW p, Sound(v, p), Settled(v, p),
         p.hs = "m3", p.air = "m3", NEW c \in Nat, c # 0
  PROVE  /\ Engaged(v, p, Message4(p, c)) /\ Message4(p, c).nGone = p.nGone
         /\ Message4(p, c).vid = p.vid
<1> DEFINE q == [p EXCEPT !.hs = "idle", !.assoc = TRUE, !.tk = c, !.cand = 0,
                          !.alt = 0, !.keyp = TRUE, !.air = "none"]
<1>1. p \in Peer
  BY DEF Sound, Peer
<1>2. Message4(p, c) = q
  BY DEF Message4
<1>3. p.kassoc /\ p.phase # "None"
  <2>1. p.kassoc
    BY DEF Sound, Attached
  <2>2. p.kat # "none"
    BY <2>1 DEF Sound, Attached
  <2> QED BY <2>1, <2>2 DEF Sound, Registered
<1>4. q \in Peer
  <2>1. PICK n1 \in Peer : n1 = [p EXCEPT !.hs = "idle", !.assoc = TRUE]
    BY <1>1 DEF Peer
  <2>2. PICK n2 \in Peer : n2 = [n1 EXCEPT !.tk = c, !.cand = 0, !.alt = 0]
    BY <1>1 DEF Peer
  <2>3. PICK n3 \in Peer : n3 = [n2 EXCEPT !.keyp = TRUE]
    BY DEF Peer
  <2>4. PICK n4 \in Peer : n4 = [n3 EXCEPT !.air = "none"]
    BY AirType
  <2>5. q = n4
    BY <2>1, <2>2, <2>3, <2>4
  <2> QED BY <2>5
<1>5. /\ q.hs = "idle" /\ q.cand = 0 /\ q.air = "none" /\ q.assoc /\ q.tk = c
      /\ q.keyp /\ KeepsBut(p, q, {"hs", "assoc", "tk", "cand", "alt", "keyp",
                                   "air"})
  BY <1>1 DEF KeepsBut, Peer
<1> HIDE DEF q
<1>6. /\ q.phase = p.phase /\ q.addr = p.addr /\ q.key = p.key /\ q.sc = p.sc
      /\ q.base = p.base /\ q.bid = p.bid /\ q.vid = p.vid
      /\ q.onBase = p.onBase /\ q.removed = p.removed /\ q.sid = p.sid
      /\ q.iid = p.iid /\ q.kat = p.kat /\ q.kassoc = p.kassoc
      /\ q.kport = p.kport /\ q.kkey = p.kkey /\ q.klost = p.klost
      /\ q.kif = p.kif
      /\ q.txs = p.txs /\ q.nGone = p.nGone
  BY <1>1, <1>5 DEF KeepsBut, Peer
<1>7. Sound(v, q)
  BY <1>3, <1>4, <1>5, <1>6 DEF Sound, Registered, Ticketed, Attached, Engine,
     Ported, Keyed, IsLive, IsRetiring
<1>8. Settled(v, q)
  BY <1>5, <1>6 DEF Settled, IsLive
<1>9. IsRetiring(p) => Undisturbed(p, q)
  BY <1>6 DEF Undisturbed, IsRetiring
<1> QED BY <1>2, <1>5, <1>6, <1>7, <1>8, <1>9 DEF Engaged

-----------------------------------------------------------------------------
(* Cleanup                                                                 *)

\* A job of the worker, and a result it has not been told of yet, belong to
\* the peer that is retiring.  The job covers the interface the peer is on;
\* what a successful job was for is gone.
JobClaim(j, p) ==
  /\ IsRetiring(p) /\ j.id # 0
  /\ j.kind = "Interface" => p.iid = j.id
  /\ j.kind = "Station" => /\ j.id \in {p.sid, p.bid}
                           /\ p.kat \in j.scopes \cup {"none"}

ResultClaim(r, p) ==
  /\ IsRetiring(p) /\ r.id # 0
  /\ r.kind = "Interface" => p.iid = r.id /\ (r.ok => ~p.kif)
  /\ r.kind = "Station" => /\ r.id \in {p.sid, p.bid}
                           /\ r.ok => p.kat = "none"

LEMMA ForgottenType ==
  ASSUME NEW p \in Peer
  PROVE  [p EXCEPT !.addr = FALSE, !.key = 0, !.bid = 0] \in Peer
BY DEF Peer

LEMMA PhaseType ==
  ASSUME NEW p \in Peer, NEW ph \in Phases
  PROVE  [p EXCEPT !.phase = ph] \in Peer
BY DEF Peer

LEMMA NothingPendingType ==
  ASSUME NEW p \in Peer
  PROVE  [p EXCEPT !.inst = FALSE, !.keyp = FALSE, !.sc = 0,
                   !.held = "none"] \in Peer
BY DEF Peer

LEMMA BaseType ==
  ASSUME NEW p \in Peer, NEW d \in Deadlines
  PROVE  [p EXCEPT !.base = d] \in Peer
BY DEF Peer

LEMMA ForgetType ==
  ASSUME NEW p \in Peer
  PROVE  Forget(p) \in Peer
<1>0. PICK n \in Peer : n = [p EXCEPT !.phase = "None"]
  BY PhaseType DEF Phases
<1>1. PICK q \in Peer : q = [n EXCEPT !.inst = FALSE, !.keyp = FALSE,
                                      !.sc = 0, !.held = "none"]
  BY NothingPendingType
<1>2. [q EXCEPT !.addr = FALSE, !.key = 0, !.bid = 0] \in Peer
  BY ForgottenType
<1>3. PICK r \in Peer : r = [q EXCEPT !.addr = FALSE, !.key = 0, !.bid = 0]
  BY <1>2
<1>4. [r EXCEPT !.base = "none"] \in Peer
  BY BaseType DEF Deadlines
<1>5. Forget(p) = [r EXCEPT !.base = "none"]
  BY <1>0, <1>1, <1>3 DEF Forget
<1> QED BY <1>4, <1>5

\* The last step of a retirement.
LEMMA ForgetSound ==
  ASSUME NEW v \in BOOLEAN, NEW p, Sound(v, p), p.vid = 0, p.kat = "none"
  PROVE  LET q == Forget(p)
         IN /\ Sound(v, q) /\ Settled(v, q)
            /\ q.nGone = p.nGone /\ q.air = "none"
            /\ q.phase = "None" /\ q.vid = 0 /\ ~q.addr
            /\ q.base = "none" /\ q.bid = 0
<1> DEFINE q == Forget(p)
<1>1. p \in Peer
  BY DEF Sound
<1>2. q \in Peer
  BY <1>1, ForgetType
<1>3. /\ q.phase = "None" /\ ~q.addr /\ q.key = 0 /\ ~q.keyp /\ q.sc = 0
      /\ q.base = "none" /\ q.bid = 0
      /\ KeepsBut(p, q, {"phase", "addr", "key", "inst", "keyp", "sc", "held",
                         "base", "bid"})
  BY <1>1 DEF Forget, Peer, KeepsBut
<1> HIDE DEF q
<1>4. /\ q.assoc = p.assoc /\ q.tk = p.tk /\ q.hs = p.hs /\ q.cand = p.cand
      /\ q.vid = p.vid /\ q.onBase = p.onBase /\ q.removed = p.removed
      /\ q.sid = p.sid /\ q.iid = p.iid /\ q.kat = p.kat
      /\ q.kassoc = p.kassoc /\ q.kport = p.kport /\ q.kkey = p.kkey
      /\ q.kif = p.kif /\ q.air = p.air /\ q.txs = p.txs
      /\ q.nGone = p.nGone
  BY <1>1, <1>3 DEF KeepsBut, Peer
<1>5. ~p.kassoc /\ p.kkey = 0 /\ p.air = "none" /\ ~p.kport
      /\ p.sid = 0 /\ p.iid = 0 /\ ~p.removed
  BY <1>1 DEF Sound, Attached, Ticketed, Peer
<1>6. Sound(v, q)
  BY <1>2, <1>3, <1>4, <1>5 DEF Sound, Registered, Ticketed, Attached, Engine,
     Ported, Keyed, IsLive, IsRetiring
<1>7. Settled(v, q)
  BY <1>3, <1>4, <1>5, UnassociatedSettled
<1> QED BY <1>3, <1>4, <1>5, <1>6, <1>7 DEF q

LEMMA PreparedSound ==
  ASSUME NEW v \in BOOLEAN, NEW p, Sound(v, p), IsRetiring(p)
  PROVE  LET q == Prepared(p)
         IN /\ Sound(v, q) /\ Settled(v, q)
            /\ q.nGone = p.nGone /\ q.air \in {p.air, "none"}
            /\ \/ Undisturbed(p, q)
               \/ /\ p.sid = 0 /\ p.iid = 0 /\ p.bid = 0
                  /\ q.vid = 0 /\ ~q.addr /\ q.base = "none" /\ q.bid = 0
<1> DEFINE q == Prepared(p)
<1>1. p \in Peer
  BY DEF Sound
<1>2. ASSUME NEW r \in Peer, Sound(v, r), KeepsBut(p, r, {"retire", "sretry", "base"})
      PROVE  Settled(v, r) /\ r.nGone = p.nGone /\ r.air = p.air /\ Undisturbed(p, r)
  <2>1. r.nGone = p.nGone /\ r.air = p.air /\ Undisturbed(p, r)
    BY <1>1, <1>2 DEF KeepsBut, Peer, Undisturbed, IsRetiring
  <2> QED BY <2>1, RetiringSettled DEF Undisturbed
<1>3. CASE p.vid # 0 /\ p.retire = "none"
  <2> DEFINE r == [p EXCEPT !.retire = "wait", !.sretry = "due"]
  <2>1. q = r
    BY <1>3 DEF Prepared
  <2>2. r \in Peer /\ KeepsBut(p, r, {"retire", "sretry"})
    <3>1. r \in Peer
      BY <1>1 DEF Peer, Deadlines
    <3>2. KeepsBut(p, r, {"retire", "sretry"})
      BY <1>1 DEF Peer, KeepsBut
    <3> QED BY <3>1, <3>2
  <2> HIDE DEF r
  <2>3. KeepsBut(p, r, Minor) /\ r.kport = p.kport /\ r.keyp = p.keyp
    BY <1>1, <2>2 DEF KeepsBut, Minor, Peer
  <2>4. Sound(v, r)
    BY <2>2, <2>3, MinorUpdate
  <2>5. KeepsBut(p, r, {"retire", "sretry", "base"})
    BY <2>2 DEF KeepsBut
  <2> QED BY <1>2, <2>1, <2>2, <2>4, <2>5
<1>4. CASE p.vid = 0 /\ p.base = "none" /\ p.addr
  <2> DEFINE r == [p EXCEPT !.base = "due"]
  <2>1. q = r
    BY <1>4 DEF Prepared
  <2>2. r \in Peer /\ KeepsBut(p, r, {"base"}) /\ r.base = "due"
    BY <1>1 DEF Peer, Deadlines, KeepsBut
  <2> HIDE DEF r
  <2>3. Sound(v, r)
    BY <1>1, <2>2 DEF Sound, Peer, Registered, Ticketed, Attached, Engine,
       Ported, Keyed, IsLive, IsRetiring, KeepsBut
  <2>4. KeepsBut(p, r, {"retire", "sretry", "base"})
    BY <2>2 DEF KeepsBut
  <2> QED BY <1>2, <2>1, <2>2, <2>3, <2>4
<1>5. CASE p.vid = 0 /\ p.base = "none" /\ ~p.addr
  <2>1. q = Forget(p)
    BY <1>5 DEF Prepared
  <2>2. p.kat = "none" /\ p.sid = 0 /\ p.iid = 0 /\ p.bid = 0
    BY <1>1, <1>5 DEF Sound, Registered, Ticketed, Peer
  <2>3. /\ Sound(v, q) /\ Settled(v, q)
        /\ q.nGone = p.nGone /\ q.air = "none"
        /\ q.vid = 0 /\ ~q.addr /\ q.base = "none" /\ q.bid = 0
    BY <1>5, <2>1, <2>2, ForgetSound
  <2> QED BY <2>2, <2>3
<1>6. CASE /\ ~(p.vid # 0 /\ p.retire = "none")
           /\ ~(p.vid = 0 /\ p.base = "none")
  <2>1. q = p
    BY <1>6 DEF Prepared
  <2> QED BY <1>1, <1>2, <2>1, FollowsItself
<1> QED BY <1>3, <1>4, <1>5, <1>6

\* The result of DEL_STATION.
LEMMA StationDoneSound ==
  ASSUME NEW v \in BOOLEAN, NEW p, Sound(v, p), NEW r, ResultClaim(r, p),
         r.kind = "Station", r.ok \in BOOLEAN
  PROVE  LET q == StationDone(p, r)
         IN /\ Sound(v, q) /\ Settled(v, q)
            /\ q.nGone = p.nGone /\ q.air \in {p.air, "none"}
            /\ q.vid \in {p.vid, 0}
<1> DEFINE q == StationDone(p, r)
<1>1. p \in Peer /\ IsRetiring(p) /\ r.id # 0 /\ r.id \in {p.sid, p.bid}
      /\ (r.ok => p.kat = "none")
  BY DEF Sound, ResultClaim
<1>2. CASE p.vid # 0 /\ p.sid = r.id /\ r.ok
  <2> DEFINE n == [p EXCEPT !.sid = 0, !.removed = TRUE, !.addr = FALSE,
                            !.key = 0, !.sretry = "none"]
  <2>1. q = n
    BY <1>2 DEF StationDone
  <2>2. n \in Peer
    BY <1>1 DEF Peer, Deadlines
  <2>3. /\ n.sid = 0 /\ n.removed /\ ~n.addr /\ n.key = 0
        /\ KeepsBut(p, n, {"sid", "removed", "addr", "key", "sretry"})
    BY <1>1 DEF Peer, KeepsBut
  <2> HIDE DEF n
  <2>4. Sound(v, n)
    BY <1>1, <1>2, <2>2, <2>3 DEF Sound, Peer, Registered, Ticketed, Attached,
       Engine, Ported, Keyed, IsLive, IsRetiring, KeepsBut
  <2>5. IsRetiring(n) /\ n.nGone = p.nGone /\ n.air = p.air /\ n.vid = p.vid
    BY <1>1, <2>3 DEF KeepsBut, Peer, IsRetiring
  <2> QED BY <2>1, <2>4, <2>5, RetiringSettled
<1>3. CASE p.vid # 0 /\ p.sid = r.id /\ ~r.ok
  <2> DEFINE n == [p EXCEPT !.sid = 0, !.sretry = "wait"]
  <2>1. q = n
    BY <1>3 DEF StationDone
  <2>2. n \in Peer /\ n.sid = 0 /\ KeepsBut(p, n, {"sid", "sretry"})
    BY <1>1 DEF Peer, Deadlines, KeepsBut
  <2> HIDE DEF n
  <2>4. Sound(v, n)
    BY <1>1, <2>2 DEF Sound, Peer, Registered, Ticketed, Attached,
       Engine, Ported, Keyed, IsLive, IsRetiring, KeepsBut
  <2>5. IsRetiring(n) /\ n.nGone = p.nGone /\ n.air = p.air /\ n.vid = p.vid
    BY <1>1, <2>2 DEF KeepsBut, Peer, IsRetiring
  <2> QED BY <2>1, <2>4, <2>5, RetiringSettled
<1>4. CASE p.bid = r.id /\ r.ok
  <2>1. p.vid = 0 /\ p.base # "none" /\ p.kat = "none"
    BY <1>1, <1>4 DEF Sound, Ticketed
  <2>2. q = Forget(p)
    BY <1>4, <2>1 DEF StationDone
  <2> QED BY <2>1, <2>2, ForgetSound
<1>5. CASE p.bid = r.id /\ ~r.ok
  <2> DEFINE n == [p EXCEPT !.bid = 0, !.base = "wait"]
  <2>0. p.vid = 0 /\ p.base # "none"
    BY <1>1, <1>5 DEF Sound, Ticketed
  <2>1. q = n
    BY <1>5, <2>0 DEF StationDone
  <2>2. n \in Peer /\ n.bid = 0 /\ KeepsBut(p, n, {"bid", "base"})
    BY <1>1 DEF Peer, Deadlines, KeepsBut
  <2> HIDE DEF n
  <2>4. Sound(v, n)
    BY <1>1, <2>2 DEF Sound, Peer, Registered, Ticketed, Attached,
       Engine, Ported, Keyed, IsLive, IsRetiring, KeepsBut
  <2>5. IsRetiring(n) /\ n.nGone = p.nGone /\ n.air = p.air /\ n.vid = p.vid
    BY <1>1, <2>2 DEF KeepsBut, Peer, IsRetiring
  <2> QED BY <2>1, <2>4, <2>5, RetiringSettled
<1>6. p.sid = r.id => p.vid # 0
  BY <1>1 DEF Sound, Ticketed
<1> QED BY <1>1, <1>2, <1>3, <1>4, <1>5, <1>6

LEMMA DeadlinesType ==
  ASSUME NEW p \in Peer, NEW d \in Deadlines
  PROVE  [p EXCEPT !.retire = d, !.sretry = d, !.iretry = d] \in Peer
BY DEF Peer

LEMMA VgtkType ==
  ASSUME NEW p \in Peer, NEW k \in GroupKey
  PROVE  [p EXCEPT !.vgtk = k] \in Peer
BY DEF Peer

LEMMA KifType ==
  ASSUME NEW p \in Peer, NEW k \in GroupKey
  PROVE  [p EXCEPT !.kif = FALSE, !.kgtk = k] \in Peer
BY DEF Peer

LEMMA NoIdsType ==
  ASSUME NEW p \in Peer
  PROVE  [p EXCEPT !.vid = 0, !.sid = 0, !.iid = 0] \in Peer
BY DEF Peer

LEMMA NotRemovedType ==
  ASSUME NEW p \in Peer
  PROVE  [p EXCEPT !.onBase = FALSE, !.removed = FALSE] \in Peer
BY DEF Peer

LEMMA DropAssignmentType ==
  ASSUME NEW p \in Peer
  PROVE  DropAssignment(p) \in Peer
<1>0. PICK n \in Peer : n = [p EXCEPT !.vid = 0, !.sid = 0, !.iid = 0]
  BY NoIdsType
<1>1. PICK q \in Peer : q = [n EXCEPT !.onBase = FALSE, !.removed = FALSE]
  BY NotRemovedType
<1>2. PICK r \in Peer : r = [q EXCEPT !.retire = "none", !.sretry = "none",
                                      !.iretry = "none"]
  BY DeadlinesType DEF Deadlines
<1>3. [r EXCEPT !.vgtk = "none"] \in Peer
  BY VgtkType DEF GroupKey
<1>4. DropAssignment(p) = [r EXCEPT !.vgtk = "none"]
  BY <1>0, <1>1, <1>2 DEF DropAssignment
<1> QED BY <1>3, <1>4

\* The result of DEL_INTERFACE.
LEMMA InterfaceDoneSound ==
  ASSUME NEW v \in BOOLEAN, NEW p, Sound(v, p), NEW r, ResultClaim(r, p),
         r.kind = "Interface", r.ok \in BOOLEAN
  PROVE  LET q == InterfaceDone(p, r)
         IN /\ Sound(v, q) /\ Settled(v, q)
            /\ q.nGone = p.nGone /\ q.air \in {p.air, "none"}
            /\ q.vid \in {p.vid, 0}
<1> DEFINE q == InterfaceDone(p, r)
<1>1. p \in Peer /\ IsRetiring(p) /\ r.id # 0 /\ p.iid = r.id
      /\ (r.ok => ~p.kif)
  BY DEF Sound, ResultClaim
<1>2. p.vid # 0 /\ p.removed /\ p.kat = "none" /\ p.sid = 0 /\ p.bid = 0
  BY <1>1 DEF Sound, Ticketed
<1>3. CASE r.ok
  <2> DEFINE n == DropAssignment(p)
  <2>1. q = Forget(n)
    BY <1>1, <1>2, <1>3 DEF InterfaceDone
  <2>2. n \in Peer
    BY <1>1, DropAssignmentType
  <2>3. /\ n.vid = 0 /\ ~n.removed /\ n.sid = 0 /\ n.iid = 0
        /\ KeepsBut(p, n, {"vid", "onBase", "retire", "removed", "sid",
                           "sretry", "iid", "iretry", "vgtk"})
    BY <1>1 DEF DropAssignment, Peer, KeepsBut
  <2> HIDE DEF n
  <2>4. /\ n.phase = p.phase /\ n.addr = p.addr /\ n.key = p.key
        /\ n.keyp = p.keyp /\ n.sc = p.sc /\ n.assoc = p.assoc
        /\ n.tk = p.tk /\ n.hs = p.hs /\ n.cand = p.cand
        /\ n.base = p.base /\ n.bid = p.bid /\ n.kat = p.kat
        /\ n.kassoc = p.kassoc /\ n.kport = p.kport /\ n.kkey = p.kkey
        /\ n.kif = p.kif /\ n.air = p.air /\ n.txs = p.txs
        /\ n.nGone = p.nGone
    BY <1>1, <2>3 DEF KeepsBut, Peer
  <2>5. Sound(v, n)
    BY <1>1, <1>2, <1>3, <2>2, <2>3, <2>4 DEF Sound, Registered, Ticketed,
       Attached, Engine, Ported, Keyed, IsLive, IsRetiring
  <2> QED BY <1>2, <2>1, <2>3, <2>4, <2>5, ForgetSound
<1>4. CASE ~r.ok
  <2> DEFINE n == [p EXCEPT !.iid = 0, !.iretry = "wait"]
  <2>1. q = n
    BY <1>1, <1>2, <1>4 DEF InterfaceDone
  <2>2. n \in Peer /\ n.iid = 0 /\ KeepsBut(p, n, {"iid", "iretry"})
    BY <1>1 DEF Peer, Deadlines, KeepsBut
  <2> HIDE DEF n
  <2>4. Sound(v, n)
    BY <1>1, <2>2 DEF Sound, Peer, Registered, Ticketed, Attached,
       Engine, Ported, Keyed, IsLive, IsRetiring, KeepsBut
  <2>5. IsRetiring(n) /\ n.nGone = p.nGone /\ n.air = p.air /\ n.vid = p.vid
    BY <1>1, <2>2 DEF KeepsBut, Peer, IsRetiring
  <2> QED BY <2>1, <2>4, <2>5, RetiringSettled
<1> QED BY <1>3, <1>4

\* What the worker deletes.
LEMMA DelStationSound ==
  ASSUME NEW v \in BOOLEAN, NEW p, Sound(v, p), IsRetiring(p), NEW scopes
  PROVE  LET q == DelStation(p, scopes)
         IN /\ Sound(v, q)
            /\ q.kat = IF p.kat \in scopes THEN "none" ELSE p.kat
            /\ KeepsBut(p, q, {"kat", "kassoc", "kport", "kkey", "klost", "air"})
            /\ q.air \in {p.air, "none"}
<1> DEFINE q == DelStation(p, scopes)
<1>1. p \in Peer
  BY DEF Sound
<1>2. CASE p.kat \notin scopes
  <2>1. q = p
    BY <1>2 DEF DelStation
  <2> QED BY <1>1, <1>2, <2>1, FollowsItself
<1>3. CASE p.kat \in scopes
  <2> DEFINE n == [p EXCEPT !.kat = "none", !.kassoc = FALSE, !.kport = FALSE,
                            !.kkey = 0, !.klost = FALSE, !.air = "none"]
  <2>1. q = n
    BY <1>3 DEF DelStation
  <2>2. n \in Peer
    BY <1>1, KernelPeerType
  <2>3. /\ n.kat = "none" /\ ~n.kassoc /\ ~n.kport /\ n.kkey = 0
        /\ n.air = "none"
        /\ KeepsBut(p, n, {"kat", "kassoc", "kport", "kkey", "klost", "air"})
    BY <1>1 DEF Peer, KeepsBut
  <2> HIDE DEF n
  <2>4. Sound(v, n)
    BY <1>1, <2>2, <2>3 DEF Sound, Peer, Registered, Ticketed, Attached,
       Engine, Ported, Keyed, IsLive, IsRetiring, KeepsBut
  <2> QED BY <1>3, <2>1, <2>3, <2>4
<1> QED BY <1>2, <1>3

\* The worker changes the kernel's view of its peer only.
WorkedOn(v, p, q) ==
  /\ Sound(v, q) /\ IsRetiring(q)
  /\ q.sid = p.sid /\ q.iid = p.iid /\ q.bid = p.bid
  /\ q.nGone = p.nGone /\ q.vid = p.vid /\ q.air \in {p.air, "none"}

LEMMA WorkerStation ==
  ASSUME NEW v \in BOOLEAN, NEW p, Sound(v, p), NEW j, JobClaim(j, p),
         j.kind = "Station"
  PROVE  /\ WorkedOn(v, p, DelStation(p, j.scopes))
         /\ DelStation(p, j.scopes).kat = "none"
         /\ WorkedOn(v, p, [p EXCEPT !.kkey = 0, !.klost = FALSE])
<1>1. p \in Peer /\ IsRetiring(p) /\ p.kat \in j.scopes \cup {"none"}
  BY DEF Sound, JobClaim
<1> DEFINE q == DelStation(p, j.scopes)
           k == [p EXCEPT !.kkey = 0, !.klost = FALSE]
<1>2. /\ Sound(v, q)
      /\ q.kat = IF p.kat \in j.scopes THEN "none" ELSE p.kat
      /\ KeepsBut(p, q, {"kat", "kassoc", "kport", "kkey", "klost", "air"})
      /\ q.air \in {p.air, "none"}
  BY <1>1, DelStationSound
<1>3. k \in Peer /\ k.kkey = 0 /\ KeepsBut(p, k, {"kkey", "klost"})
  BY <1>1 DEF Peer, KeepsBut
<1> HIDE DEF q, k
<1>4. WorkedOn(v, p, q) /\ q.kat = "none"
  BY <1>1, <1>2 DEF WorkedOn, KeepsBut, Peer, IsRetiring
<1>5. Sound(v, k)
  BY <1>1, <1>3 DEF Sound, Peer, Registered, Ticketed, Attached,
     Engine, Ported, Keyed, IsLive, IsRetiring, KeepsBut
<1>6. WorkedOn(v, p, k)
  BY <1>1, <1>3, <1>5 DEF WorkedOn, KeepsBut, Peer, IsRetiring
<1> QED BY <1>4, <1>6 DEF q, k

LEMMA WorkerInterface ==
  ASSUME NEW v \in BOOLEAN, NEW p, Sound(v, p), NEW j, JobClaim(j, p),
         j.kind = "Interface"
  PROVE  /\ WorkedOn(v, p, DelInterface(p)) /\ ~DelInterface(p).kif
         /\ WorkedOn(v, p, p)
<1>1. p \in Peer /\ IsRetiring(p)
  BY DEF Sound, JobClaim
<1>2. PICK d : d = DelStation(p, {"vlan"})
  OBVIOUS
<1>3. /\ Sound(v, d)
      /\ KeepsBut(p, d, {"kat", "kassoc", "kport", "kkey", "klost", "air"})
      /\ d.air \in {p.air, "none"}
  BY <1>1, <1>2, DelStationSound
<1>4. d \in Peer
  BY <1>3 DEF Sound
<1> DEFINE q == [d EXCEPT !.kif = FALSE, !.kgtk = "none"]
<1>5. DelInterface(p) = q
  BY <1>2 DEF DelInterface
<1>6. q \in Peer
  BY <1>4, KifType DEF GroupKey
<1>7. ~q.kif /\ KeepsBut(d, q, {"kif", "kgtk"})
  BY <1>4 DEF Peer, KeepsBut
<1> HIDE DEF q
<1>8. Sound(v, q)
  BY <1>3, <1>4, <1>6, <1>7 DEF Sound, Peer, Registered, Ticketed, Attached,
     Engine, Ported, Keyed, IsLive, IsRetiring, KeepsBut
<1>9. /\ d.phase = p.phase /\ d.sid = p.sid /\ d.iid = p.iid /\ d.bid = p.bid
      /\ d.nGone = p.nGone /\ d.vid = p.vid
  BY <1>1, <1>3 DEF KeepsBut, Peer
<1>10. /\ q.phase = d.phase /\ q.sid = d.sid /\ q.iid = d.iid /\ q.bid = d.bid
       /\ q.nGone = d.nGone /\ q.vid = d.vid /\ q.air = d.air
  BY <1>4, <1>7 DEF KeepsBut, Peer
<1>11. WorkedOn(v, p, q)
  BY <1>1, <1>3, <1>8, <1>9, <1>10 DEF WorkedOn, IsRetiring
<1>12. WorkedOn(v, p, p)
  BY <1>1 DEF WorkedOn
<1> QED BY <1>5, <1>7, <1>11, <1>12

-----------------------------------------------------------------------------
(* schedule_cleanup                                                        *)

LEMMA InUseFinite ==
  ASSUME queue \in Seq(Job), results \subseteq Result, IsFiniteSet(results),
         peer \in [Sta -> Peer]
  PROVE  IsFiniteSet(InUse \ {0})
<1> DEFINE fq == [i \in DOMAIN queue |-> queue[i].id]
           fr == [r \in results |-> r.id]
           fs == [t \in Sta |-> peer[t].sid]
           fi == [t \in Sta |-> peer[t].iid]
           fb == [t \in Sta |-> peer[t].bid]
           Q == {fq[i] : i \in DOMAIN queue}
           R == {fr[r] : r \in results}
           S == {fs[t] : t \in Sta}
           I == {fi[t] : t \in Sta}
           B == {fb[t] : t \in Sta}
<1>1. IsFiniteSet(Q)
  <2>1. IsFiniteSet(DOMAIN queue)
    <3>1. DOMAIN queue = 1 .. Len(queue) /\ Len(queue) \in Nat
      OBVIOUS
    <3> QED BY <3>1, FS_Interval
  <2>2. fq \in [DOMAIN queue -> Nat]
    <3>1. \A i \in DOMAIN queue : queue[i] \in Job
      OBVIOUS
    <3>2. \A i \in DOMAIN queue : queue[i].id \in Nat
      BY <3>1 DEF Job
    <3> QED BY <3>2
  <2> QED BY <2>1, <2>2, FiniteValues
<1>2. IsFiniteSet(R)
  <2>1. fr \in [results -> Nat]
    BY DEF Result
  <2> QED BY <2>1, FiniteValues
<1>3. IsFiniteSet(S) /\ IsFiniteSet(I) /\ IsFiniteSet(B)
  <2>1. fs \in [Sta -> Nat] /\ fi \in [Sta -> Nat] /\ fb \in [Sta -> Nat]
    BY DEF Peer
  <2> QED BY <2>1, BoundsAssumption, FiniteValues
<1>4. InUse \subseteq (Q \cup R) \cup ((S \cup I) \cup B)
  BY DEF InUse
<1>5. IsFiniteSet((Q \cup R) \cup ((S \cup I) \cup B))
  <2> HIDE DEF Q, R, S, I, B
  <2>1. IsFiniteSet(Q \cup R) /\ IsFiniteSet(S \cup I)
    BY <1>1, <1>2, <1>3, FS_Union
  <2>2. IsFiniteSet((S \cup I) \cup B)
    BY <1>3, <2>1, FS_Union
  <2> QED BY <2>1, <2>2, FS_Union
<1>6. IsFiniteSet(InUse)
  BY <1>4, <1>5, FS_Subset
<1> QED BY <1>6, FS_RemoveElement

LEMMA CleanupJobSound ==
  ASSUME NEW v \in BOOLEAN, NEW s \in Sta, NEW p, Sound(v, p), IsRetiring(p),
         IsFiniteSet(InUse \ {0}), NEW c \in CleanupJob(s, p)
  PROVE  /\ Sound(v, c.q) /\ JobClaim(c.job, c.q)
         /\ c.job \in Job /\ c.job.sta = s
         /\ p.sid = 0 /\ p.iid = 0 /\ p.bid = 0
         /\ c.q.nGone = p.nGone /\ c.q.air = p.air /\ c.q.vid = p.vid
<1> DEFINE id == Fresh(InUse \ {0})
           scopes == IF p.vid = 0 THEN {"base"}
                     ELSE IF p.onBase THEN {"base", "vlan"} ELSE {"vlan"}
           J(kind) == [id |-> id, sta |-> s, kind |-> kind, scopes |-> scopes]
<1>1. p \in Peer /\ id \in Nat /\ id # 0
  BY FreshNumber DEF Sound
<1>2. scopes \in SUBSET {"base", "vlan"} /\ p.kat \in scopes \cup {"none"}
  <2>1. p.kat \in {"none", "base", "vlan"}
    BY <1>1 DEF Peer
  <2> QED BY <2>1 DEF Sound, Registered
<1> HIDE DEF id, scopes
<1>3. ASSUME NEW k \in {"Station", "Interface"}
      PROVE  /\ J(k) \in Job /\ J(k).sta = s /\ J(k).id = id /\ J(k).kind = k
             /\ J(k).scopes = scopes
  BY <1>1, <1>2, <1>3 DEF Job
<1>4. ASSUME NEW q \in Peer, Sound(v, q), NEW k \in {"Station", "Interface"},
             IsRetiring(q), q.kat = p.kat,
             k = "Station" => id \in {q.sid, q.bid},
             k = "Interface" => q.iid = id
      PROVE  JobClaim(J(k), q)
  <2> HIDE DEF J
  <2> QED BY <1>1, <1>2, <1>3, <1>4 DEF JobClaim
<1>5. CASE p.vid # 0 /\ ~p.removed /\ p.sid = 0
  <2> DEFINE q == [p EXCEPT !.sid = id, !.sretry = "none"]
  <2>1. c = [when |-> {p.sretry}, job |-> J("Station"), q |-> q]
    BY <1>5 DEF CleanupJob, id, scopes
  <2>2. c.q = q /\ c.job = J("Station")
    BY <2>1
  <2>3. q \in Peer /\ q.sid = id /\ KeepsBut(p, q, {"sid", "sretry"})
    BY <1>1 DEF Peer, Deadlines, KeepsBut
  <2> HIDE DEF q
  <2>4. Sound(v, q)
    BY <1>1, <1>5, <2>3 DEF Sound, Peer, Registered, Ticketed, Attached,
       Engine, Ported, Keyed, IsLive, IsRetiring, KeepsBut
  <2>5. /\ IsRetiring(q) /\ q.kat = p.kat /\ q.nGone = p.nGone
        /\ q.air = p.air /\ q.vid = p.vid
    BY <1>1, <2>3 DEF KeepsBut, Peer, IsRetiring
  <2>6. JobClaim(J("Station"), q)
    BY <1>4, <2>3, <2>4, <2>5
  <2>7. p.iid = 0 /\ p.bid = 0
    BY <1>5 DEF Sound, Ticketed
  <2> HIDE DEF J
  <2> QED BY <1>3, <1>5, <2>2, <2>4, <2>5, <2>6, <2>7
<1>6. CASE p.vid # 0 /\ p.removed /\ p.iid = 0
  <2> DEFINE q == [p EXCEPT !.iid = id, !.iretry = "none"]
  <2>1. c = [when |-> {p.retire, p.iretry}, job |-> J("Interface"), q |-> q]
    BY <1>6 DEF CleanupJob, id, scopes
  <2>2. c.q = q /\ c.job = J("Interface")
    BY <2>1
  <2>3. q \in Peer /\ q.iid = id /\ KeepsBut(p, q, {"iid", "iretry"})
    BY <1>1 DEF Peer, Deadlines, KeepsBut
  <2> HIDE DEF q
  <2>4. Sound(v, q)
    BY <1>1, <1>6, <2>3 DEF Sound, Peer, Registered, Ticketed, Attached,
       Engine, Ported, Keyed, IsLive, IsRetiring, KeepsBut
  <2>5. /\ IsRetiring(q) /\ q.kat = p.kat /\ q.nGone = p.nGone
        /\ q.air = p.air /\ q.vid = p.vid
    BY <1>1, <2>3 DEF KeepsBut, Peer, IsRetiring
  <2>6. JobClaim(J("Interface"), q)
    BY <1>4, <2>3, <2>4, <2>5
  <2>7. p.sid = 0 /\ p.bid = 0
    BY <1>6 DEF Sound, Ticketed
  <2> HIDE DEF J
  <2> QED BY <1>3, <1>6, <2>2, <2>4, <2>5, <2>6, <2>7
<1>7. CASE p.vid = 0 /\ p.bid = 0 /\ (p.addr \/ p.base # "none")
  <2> DEFINE q == [p EXCEPT !.bid = id, !.base = "due"]
  <2>1. c = [when |-> {p.base}, job |-> J("Station"), q |-> q]
    BY <1>7 DEF CleanupJob, id, scopes
  <2>2. c.q = q /\ c.job = J("Station")
    BY <2>1
  <2>3. q \in Peer /\ q.bid = id /\ q.base = "due"
        /\ KeepsBut(p, q, {"bid", "base"})
    BY <1>1 DEF Peer, Deadlines, KeepsBut
  <2> HIDE DEF q
  <2>4. Sound(v, q)
    BY <1>1, <1>7, <2>3 DEF Sound, Peer, Registered, Ticketed, Attached,
       Engine, Ported, Keyed, IsLive, IsRetiring, KeepsBut
  <2>5. /\ IsRetiring(q) /\ q.kat = p.kat /\ q.nGone = p.nGone
        /\ q.air = p.air /\ q.vid = p.vid
    BY <1>1, <2>3 DEF KeepsBut, Peer, IsRetiring
  <2>6. JobClaim(J("Station"), q)
    BY <1>4, <2>3, <2>4, <2>5
  <2>7. p.sid = 0 /\ p.iid = 0
    BY <1>7 DEF Sound, Ticketed
  <2> HIDE DEF J
  <2> QED BY <1>3, <1>7, <2>2, <2>4, <2>5, <2>6, <2>7
<1>8. \/ p.vid # 0 /\ ~p.removed /\ p.sid = 0
      \/ p.vid # 0 /\ p.removed /\ p.iid = 0
      \/ p.vid = 0 /\ p.bid = 0 /\ (p.addr \/ p.base # "none")
  BY DEF CleanupJob
<1> QED BY <1>5, <1>6, <1>7, <1>8

-----------------------------------------------------------------------------
(* The inductive invariant                                                 *)

Typed ==
  /\ mode \in [vif: BOOLEAN, full: BOOLEAN]
  /\ pc \in Phase /\ todo \subseteq Sta
  /\ peer \in [Sta -> Peer]
  /\ apsc \in 0 .. MaxSc
  /\ queue \in Seq(Job) /\ results \subseteq Result /\ IsFiniteSet(results)
  /\ changed \in BOOLEAN /\ faults \in 0 .. MaxFaults

\* Every station is as the registry says, and nothing is notified late: from
\* the application of the results to the next event no departure is pending.
Stations ==
  /\ \A s \in Sta : Sound(mode.vif, peer[s]) /\ Settled(mode.vif, peer[s])
  /\ pc \in {"apply", "schedule", "recv"} => \A s \in Sta : ~peer[s].nGone
  /\ pc = "schedule" => \A s \in todo : IsRetiring(peer[s])

\* Jobs and results belong to retiring peers, and no two to the same one.
Claims ==
  /\ \A i \in DOMAIN queue : JobClaim(queue[i], peer[queue[i].sta])
  /\ \A r \in results : ResultClaim(r, peer[r.sta])
  /\ \A i, j \in DOMAIN queue : queue[i].sta = queue[j].sta => i = j
  /\ \A i \in DOMAIN queue, r \in results : r.sta # queue[i].sta
  /\ \A r, q \in results : r.sta = q.sta => r = q

\* No assignment names an AP_VLAN that a failed creation left behind.
Apart ==
  /\ strays \subseteq Nat \ {0}
  /\ \A s \in Sta : peer[s].vid \notin strays

KInv == Typed /\ Stations /\ Claims /\ Apart

\* What a step leaves of a peer p that becomes q.
Kept(v, p, q) ==
  /\ Sound(v, q) /\ Settled(v, q)
  /\ q.vid # p.vid => q.vid \notin strays'
  /\ IsRetiring(p) => Undisturbed(p, q)

\* The air, in such a step.
Heard(v, p, q) ==
  q.air \notin {"none", p.air} /\ ~q.assoc /\ p.txq = "none" =>
    q.kassoc /\ (v => q.kat = "vlan")

LEMMA KeptItself ==
  ASSUME NEW v, NEW p, Sound(v, p), Settled(v, p)
  PROVE  Kept(v, p, p) /\ Heard(v, p, p)
BY DEF Kept, Heard, Undisturbed

LEMMA RoutedKept ==
  ASSUME NEW v, NEW p, NEW o, Routed(v, p, o)
  PROVE  o \in Outcome /\ Kept(v, p, o.p) /\ Heard(v, p, o.p)
BY DEF Routed, Kept, Heard

LEMMA FineKept ==
  ASSUME NEW v, NEW p, NEW o, Fine(v, p, o), Settled(v, o.p)
  PROVE  o \in Outcome /\ Kept(v, p, o.p) /\ Heard(v, p, o.p)
BY FineRouted, RoutedKept

\* Such a step leaves the assignments apart from what creations left behind: at
\* most the id that was free may be added.
LEMMA KeptApart ==
  ASSUME KInv, strays' \subseteq strays \cup {FirstFreeVlanId},
         \A s \in Sta : Kept(mode.vif, peer[s], peer'[s])
  PROVE  Apart'
<1>1. peer \in [Sta -> Peer]
  BY DEF KInv, Typed
<1>2. PICK id \in Nat \ {0} : /\ id = FirstFreeVlanId
                             /\ \A t \in Sta : peer[t].vid # id
  BY <1>1, FirstFreeVlanIdType
<1>3. strays' \subseteq strays \cup {id}
  BY <1>2
<1>4. strays' \subseteq Nat \ {0}
  BY <1>3 DEF KInv, Apart
<1>5. ASSUME NEW t \in Sta
      PROVE  peer'[t].vid \notin strays'
  BY <1>2, <1>3 DEF KInv, Apart, Kept
<1> QED BY <1>4, <1>5 DEF Apart

\* So does a cleanup, which at most ends an assignment.
LEMMA ApartHeld ==
  ASSUME KInv, strays' = strays,
         \A t \in Sta : peer'[t].vid \in {peer[t].vid, 0}
  PROVE  Apart'
BY DEF KInv, Apart

\* A step that keeps every peer and leaves the worker's channels alone keeps
\* the claims.
LEMMA KeptClaims ==
  ASSUME Typed, Claims, UNCHANGED <<mode, queue, results>>,
         \A s \in Sta : Kept(mode.vif, peer[s], peer'[s])
  PROVE  Claims'
<1>1. \A i \in DOMAIN queue : queue[i] \in Job
  BY DEF Typed
<1>2. ASSUME NEW s \in Sta, NEW j, JobClaim(j, peer[s])
      PROVE  JobClaim(j, peer'[s])
  BY <1>2 DEF JobClaim, Kept, Undisturbed
<1>3. ASSUME NEW s \in Sta, NEW r, ResultClaim(r, peer[s])
      PROVE  ResultClaim(r, peer'[s])
  BY <1>3 DEF ResultClaim, Kept, Undisturbed
<1>4. \A i \in DOMAIN queue : queue[i].sta \in Sta
  BY <1>1 DEF Job
<1>5. \A r \in results : r.sta \in Sta
  BY DEF Typed, Result
<1>6. \A i \in DOMAIN queue : JobClaim(queue[i], peer'[queue[i].sta])
  BY <1>2, <1>4 DEF Claims
<1>7. \A r \in results : ResultClaim(r, peer'[r.sta])
  BY <1>3, <1>5 DEF Claims
<1>8. queue' = queue /\ results' = results
  OBVIOUS
<1> QED BY <1>6, <1>7, <1>8 DEF Claims

\* One station becomes one of the outcomes.
LEMMA BecomesKept ==
  ASSUME Typed, Stations, NEW s \in Sta, NEW outcomes, Becomes(s, outcomes),
         \A o \in outcomes : /\ o \in Outcome
                             /\ Kept(mode.vif, peer[s], o.p)
                             /\ Heard(mode.vif, peer[s], o.p)
  PROVE  /\ peer' \in [Sta -> Peer] /\ faults' \in 0 .. MaxFaults
         /\ \A t \in Sta : /\ Kept(mode.vif, peer[t], peer'[t])
                           /\ Heard(mode.vif, peer[t], peer'[t])
<1>1. PICK o \in outcomes : /\ faults + o.f <= MaxFaults
                            /\ faults' = faults + o.f
                            /\ peer' = [peer EXCEPT ![s] = o.p]
  BY DEF Becomes
<1>2. o.f \in Nat /\ o.p \in Peer
  BY DEF Outcome
<1>3. faults' \in 0 .. MaxFaults
  BY <1>1, <1>2, BoundsAssumption DEF Typed
<1>4. peer' \in [Sta -> Peer]
  BY <1>1, <1>2 DEF Typed
<1>5. ASSUME NEW t \in Sta
      PROVE  /\ Kept(mode.vif, peer[t], peer'[t])
             /\ Heard(mode.vif, peer[t], peer'[t])
  <2>1. CASE t = s
    BY <1>1, <2>1 DEF Typed
  <2>2. CASE t # s
    <3>1. peer'[t] = peer[t]
      BY <1>1, <2>2 DEF Typed
    <3>2. Sound(mode.vif, peer[t]) /\ Settled(mode.vif, peer[t])
      BY DEF Stations
    <3> QED BY <3>1, <3>2, KeptItself
  <2> QED BY <2>1, <2>2
<1> QED BY <1>3, <1>4, <1>5

\* One station changes in the engine only.
LEMMA ChangedKept ==
  ASSUME Typed, Stations, NEW s \in Sta, NEW q, peer' = [peer EXCEPT ![s] = q],
         Kept(mode.vif, peer[s], q), Heard(mode.vif, peer[s], q)
  PROVE  /\ peer' \in [Sta -> Peer]
         /\ \A t \in Sta : /\ Kept(mode.vif, peer[t], peer'[t])
                           /\ Heard(mode.vif, peer[t], peer'[t])
<1>1. q \in Peer
  BY DEF Kept, Sound
<1>2. peer' \in [Sta -> Peer]
  BY <1>1 DEF Typed
<1>3. ASSUME NEW t \in Sta
      PROVE  /\ Kept(mode.vif, peer[t], peer'[t])
             /\ Heard(mode.vif, peer[t], peer'[t])
  <2>1. CASE t = s
    BY <2>1 DEF Typed
  <2>2. CASE t # s
    <3>1. peer'[t] = peer[t]
      BY <2>2 DEF Typed
    <3>2. Sound(mode.vif, peer[t]) /\ Settled(mode.vif, peer[t])
      BY DEF Stations
    <3> QED BY <3>1, <3>2, KeptItself
  <2> QED BY <2>1, <2>2
<1> QED BY <1>2, <1>3

LEMMA EngagedKept ==
  ASSUME NEW v, NEW p, NEW q, Engaged(v, p, q)
  PROVE  Kept(v, p, q) /\ Heard(v, p, q)
BY DEF Engaged, Kept, Heard

\* A step of the loop outside cleanup: every peer is kept, the channels are
\* left alone, and the phase that follows has no obligation.
Ordinary ==
  /\ UNCHANGED <<mode, queue, results>>
  /\ strays' \subseteq strays \cup {FirstFreeVlanId}
  /\ pc' \in Phase \ {"apply", "schedule", "recv"}
  /\ todo' \subseteq Sta
  /\ peer' \in [Sta -> Peer]
  /\ \A s \in Sta : /\ Kept(mode.vif, peer[s], peer'[s])
                    /\ Heard(mode.vif, peer[s], peer'[s])
  /\ apsc' \in 0 .. MaxSc /\ changed' \in BOOLEAN /\ faults' \in 0 .. MaxFaults

LEMMA OrdinaryKeeps ==
  ASSUME KInv, Ordinary
  PROVE  KInv'
<1>1. Claims'
  BY KeptClaims DEF KInv, Ordinary
<1>2. Typed'
  BY DEF KInv, Typed, Ordinary
<1>3. Stations'
  <2>1. mode' = mode
    BY DEF Ordinary
  <2> QED BY <2>1 DEF Stations, Ordinary, Kept
<1>4. Apart'
  BY KeptApart DEF Ordinary
<1> QED BY <1>1, <1>2, <1>3, <1>4 DEF KInv

-----------------------------------------------------------------------------
(* The steps of the loop                                                   *)

LEMMA EngagedRouted ==
  ASSUME NEW v, NEW p, NEW q, Engaged(v, p, q), NEW o, Routed(v, q, o)
  PROVE  o \in Outcome /\ Kept(v, p, o.p) /\ Heard(v, p, o.p)
<1>1. IsRetiring(p) => Undisturbed(p, o.p)
  BY DEF Engaged, Routed, Undisturbed
<1>2. o.p.air \notin {"none", p.air} => o.p.air \notin {"none", q.air}
  BY DEF Engaged
<1>3. o.p.vid = p.vid
  BY DEF Engaged, Routed
<1> QED BY <1>1, <1>2, <1>3 DEF Routed, Kept, Heard

LEMMA EngagedIssued ==
  ASSUME NEW v, NEW p, NEW q, Engaged(v, p, q), NEW o, Issued(v, q, o),
         o.p.vid # p.vid => o.p.vid \notin strays'
  PROVE  o \in Outcome /\ Kept(v, p, o.p) /\ Heard(v, p, o.p)
<1>1. IsRetiring(p) => Undisturbed(p, o.p)
  BY DEF Engaged, Issued, Undisturbed
<1>2. o.p.air \notin {"none", p.air} => o.p.air \notin {"none", q.air}
  BY DEF Engaged
<1> QED BY <1>1, <1>2 DEF Issued, Kept, Heard

\* A creation adds at most the id it was given to what failed creations left
\* behind, and an assignment that was made is apart from them.
LEMMA NetdevsApart ==
  ASSUME NEW p, NEW q, strays' \in Netdevs(p, q)
  PROVE  /\ strays' \subseteq strays \cup {FirstFreeVlanId}
         /\ mode.vif /\ p.vid = 0 /\ q.vid # 0 => FirstFreeVlanId \notin strays'
BY DEF Netdevs

\* What the invariant says of one station.
LEMMA InvStation ==
  ASSUME KInv, NEW s \in Sta
  PROVE  /\ Context /\ mode.vif \in BOOLEAN
         /\ peer[s] \in Peer
         /\ Sound(mode.vif, peer[s]) /\ Settled(mode.vif, peer[s])
         /\ Kept(mode.vif, peer[s], peer[s])
         /\ Heard(mode.vif, peer[s], peer[s])
<1>1. mode \in [vif: BOOLEAN, full: BOOLEAN] /\ peer \in [Sta -> Peer]
  BY DEF KInv, Typed
<1>2. Sound(mode.vif, peer[s]) /\ Settled(mode.vif, peer[s])
  BY DEF KInv, Stations
<1> QED BY <1>1, <1>2, KeptItself DEF Context

\* EAPOL may leave in a handshake that is under way.
LEMMA PendingReady ==
  ASSUME NEW v \in BOOLEAN, NEW p, Sound(v, p), Settled(v, p), p.hs # "idle"
  PROVE  Ready(v, p)
<1>1. p \in Peer /\ p.kassoc \in BOOLEAN
  BY DEF Sound, Peer
<1>2. p.kassoc => p.phase # "None"
  BY <1>1 DEF Sound, Attached, Registered
<1> QED BY <1>2 DEF Ready, Settled, IsLive, IsRetiring

LEMMA KnownType ==
  ASSUME NEW p \in Peer
  PROVE  LET q == [p EXCEPT !.known = TRUE]
         IN q \in Peer /\ KeepsBut(p, q, {"known"})
<1>1. [p EXCEPT !.known = TRUE] \in Peer
  BY DEF Peer
<1>2. KeepsBut(p, [p EXCEPT !.known = TRUE], {"known"})
  BY DEF Peer, KeepsBut
<1> QED BY <1>1, <1>2

\* handle_auth_req
LEMMA RecvAuthOrdinary ==
  ASSUME KInv, NEW s \in Sta, RecvAuth(s)
  PROVE  Ordinary
<1> DEFINE v == mode.vif
           p == peer[s]
<1>1. /\ Context /\ v \in BOOLEAN /\ p \in Peer
      /\ Sound(v, p) /\ Settled(v, p)
  BY InvStation
<1>2. PICK reset \in BOOLEAN :
        Becomes(s, RouteAuth(IF reset THEN AuthReset(p)
                             ELSE [p EXCEPT !.known = TRUE]))
  BY DEF RecvAuth
<1>3. PICK q : q = IF reset THEN AuthReset(p) ELSE [p EXCEPT !.known = TRUE]
  OBVIOUS
<1>4. Engaged(v, p, q)
  <2>1. CASE reset
    BY <1>1, <1>3, <2>1, AuthResetEnds, EndedEngaged
  <2>2. CASE ~reset
    <3> HIDE DEF p, v
    <3>0. p \in Peer /\ q = [p EXCEPT !.known = TRUE]
      BY <1>1, <1>3, <2>2
    <3>1. q \in Peer /\ KeepsBut(p, q, {"known"})
      BY <3>0, KnownType
    <3>2. KeepsBut(p, q, Minor) /\ q.kport = p.kport /\ q.keyp = p.keyp
      BY <1>1, <3>1 DEF KeepsBut, Minor, Peer
    <3>3. Sound(v, q) /\ Follows(p, q)
      BY <1>1, <3>1, <3>2, MinorUpdate
    <3>4. Settled(v, q)
      BY <1>1, <3>1, SettledKept
    <3> QED BY <3>3, <3>4 DEF Engaged, Follows
  <2> QED BY <2>1, <2>2
<1>5. PICK o \in RouteAuth(q) : /\ faults + o.f <= MaxFaults
                                /\ faults' = faults + o.f
                                /\ peer' = [peer EXCEPT ![s] = o.p]
  BY <1>2, <1>3 DEF Becomes
<1>6. /\ Issued(v, q, o) /\ (~Reserves(q) => o.p.vid = q.vid)
      /\ q.vid = p.vid /\ (Reserves(q) => Reserves(p))
  <2>1. Sound(v, q) /\ Settled(v, q) /\ q.vid = p.vid
    BY <1>4 DEF Engaged
  <2>2. Made(v, q, o) /\ Settled(v, o.p) /\ (~Reserves(q) => o.p.vid = q.vid)
    BY <1>1, <1>5, <2>1, RouteAuthFine
  <2>3. q.phase = p.phase
    <3>1. CASE reset
      BY <1>1, <1>3, <3>1, AuthResetEnds DEF Ended, KeepsBut, Peer
    <3>2. CASE ~reset
      BY <1>1, <1>3, <3>2, KnownType DEF KeepsBut, Peer
    <3> QED BY <3>1, <3>2
  <2> QED BY <2>1, <2>2, <2>3, MadeIssued DEF Reserves
<1>7. /\ strays' \subseteq strays \cup {FirstFreeVlanId}
      /\ o.p.vid # p.vid => o.p.vid \notin strays'
  <2>1. peer'[s] = o.p
    BY <1>1, <1>5 DEF Context
  <2>2. CASE ~Reserves(p)
    BY <1>6, <2>2 DEF RecvAuth
  <2>3. CASE Reserves(p)
    <3>1. strays' \in Netdevs(p, o.p) /\ v
      BY <2>1, <2>3 DEF RecvAuth, Reserves
    <3>2. FirstFreeVlanId # 0
      BY FirstFreeVlanIdType DEF KInv, Typed
    <3> QED BY <1>6, <3>1, <3>2, NetdevsApart DEF Issued, Given
  <2> QED BY <2>2, <2>3
<1>8. /\ o \in Outcome /\ Kept(v, p, o.p) /\ Heard(v, p, o.p)
  BY <1>4, <1>6, <1>7, EngagedIssued
<1>9. Becomes(s, {o})
  BY <1>5 DEF Becomes
<1>10. /\ peer' \in [Sta -> Peer] /\ faults' \in 0 .. MaxFaults
       /\ \A t \in Sta : Kept(v, peer[t], peer'[t]) /\ Heard(v, peer[t], peer'[t])
  BY <1>8, <1>9, BecomesKept DEF KInv
<1>11. apsc' \in 0 .. MaxSc
  BY BoundsAssumption DEF RecvAuth
<1> QED BY <1>7, <1>10, <1>11 DEF KInv, Typed, Ordinary, RecvAuth, Received, Phase

\* handle_assoc_req
LEMMA RecvAssocOrdinary ==
  ASSUME KInv, NEW s \in Sta, RecvAssoc(s)
  PROVE  Ordinary
<1> DEFINE v == mode.vif
           p == peer[s]
<1>1. /\ Context /\ v \in BOOLEAN /\ p \in Peer
      /\ Sound(v, p) /\ Settled(v, p)
  BY InvStation
<1>2. ~p.nGone
  BY DEF KInv, Stations, RecvAssoc, Received
<1>3. PICK m \in {"m1", "m3"} : m = IF p.hs = "m3" THEN "m3" ELSE "m1"
  OBVIOUS
<1>4. PICK q : q = [p EXCEPT !.hs = m]
  OBVIOUS
<1>5. q \in Peer /\ q.hs = m /\ KeepsBut(p, q, {"hs"})
  BY <1>1, <1>4 DEF Peer, KeepsBut
<1>6. Engaged(v, p, q)
  <2>1. Sound(v, q)
    BY <1>1, <1>3, <1>5 DEF Sound, Peer, Registered, Ticketed, Attached,
       Engine, Ported, Keyed, IsLive, IsRetiring, KeepsBut
  <2>2. Settled(v, q)
    BY <1>1, <1>2, <1>3, <1>5 DEF Settled, IsLive, KeepsBut, Peer
  <2>3. q.air = p.air /\ q.vid = p.vid /\ (IsRetiring(p) => Undisturbed(p, q))
    BY <1>1, <1>5 DEF Undisturbed, IsRetiring, KeepsBut, Peer
  <2> QED BY <2>1, <2>2, <2>3 DEF Engaged
<1>7. apsc' \in 0 .. MaxSc /\ apsc' \in Nat /\ apsc' # 0
  BY BoundsAssumption DEF KInv, Typed, RecvAssoc
<1>8. PICK sc \in Nat : sc = apsc' /\ sc # 0
  BY <1>7
<1>9. Becomes(s, AndEapol(RouteAssocResponse(q, sc), m))
  BY <1>3, <1>4, <1>8 DEF RecvAssoc
<1>10. PICK o \in AndEapol(RouteAssocResponse(q, sc), m) :
         /\ faults + o.f <= MaxFaults /\ faults' = faults + o.f
         /\ peer' = [peer EXCEPT ![s] = o.p]
  BY <1>9 DEF Becomes
<1>11. /\ Issued(v, q, o) /\ (~Publishes(q) => o.p.vid = q.vid)
       /\ q.vid = p.vid /\ (Publishes(q) => Publishes(p))
  <2>1. Sound(v, q) /\ Settled(v, q) /\ q.vid = p.vid
    BY <1>6 DEF Engaged
  <2>2. Issued(v, q, o) /\ (~Publishes(q) => o.p.vid = q.vid)
    BY <1>1, <1>8, <1>10, <2>1, AndEapolRouted
  <2>3. q.phase = p.phase
    BY <1>1, <1>5 DEF KeepsBut, Peer
  <2> QED BY <2>1, <2>2, <2>3 DEF Publishes, IsRetiring
<1>12. /\ strays' \subseteq strays \cup {FirstFreeVlanId}
       /\ o.p.vid # p.vid => o.p.vid \notin strays'
  <2>1. peer'[s] = o.p
    BY <1>1, <1>10 DEF Context
  <2>2. CASE ~Publishes(p)
    BY <1>11, <2>2 DEF RecvAssoc
  <2>3. CASE Publishes(p)
    <3>1. strays' \in Netdevs(p, o.p)
      BY <2>1, <2>3 DEF RecvAssoc
    <3>2. FirstFreeVlanId # 0
      BY FirstFreeVlanIdType DEF KInv, Typed
    <3>3. o.p.vid # 0 => v
      BY <1>11 DEF Issued, Sound, Keyed
    <3> QED BY <1>11, <3>1, <3>2, <3>3, NetdevsApart DEF Issued, Given
  <2> QED BY <2>2, <2>3
<1>13. o \in Outcome /\ Kept(v, p, o.p) /\ Heard(v, p, o.p)
  BY <1>6, <1>11, <1>12, EngagedIssued
<1>14. Becomes(s, {o})
  BY <1>10 DEF Becomes
<1>15. /\ peer' \in [Sta -> Peer] /\ faults' \in 0 .. MaxFaults
       /\ \A t \in Sta : Kept(v, peer[t], peer'[t]) /\ Heard(v, peer[t], peer'[t])
  BY <1>13, <1>14, BecomesKept DEF KInv
<1> QED BY <1>7, <1>12, <1>15 DEF KInv, Typed, Ordinary, RecvAssoc, Received, Phase

\* Messages 2 and 4 of the four-way handshake.
LEMMA RecvM2Ordinary ==
  ASSUME KInv, NEW s \in Sta, RecvM2(s)
  PROVE  Ordinary
<1> DEFINE v == mode.vif
           p == peer[s]
<1>1. /\ v \in BOOLEAN /\ Sound(v, p) /\ Settled(v, p)
  BY InvStation
<1>2. PICK q : q = Message2(p)
  OBVIOUS
<1>3. Engaged(v, p, q) /\ q.hs = "m3"
  BY <1>1, <1>2, Message2Engaged DEF RecvM2
<1>4. Ready(v, q)
  BY <1>1, <1>3, PendingReady DEF Engaged
<1>5. Becomes(s, RouteEapol(q, "m3"))
  BY <1>2 DEF RecvM2
<1>6. ASSUME NEW o \in RouteEapol(q, "m3")
      PROVE  o \in Outcome /\ Kept(v, p, o.p) /\ Heard(v, p, o.p)
  <2>1. Routed(v, q, o)
    BY <1>1, <1>3, <1>4, <1>6, RouteEapolRouted DEF Engaged
  <2> QED BY <1>3, <2>1, EngagedRouted
<1>7. /\ peer' \in [Sta -> Peer] /\ faults' \in 0 .. MaxFaults
      /\ \A t \in Sta : Kept(v, peer[t], peer'[t]) /\ Heard(v, peer[t], peer'[t])
  BY <1>5, <1>6, BecomesKept DEF KInv
<1> QED BY <1>7 DEF KInv, Typed, Ordinary, RecvM2, Received, Phase

LEMMA RecvM2AgainOrdinary ==
  ASSUME KInv, NEW s \in Sta, RecvM2Again(s)
  PROVE  Ordinary
<1> DEFINE v == mode.vif
           p == peer[s]
<1>1. v \in BOOLEAN /\ p \in Peer /\ Sound(v, p) /\ Settled(v, p)
  BY InvStation
<1>2. PICK c \in {p.cand, NewKey(p)} \cap (1 .. MaxKey) :
        \E older \in IF c = p.cand THEN {p.alt} ELSE {p.cand, p.alt} :
          Becomes(s, RouteEapol(Message2Again(p, c, older), "m3"))
  BY DEF RecvM2Again
<1>3. PICK older \in {p.cand, p.alt} :
        Becomes(s, RouteEapol(Message2Again(p, c, older), "m3"))
  BY <1>2
<1>4. c \in Nat /\ c # 0 /\ older \in Nat
  BY <1>1 DEF Peer
<1>5. PICK q : q = Message2Again(p, c, older)
  OBVIOUS
<1>6. Engaged(v, p, q) /\ q.hs = "m3"
  BY <1>1, <1>4, <1>5, Message2AgainEngaged DEF RecvM2Again
<1>7. Ready(v, q)
  BY <1>1, <1>6, PendingReady DEF Engaged
<1>8. Becomes(s, RouteEapol(q, "m3"))
  BY <1>3, <1>5
<1>9. ASSUME NEW o \in RouteEapol(q, "m3")
      PROVE  o \in Outcome /\ Kept(v, p, o.p) /\ Heard(v, p, o.p)
  <2>1. Routed(v, q, o)
    BY <1>1, <1>6, <1>7, <1>9, RouteEapolRouted DEF Engaged
  <2> QED BY <1>6, <2>1, EngagedRouted
<1>10. /\ peer' \in [Sta -> Peer] /\ faults' \in 0 .. MaxFaults
       /\ \A t \in Sta : Kept(v, peer[t], peer'[t]) /\ Heard(v, peer[t], peer'[t])
  BY <1>8, <1>9, BecomesKept DEF KInv
<1> QED BY <1>10 DEF KInv, Typed, Ordinary, RecvM2Again, Received, Phase

LEMMA RecvM4Ordinary ==
  ASSUME KInv, NEW s \in Sta, RecvM4(s)
  PROVE  Ordinary
<1>0. PICK tk \in {peer[s].cand, peer[s].alt} \ {0} :
        peer' = [peer EXCEPT ![s] = Message4(@, tk)]
  BY DEF RecvM4
<1>4. tk \in Nat /\ tk # 0
  BY InvStation DEF Peer
<1>1. Kept(mode.vif, peer[s], Message4(peer[s], tk))
      /\ Heard(mode.vif, peer[s], Message4(peer[s], tk))
  BY <1>4, InvStation, Message4Engaged, EngagedKept DEF RecvM4
<1>2. peer' = [peer EXCEPT ![s] = Message4(peer[s], tk)]
  BY <1>0
<1>3. /\ peer' \in [Sta -> Peer]
      /\ \A t \in Sta : /\ Kept(mode.vif, peer[t], peer'[t])
                        /\ Heard(mode.vif, peer[t], peer'[t])
  BY <1>1, <1>2, ChangedKept DEF KInv
<1> QED BY <1>3 DEF KInv, Typed, Ordinary, RecvM4, Received, Phase

\* A departure: RecvDeauth and TickExpire.
LEMMA DisconnectKept ==
  ASSUME KInv, NEW s \in Sta, peer' = [peer EXCEPT ![s] = Disconnect(@)]
  PROVE  /\ peer' \in [Sta -> Peer]
         /\ \A t \in Sta : /\ Kept(mode.vif, peer[t], peer'[t])
                           /\ Heard(mode.vif, peer[t], peer'[t])
<1>1. Kept(mode.vif, peer[s], Disconnect(peer[s]))
      /\ Heard(mode.vif, peer[s], Disconnect(peer[s]))
  BY InvStation, DisconnectEngaged, EngagedKept
<1>2. peer' = [peer EXCEPT ![s] = Disconnect(peer[s])]
  OBVIOUS
<1> QED BY <1>1, <1>2, ChangedKept DEF KInv

LEMMA DepartureOrdinary ==
  ASSUME KInv, NEW s \in Sta, RecvDeauth(s) \/ TickExpire(s)
  PROVE  Ordinary
<1>1. CASE RecvDeauth(s)
  <2>1. /\ peer' \in [Sta -> Peer]
        /\ \A t \in Sta : /\ Kept(mode.vif, peer[t], peer'[t])
                          /\ Heard(mode.vif, peer[t], peer'[t])
    BY <1>1, DisconnectKept DEF RecvDeauth
  <2> QED BY <1>1, <2>1 DEF KInv, Typed, Ordinary, RecvDeauth, Received, Phase
<1>2. CASE TickExpire(s)
  <2>1. /\ peer' \in [Sta -> Peer]
        /\ \A t \in Sta : /\ Kept(mode.vif, peer[t], peer'[t])
                          /\ Heard(mode.vif, peer[t], peer'[t])
    BY <1>2, DisconnectKept DEF TickExpire
  <2> QED BY <1>2, <2>1 DEF KInv, Typed, Ordinary, TickExpire, Ticked, Phase
<1> QED BY <1>1, <1>2

\* The TX status of an Association Response, or its absence.
LEMMA TxStatusOrdinary ==
  ASSUME KInv, NEW s \in Sta, TxStatus(s)
  PROVE  Ordinary
<1> DEFINE v == mode.vif
           p == peer[s]
<1>1. /\ Context /\ v \in BOOLEAN /\ p \in Peer
      /\ Sound(v, p) /\ Settled(v, p)
  BY InvStation
<1>2. PICK sc \in p.txs, acked \in BOOLEAN :
        LET q == [p EXCEPT !.txs = @ \ {sc}]
        IN Becomes(s, IF ~TxStatusMatches(q, sc) THEN Done(q)
                      ELSE IF acked THEN AckedResponse(q)
                      ELSE Done(LostResponse(q)))
  BY DEF TxStatus
<1>3. PICK q : q = [p EXCEPT !.txs = @ \ {sc}]
  OBVIOUS
<1>4. sc # 0
  BY <1>1 DEF Sound, Attached
<1>5. q \in Peer /\ q.txs = p.txs \ {sc} /\ KeepsBut(p, q, {"txs"})
  <2> HIDE DEF p, v
  <2>1. p \in Peer
    BY <1>1
  <2> QED BY <1>3, <2>1 DEF Peer, KeepsBut
<1>6. Engaged(v, p, q)
  <2> HIDE DEF p, v
  <2>1. Sound(v, q)
    BY <1>1, <1>5 DEF Sound, Peer, Registered, Ticketed, Attached,
       Engine, Ported, Keyed, IsLive, IsRetiring, KeepsBut
  <2>2. Settled(v, q)
    BY <1>1, <1>5, SettledKept
  <2>3. q.air = p.air /\ q.vid = p.vid /\ (IsRetiring(p) => Undisturbed(p, q))
    BY <1>1, <1>5 DEF Undisturbed, IsRetiring, KeepsBut, Peer
  <2> QED BY <2>1, <2>2, <2>3 DEF Engaged
<1> DEFINE A == IF ~TxStatusMatches(q, sc) THEN Done(q)
                ELSE IF acked THEN AckedResponse(q)
                ELSE Done(LostResponse(q))
<1>7. ASSUME NEW o \in A
      PROVE  o \in Outcome /\ Kept(v, p, o.p) /\ Heard(v, p, o.p)
  <2>1. CASE q.sc # sc
    <3>1. o \in Outcome /\ o.p = q
      BY <1>5, <1>7, <2>1, DoneOutcomes DEF TxStatusMatches
    <3> QED BY <1>6, <3>1, EngagedKept
  <2>2. CASE q.sc = sc
    <3>1. Routed(v, q, o)
      BY <1>1, <1>4, <1>6, <1>7, <2>2, AckedResponseRouted,
         LostResponseRouted DEF Engaged, TxStatusMatches
    <3> QED BY <1>6, <3>1, EngagedRouted
  <2> QED BY <2>1, <2>2
<1>8. Becomes(s, A)
  BY <1>2, <1>3
<1> HIDE DEF A
<1>9. /\ peer' \in [Sta -> Peer] /\ faults' \in 0 .. MaxFaults
      /\ \A t \in Sta : Kept(v, peer[t], peer'[t]) /\ Heard(v, peer[t], peer'[t])
  BY <1>7, <1>8, BecomesKept DEF KInv
<1> QED BY <1>9 DEF KInv, Typed, Ordinary, TxStatus, Received, Phase

LEMMA ReleaseStalledOrdinary ==
  ASSUME KInv, NEW s \in Sta, ReleaseStalled(s)
  PROVE  Ordinary
<1>1. ASSUME NEW o \in AckedResponse(peer[s])
      PROVE  /\ o \in Outcome /\ Kept(mode.vif, peer[s], o.p)
             /\ Heard(mode.vif, peer[s], o.p)
  BY <1>1, InvStation, AckedResponseRouted, RoutedKept DEF ReleaseStalled
<1>2. /\ peer' \in [Sta -> Peer] /\ faults' \in 0 .. MaxFaults
      /\ \A t \in Sta : /\ Kept(mode.vif, peer[t], peer'[t])
                        /\ Heard(mode.vif, peer[t], peer'[t])
  BY <1>1, BecomesKept DEF KInv, ReleaseStalled
<1> QED BY <1>2 DEF KInv, Typed, Ordinary, ReleaseStalled, Phase

\* tick_protocol
LEMMA TickRetransmitOrdinary ==
  ASSUME KInv, NEW s \in Sta, TickRetransmit(s)
  PROVE  Ordinary
<1> DEFINE v == mode.vif
           p == peer[s]
<1>1. v \in BOOLEAN /\ p \in Peer /\ Sound(v, p) /\ Settled(v, p)
  BY InvStation
<1>2. PICK m \in {"m1", "m3"} : m = p.hs
  BY <1>1 DEF TickRetransmit, Peer
<1>3. Ready(v, p)
  BY <1>1, PendingReady DEF TickRetransmit
<1>4. ASSUME NEW o \in RouteEapol(p, m)
      PROVE  o \in Outcome /\ Kept(v, p, o.p) /\ Heard(v, p, o.p)
  BY <1>1, <1>2, <1>3, <1>4, RouteEapolRouted, RoutedKept
<1>5. Becomes(s, RouteEapol(p, m))
  BY <1>2 DEF TickRetransmit
<1>6. /\ peer' \in [Sta -> Peer] /\ faults' \in 0 .. MaxFaults
      /\ \A t \in Sta : Kept(v, peer[t], peer'[t]) /\ Heard(v, peer[t], peer'[t])
  BY <1>4, <1>5, BecomesKept DEF KInv
<1> QED BY <1>6 DEF KInv, Typed, Ordinary, TickRetransmit, Ticked, Phase

\* A group key that is replaced concerns nothing else of its station.
LEMMA GroupKeyKept ==
  ASSUME NEW v \in BOOLEAN, NEW p, Sound(v, p), Settled(v, p), NEW q \in Peer,
         KeepsBut(p, q, {"vgtk", "kgtk"})
  PROVE  Kept(v, p, q) /\ Heard(v, p, q)
<1>1. p \in Peer
  BY DEF Sound
<1>2. KeepsBut(p, q, Minor) /\ q.kport = p.kport /\ q.keyp = p.keyp
  BY <1>1 DEF KeepsBut, Minor, Peer
<1>3. Sound(v, q) /\ Follows(p, q)
  BY <1>1, <1>2, MinorUpdate
<1>4. Settled(v, q)
  BY <1>1, SettledKept
<1> QED BY <1>3, <1>4 DEF Kept, Heard, Follows

LEMMA TickRekeyOrdinary ==
  ASSUME KInv, TickRekey
  PROVE  Ordinary
<1>1. ASSUME NEW s \in Sta, mode.vif
      PROVE  /\ RotateStationGtk(peer[s]) \in Peer
             /\ Kept(mode.vif, peer[s], RotateStationGtk(peer[s]))
             /\ Heard(mode.vif, peer[s], RotateStationGtk(peer[s]))
  <2>1. /\ mode.vif \in BOOLEAN /\ peer[s] \in Peer
        /\ Sound(mode.vif, peer[s]) /\ Settled(mode.vif, peer[s])
        /\ Kept(mode.vif, peer[s], peer[s])
        /\ Heard(mode.vif, peer[s], peer[s])
    BY InvStation
  <2>2. NewGtk(peer[s]) \in Peer
        /\ KeepsBut(peer[s], NewGtk(peer[s]), {"vgtk", "kgtk"})
    BY <2>1, NewGtkType
  <2>3. CASE peer[s].assoc
    BY <2>1, <2>2, <2>3, GroupKeyKept DEF RotateStationGtk
  <2>4. CASE ~peer[s].assoc
    BY <2>1, <2>4 DEF RotateStationGtk
  <2> QED BY <2>3, <2>4
<1>2. /\ peer' \in [Sta -> Peer]
      /\ \A s \in Sta : /\ Kept(mode.vif, peer[s], peer'[s])
                        /\ Heard(mode.vif, peer[s], peer'[s])
  <2>1. CASE mode.vif
    BY <1>1, <2>1 DEF TickRekey
  <2>2. CASE ~mode.vif
    BY <2>2, InvStation DEF KInv, Typed, TickRekey
  <2> QED BY <2>1, <2>2
<1> QED BY <1>2 DEF KInv, Typed, Ordinary, TickRekey, Ticked, Phase

\* reconcile_stations
LEMMA ReconcileStationOrdinary ==
  ASSUME KInv, NEW s \in Sta, ReconcileStation(s)
  PROVE  Ordinary
<1> DEFINE A == AndAuthorize(InstallPending(DrainRemoved(peer[s])))
<1>1. ASSUME NEW o \in A
      PROVE  /\ o \in Outcome /\ Kept(mode.vif, peer[s], o.p)
             /\ Heard(mode.vif, peer[s], o.p)
  BY <1>1, InvStation, ReconcileFine, FineKept
<1>2. Becomes(s, A)
  BY DEF ReconcileStation
<1> HIDE DEF A
<1>3. /\ peer' \in [Sta -> Peer] /\ faults' \in 0 .. MaxFaults
      /\ \A t \in Sta : /\ Kept(mode.vif, peer[t], peer'[t])
                        /\ Heard(mode.vif, peer[t], peer'[t])
  BY <1>1, <1>2, BecomesKept DEF KInv
<1> QED BY <1>3 DEF KInv, Typed, Ordinary, ReconcileStation, Phase

\* reconcile_group_keys
LEMMA PublishedType ==
  ASSUME NEW p \in Peer
  PROVE  LET q == [p EXCEPT !.vgtk = "current", !.kgtk = "current"]
             u == [p EXCEPT !.kgtk = "current"]
         IN /\ q \in Peer /\ KeepsBut(p, q, {"vgtk", "kgtk"})
            /\ u \in Peer /\ KeepsBut(p, u, {"vgtk", "kgtk"})
<1>1. [p EXCEPT !.vgtk = "current", !.kgtk = "current"] \in Peer
  BY DEF Peer, GroupKey
<1>2. KeepsBut(p, [p EXCEPT !.vgtk = "current", !.kgtk = "current"],
               {"vgtk", "kgtk"})
  BY DEF Peer, KeepsBut
<1>3. [p EXCEPT !.kgtk = "current"] \in Peer
  BY DEF Peer, GroupKey
<1>4. KeepsBut(p, [p EXCEPT !.kgtk = "current"], {"vgtk", "kgtk"})
  BY DEF Peer, KeepsBut
<1> QED BY <1>1, <1>2, <1>3, <1>4

LEMMA ReconcileGroupKeysOrdinary ==
  ASSUME KInv, ReconcileGroupKeys
  PROVE  Ordinary
<1> DEFINE Published(p) == [p EXCEPT !.vgtk = "current", !.kgtk = "current"]
           Unrecorded(p) == [p EXCEPT !.kgtk = "current"]
<1>1. PICK badBase \in {FALSE, changed}, bad \in SUBSET GroupStations,
           lost \in SUBSET GroupStations :
        LET failed == Cardinality(bad) + (IF badBase THEN 1 ELSE 0)
        IN /\ faults + failed <= MaxFaults
           /\ faults' = faults + failed
           /\ changed' = (changed /\ failed # 0)
           /\ lost \subseteq bad
           /\ peer' = [s \in Sta |->
                CASE s \in GroupStations \ bad -> Published(peer[s])
                  [] s \in lost -> Unrecorded(peer[s])
                  [] OTHER -> peer[s]]
  BY DEF ReconcileGroupKeys
<1>2. Cardinality(bad) \in Nat
  <2>1. GroupStations \subseteq Sta
    BY DEF GroupStations
  <2>2. IsFiniteSet(bad)
    BY <2>1, BoundsAssumption, FS_Subset
  <2> QED BY <2>2, FS_CardinalityType
<1>3. PICK failed \in Nat : /\ faults + failed <= MaxFaults
                            /\ faults' = faults + failed
                            /\ changed' = (changed /\ failed # 0)
  <2>1. Cardinality(bad) + (IF badBase THEN 1 ELSE 0) \in Nat
    BY <1>2
  <2> QED BY <1>1, <2>1
<1>4. faults' \in 0 .. MaxFaults /\ changed' \in BOOLEAN
  BY <1>3, BoundsAssumption DEF KInv, Typed
<1>5. ASSUME NEW s \in Sta
      PROVE  /\ peer'[s] \in Peer
             /\ Kept(mode.vif, peer[s], peer'[s])
             /\ Heard(mode.vif, peer[s], peer'[s])
  <2>1. /\ mode.vif \in BOOLEAN /\ peer[s] \in Peer
        /\ Sound(mode.vif, peer[s]) /\ Settled(mode.vif, peer[s])
        /\ Kept(mode.vif, peer[s], peer[s])
        /\ Heard(mode.vif, peer[s], peer[s])
    BY InvStation
  <2>2. Published(peer[s]) \in Peer
        /\ KeepsBut(peer[s], Published(peer[s]), {"vgtk", "kgtk"})
        /\ Unrecorded(peer[s]) \in Peer
        /\ KeepsBut(peer[s], Unrecorded(peer[s]), {"vgtk", "kgtk"})
    BY <2>1, PublishedType
  <2> HIDE DEF Published, Unrecorded
  <2>3. peer'[s] \in {peer[s], Published(peer[s]), Unrecorded(peer[s])}
    BY <1>1
  <2> QED BY <2>1, <2>2, <2>3, GroupKeyKept
<1>6. peer' \in [Sta -> Peer]
  <2> HIDE DEF Published, Unrecorded
  <2>1. peer' = [s \in Sta |-> peer'[s]]
    BY <1>1
  <2> QED BY <1>5, <2>1
<1> QED BY <1>4, <1>5, <1>6 DEF KInv, Typed, Ordinary, ReconcileGroupKeys, Phase

\* A phase in which nothing happens.
LEMMA IdleOrdinary ==
  ASSUME KInv, RecvNothing \/ StalledDone \/ TickIdle \/ ReconcileDone
  PROVE  Ordinary
<1>1. /\ UNCHANGED <<mode, peer, queue, results, apsc, changed,
                    strays, faults>>
      /\ pc' \in Phase \ {"apply", "schedule", "recv"}
      /\ todo' \subseteq Sta
  BY DEF KInv, Typed, RecvNothing, Received, StalledDone, TickIdle, Ticked,
     ReconcileDone, Phase
<1>2. \A s \in Sta : /\ Kept(mode.vif, peer[s], peer'[s])
                     /\ Heard(mode.vif, peer[s], peer'[s])
  BY <1>1, InvStation
<1> QED BY <1>1, <1>2 DEF KInv, Typed, Ordinary

-----------------------------------------------------------------------------
(* The steps of cleanup and of the workers                                 *)

\* No frame appears on the air where it may not.
AllHeard == \A s \in Sta : Heard(mode.vif, peer[s], peer'[s])

\* A step outside the loop that keeps every peer.
LEMMA AsideKeeps ==
  ASSUME KInv,
         UNCHANGED <<mode, pc, todo, apsc, queue, results, changed, strays,
                    faults>>,
         peer' \in [Sta -> Peer],
         \A s \in Sta : /\ Kept(mode.vif, peer[s], peer'[s])
                        /\ peer'[s].nGone = peer[s].nGone
  PROVE  KInv'
<1>1. Claims'
  BY KeptClaims DEF KInv
<1>2. Typed'
  BY DEF KInv, Typed
<1>3. Stations'
  <2>1. mode' = mode /\ pc' = pc /\ todo' = todo /\ todo \subseteq Sta
    BY DEF KInv, Typed
  <2>2. \A s \in todo : IsRetiring(peer[s]) => IsRetiring(peer'[s])
    BY <2>1 DEF Kept, Undisturbed
  <2>3. \A s \in Sta : /\ Sound(mode.vif, peer'[s])
                       /\ Settled(mode.vif, peer'[s])
    BY DEF Kept
  <2> QED BY <2>1, <2>2, <2>3 DEF KInv, Stations
<1>4. Apart'
  BY KeptApart
<1> QED BY <1>1, <1>2, <1>3, <1>4 DEF KInv

LEMMA StutterKeeps ==
  ASSUME KInv, UNCHANGED vars
  PROVE  KInv' /\ AllHeard
<1>1. /\ UNCHANGED <<mode, pc, todo, apsc, queue, results, changed, strays,
                    faults>>
      /\ peer' = peer
  BY DEF vars
<1>2. \A s \in Sta : /\ Kept(mode.vif, peer[s], peer'[s])
                     /\ Heard(mode.vif, peer[s], peer'[s])
                     /\ peer'[s].nGone = peer[s].nGone
  BY <1>1, InvStation
<1>3. peer' \in [Sta -> Peer]
  BY <1>1 DEF KInv, Typed
<1> QED BY <1>1, <1>2, <1>3, AsideKeeps DEF AllHeard

LEMMA SentType ==
  ASSUME NEW p \in Peer, NEW a \in {"none", "m1", "m3"}
  PROVE  LET q == [p EXCEPT !.txq = "none", !.air = a]
         IN q \in Peer /\ q.air = a /\ KeepsBut(p, q, {"txq", "air"})
<1>1. [p EXCEPT !.txq = "none", !.air = a] \in Peer
  BY DEF Peer
<1>2. [p EXCEPT !.txq = "none", !.air = a].air = a
  BY DEF Peer
<1>3. KeepsBut(p, [p EXCEPT !.txq = "none", !.air = a], {"txq", "air"})
  BY DEF Peer, KeepsBut
<1> QED BY <1>1, <1>2, <1>3

\* The EAPOL worker thread.
LEMMA EapolWorkerKeeps ==
  ASSUME KInv, NEW s \in Sta, EapolWorker(s)
  PROVE  KInv' /\ AllHeard
<1> DEFINE v == mode.vif
           p == peer[s]
<1>1. v \in BOOLEAN /\ p \in Peer /\ Sound(v, p) /\ Settled(v, p)
  BY InvStation
<1>2. PICK a : a = IF p.kassoc THEN p.txq ELSE p.air
  OBVIOUS
<1>3. a \in {"none", "m1", "m3"} /\ (a # "none" => p.kassoc)
  BY <1>1, <1>2 DEF Sound, Attached, Peer
<1>4. PICK q : q = [p EXCEPT !.txq = "none", !.air = a]
  OBVIOUS
<1>5. q \in Peer /\ q.air = a /\ KeepsBut(p, q, {"txq", "air"})
  BY <1>1, <1>3, <1>4, SentType
<1>6. peer' = [peer EXCEPT ![s] = q]
  BY <1>2, <1>4 DEF EapolWorker
<1>7. Kept(v, p, q) /\ q.nGone = p.nGone
  <2> HIDE DEF p, v
  <2>1. Sound(v, q)
    BY <1>1, <1>3, <1>5 DEF Sound, Peer, Registered, Ticketed, Attached,
       Engine, Ported, Keyed, IsLive, IsRetiring, KeepsBut
  <2>2. Settled(v, q)
    BY <1>1, <1>5, SettledKept
  <2>3. q.nGone = p.nGone /\ q.vid = p.vid /\ (IsRetiring(p) => Undisturbed(p, q))
    BY <1>1, <1>5 DEF Undisturbed, IsRetiring, KeepsBut, Peer
  <2> QED BY <2>1, <2>2, <2>3 DEF Kept
<1>8. Heard(v, p, q)
  BY DEF Heard, EapolWorker
<1>9. /\ peer' \in [Sta -> Peer]
      /\ \A t \in Sta : Kept(v, peer[t], peer'[t]) /\ Heard(v, peer[t], peer'[t])
  BY <1>6, <1>7, <1>8, ChangedKept DEF KInv
<1>10. \A t \in Sta : peer'[t].nGone = peer[t].nGone
  BY <1>6, <1>7 DEF KInv, Typed
<1>11. UNCHANGED <<mode, pc, todo, apsc, queue, results, changed, strays,
                    faults>>
  BY DEF EapolWorker
<1> QED BY <1>9, <1>10, <1>11, AsideKeeps DEF AllHeard

\* A step into a phase at which no departure may be pending.
LEMMA QuietKeeps ==
  ASSUME KInv,
         UNCHANGED <<mode, todo, apsc, queue, results, changed, strays, faults>>,
         pc' \in {"apply", "recv"}, peer' \in [Sta -> Peer],
         \A s \in Sta : /\ Kept(mode.vif, peer[s], peer'[s])
                        /\ ~peer'[s].nGone
  PROVE  KInv'
<1>1. Claims'
  BY KeptClaims DEF KInv
<1>2. Typed'
  BY DEF KInv, Typed, Phase
<1>3. Stations'
  <2>1. mode' = mode /\ pc' # "schedule"
    OBVIOUS
  <2>2. \A s \in Sta : /\ Sound(mode.vif, peer'[s])
                       /\ Settled(mode.vif, peer'[s])
    BY DEF Kept
  <2> QED BY <2>1, <2>2 DEF Stations
<1>4. Apart'
  BY KeptApart
<1> QED BY <1>1, <1>2, <1>3, <1>4 DEF KInv

LEMMA ScheduleDoneKeeps ==
  ASSUME KInv, ScheduleDone
  PROVE  KInv' /\ AllHeard
<1>1. /\ UNCHANGED <<mode, todo, apsc, queue, results, changed, strays, faults>>
      /\ peer' = peer /\ pc = "schedule" /\ pc' \in {"apply", "recv"}
  BY DEF ScheduleDone
<1>2. \A s \in Sta : /\ Kept(mode.vif, peer[s], peer'[s])
                     /\ Heard(mode.vif, peer[s], peer'[s])
                     /\ ~peer'[s].nGone
  BY <1>1, InvStation DEF KInv, Stations
<1>3. peer' \in [Sta -> Peer]
  BY <1>1 DEF KInv, Typed
<1> QED BY <1>1, <1>2, <1>3, QuietKeeps DEF AllHeard

\* publish_events retires every station that departed.
LEMMA PublishEventsKept ==
  ASSUME NEW v \in BOOLEAN, NEW p, NEW d, Engaged(v, p, d)
  PROVE  LET q == PublishEvents(d)
         IN Kept(v, p, q) /\ Heard(v, p, q) /\ ~q.nGone
<1>1. d \in Peer /\ Sound(v, d) /\ d.nGone \in BOOLEAN
  BY DEF Engaged, Sound, Peer
<1>2. CASE ~d.nGone
  <2>1. PublishEvents(d) = d
    BY <1>2 DEF PublishEvents
  <2> QED BY <1>2, <2>1, EngagedKept
<1>3. CASE d.nGone
  <2>1. PICK e : e = [d EXCEPT !.nGone = FALSE]
    OBVIOUS
  <2>2. e \in Peer /\ ~e.nGone /\ KeepsBut(d, e, {"nGone"})
    <3>1. e \in Peer /\ ~e.nGone
      BY <1>1, <2>1 DEF Peer
    <3>2. KeepsBut(d, e, {"nGone"})
      BY <1>1, <2>1 DEF Peer, KeepsBut
    <3> QED BY <3>1, <3>2
  <2>3. Sound(v, e)
    BY <1>1, <2>2 DEF Sound, Peer, Registered, Ticketed, Attached,
       Engine, Ported, Keyed, IsLive, IsRetiring, KeepsBut
  <2>4. e.air = d.air /\ (IsRetiring(d) => Undisturbed(d, e))
        /\ e.phase = d.phase /\ e.vid = d.vid
    BY <1>1, <2>2 DEF Undisturbed, IsRetiring, KeepsBut, Peer
  <2>5. PICK q : q = Retire(e, "wait")
    OBVIOUS
  <2>6. Sound(v, q) /\ Follows(e, q) /\ IsRetiring(q)
    BY <2>3, <2>5, RetireSound
  <2>7. PublishEvents(d) = q
    BY <1>3, <2>1, <2>5 DEF PublishEvents, RetireWithGrace
  <2>8. ~q.nGone /\ q.vid = p.vid /\ q.air \in {p.air, "none"}
    BY <2>2, <2>4, <2>6 DEF Follows, Engaged
  <2>9. IsRetiring(p) => Undisturbed(p, q)
    BY <2>4, <2>6 DEF Engaged, Follows, Undisturbed
  <2>10. Settled(v, q)
    BY <2>6, RetiringSettled
  <2> QED BY <2>6, <2>7, <2>8, <2>9, <2>10 DEF Kept, Heard
<1> QED BY <1>1, <1>2, <1>3

LEMMA ServiceControlKeeps ==
  ASSUME KInv, ServiceControl
  PROVE  KInv' /\ AllHeard
<1> DEFINE v == mode.vif
           D(k, s) == IF s \in k THEN Disconnect(peer[s]) ELSE peer[s]
<1>1. PICK kicked \in SUBSET Sta :
        peer' = [s \in Sta |-> PublishEvents(D(kicked, s))]
  BY DEF ServiceControl
<1>2. ASSUME NEW s \in Sta
      PROVE  /\ Kept(v, peer[s], peer'[s]) /\ Heard(v, peer[s], peer'[s])
             /\ ~peer'[s].nGone /\ peer'[s] \in Peer
  <2>1. v \in BOOLEAN /\ Sound(v, peer[s]) /\ Settled(v, peer[s])
    BY InvStation
  <2>2. Engaged(v, peer[s], peer[s])
    BY <2>1 DEF Engaged, Undisturbed
  <2>3. Engaged(v, peer[s], D(kicked, s))
    BY <2>1, <2>2, DisconnectEngaged
  <2>4. peer'[s] = PublishEvents(D(kicked, s))
    BY <1>1
  <2> HIDE DEF D
  <2>5. /\ Kept(v, peer[s], peer'[s]) /\ Heard(v, peer[s], peer'[s])
        /\ ~peer'[s].nGone
    BY <2>1, <2>3, <2>4, PublishEventsKept
  <2> QED BY <2>5 DEF Kept, Sound
<1>3. peer' \in [Sta -> Peer]
  <2>1. peer' = [s \in Sta |-> peer'[s]]
    BY <1>1
  <2> QED BY <1>2, <2>1
<1>4. /\ UNCHANGED <<mode, todo, apsc, queue, results, changed, strays, faults>>
      /\ pc' \in {"apply", "recv"}
  BY DEF ServiceControl
<1> QED BY <1>2, <1>3, <1>4, QuietKeeps DEF AllHeard

\* A peer without a cleanup under way has no claim on it.
LEMMA NoClaim ==
  ASSUME NEW p, p.sid = 0, p.iid = 0, p.bid = 0, NEW j,
         j.kind \in {"Station", "Interface"}
  PROVE  ~JobClaim(j, p) /\ ~ResultClaim(j, p)
BY DEF JobClaim, ResultClaim

\* Jobs and results are of their types.
LEMMA ClaimTypes ==
  ASSUME Typed
  PROVE  /\ Len(queue) \in Nat /\ DOMAIN queue = 1 .. Len(queue)
         /\ \A i \in DOMAIN queue :
              /\ queue[i] \in Job /\ queue[i].sta \in Sta
              /\ queue[i].kind \in {"Station", "Interface"}
         /\ \A r \in results :
              /\ r \in Result /\ r.sta \in Sta /\ r.ok \in BOOLEAN
              /\ r.kind \in {"Station", "Interface"}
<1>1. Len(queue) \in Nat /\ DOMAIN queue = 1 .. Len(queue)
  BY DEF Typed
<1>2. \A i \in DOMAIN queue : queue[i] \in Job
  BY DEF Typed
<1>3. \A r \in results : r \in Result
  BY DEF Typed
<1>4. \A j \in Job : j.sta \in Sta /\ j.kind \in {"Station", "Interface"}
  BY DEF Job
<1>5. \A r \in Result : /\ r.sta \in Sta /\ r.ok \in BOOLEAN
                        /\ r.kind \in {"Station", "Interface"}
  BY DEF Result
<1> QED BY <1>1, <1>2, <1>3, <1>4, <1>5

\* apply_cleanup_results
LEMMA ApplyKeeps ==
  ASSUME KInv, ApplyCleanupResults
  PROVE  KInv' /\ AllHeard
<1> DEFINE v == mode.vif
<1>1. ASSUME NEW s \in Sta
      PROVE  /\ Sound(v, peer'[s]) /\ Settled(v, peer'[s])
             /\ peer'[s].vid \in {peer[s].vid, 0}
             /\ ~peer'[s].nGone /\ peer'[s].air \in {peer[s].air, "none"}
             /\ peer'[s] # peer[s] => \E r \in results : r.sta = s
  <2>1. v \in BOOLEAN /\ Sound(v, peer[s]) /\ Settled(v, peer[s])
    BY InvStation
  <2>2. ~peer[s].nGone
    BY DEF KInv, Stations, ApplyCleanupResults
  <2>3. CASE \E r \in results : r.sta = s
    <3>1. PICK r : r = CHOOSE x \in results : x.sta = s
      OBVIOUS
    <3>2. r \in results /\ r.sta = s
      BY <2>3, <3>1
    <3>3. ResultClaim(r, peer[s])
      BY <3>2 DEF KInv, Claims
    <3>4. r.ok \in BOOLEAN /\ r.kind \in {"Station", "Interface"}
      BY <3>2, ClaimTypes DEF KInv
    <3>5. peer'[s] = IF r.kind = "Station" THEN StationDone(peer[s], r)
                     ELSE InterfaceDone(peer[s], r)
      BY <2>3, <3>1 DEF ApplyCleanupResults
    <3>6. CASE r.kind = "Station"
      BY <2>1, <2>2, <2>3, <3>3, <3>4, <3>5, <3>6, StationDoneSound
    <3>7. CASE r.kind = "Interface"
      BY <2>1, <2>2, <2>3, <3>3, <3>4, <3>5, <3>7, InterfaceDoneSound
    <3> QED BY <3>4, <3>6, <3>7
  <2>4. CASE ~(\E r \in results : r.sta = s)
    <3>1. peer'[s] = peer[s]
      BY <2>4 DEF ApplyCleanupResults
    <3> QED BY <2>1, <2>2, <3>1
  <2> QED BY <2>3, <2>4
<1>2. /\ mode' = mode /\ queue' = queue /\ results' = {} /\ pc' = "schedule"
      /\ todo' = {s \in Sta : IsRetiring(peer'[s])}
      /\ UNCHANGED <<apsc, changed, strays, faults>>
  BY DEF ApplyCleanupResults
<1>3. peer' \in [Sta -> Peer]
  <2>1. peer' = [s \in Sta |-> peer'[s]]
    BY DEF ApplyCleanupResults
  <2> QED BY <1>1, <2>1 DEF Sound
<1>4. Typed'
  <2>1. IsFiniteSet({})
    BY FS_EmptySet
  <2> QED BY <1>2, <1>3, <2>1 DEF KInv, Typed, Phase
<1>5. Stations'
  BY <1>1, <1>2 DEF Stations
<1>6. Claims'
  <2>1. ASSUME NEW i \in DOMAIN queue
        PROVE  JobClaim(queue[i], peer'[queue[i].sta])
    <3>1. queue[i].sta \in Sta
      BY ClaimTypes DEF KInv
    <3>2. peer'[queue[i].sta] = peer[queue[i].sta]
      BY <1>1, <3>1 DEF KInv, Claims
    <3> QED BY <3>2 DEF KInv, Claims
  <2> QED BY <1>2, <2>1 DEF KInv, Claims
<1>7. AllHeard
  BY <1>1 DEF AllHeard, Heard
<1>8. Apart'
  BY <1>1, <1>2, ApartHeld
<1> QED BY <1>4, <1>5, <1>6, <1>7, <1>8 DEF KInv

\* A step of schedule_cleanup: one retiring station is seen to.
LEMMA ScheduledStations ==
  ASSUME KInv, pc = "schedule", NEW s \in todo, NEW q,
         UNCHANGED <<mode, pc, apsc, results, changed, strays, faults>>,
         todo' = todo \ {s}, peer' = [peer EXCEPT ![s] = q],
         Sound(mode.vif, q), Settled(mode.vif, q), q.nGone = peer[s].nGone,
         q.air \in {peer[s].air, "none"}, q.vid \in {peer[s].vid, 0},
         queue' \in Seq(Job)
  PROVE  Typed' /\ Stations' /\ Apart' /\ AllHeard
<1>1. s \in Sta /\ peer \in [Sta -> Peer] /\ q \in Peer
  BY DEF KInv, Typed, Sound
<1>2. peer' \in [Sta -> Peer]
  BY <1>1
<1>3. Typed'
  BY <1>2 DEF KInv, Typed
<1>4. \A t \in Sta : peer'[t] = IF t = s THEN q ELSE peer[t]
  BY <1>1
<1>5. Stations'
  <2>1. \A t \in Sta : /\ Sound(mode.vif, peer'[t])
                       /\ Settled(mode.vif, peer'[t])
                       /\ ~peer'[t].nGone
    BY <1>4 DEF KInv, Stations
  <2>2. \A t \in todo' : IsRetiring(peer'[t])
    BY <1>4 DEF KInv, Typed, Stations
  <2> QED BY <2>1, <2>2 DEF Stations
<1>6. AllHeard
  BY <1>4 DEF AllHeard, Heard
<1>7. Apart'
  BY <1>4, ApartHeld
<1> QED BY <1>3, <1>5, <1>6, <1>7

LEMMA DeferCleanupKeeps ==
  ASSUME KInv, NEW s \in Sta, DeferCleanup(s)
  PROVE  KInv' /\ AllHeard
<1> DEFINE v == mode.vif
           p == peer[s]
<1>1. v \in BOOLEAN /\ Sound(v, p) /\ IsRetiring(p) /\ s \in todo
  BY InvStation DEF KInv, Stations, DeferCleanup
<1>2. PICK q : q = Prepared(p)
  OBVIOUS
<1>3. /\ Sound(v, q) /\ Settled(v, q)
      /\ q.vid \in {p.vid, 0} /\ q.nGone = p.nGone /\ q.air \in {p.air, "none"}
      /\ Undisturbed(p, q) \/ (p.sid = 0 /\ p.iid = 0 /\ p.bid = 0)
  BY <1>1, <1>2, PreparedSound DEF Undisturbed
<1>4. peer' = [peer EXCEPT ![s] = q]
  BY <1>2 DEF DeferCleanup
<1>5. Typed' /\ Stations' /\ Apart' /\ AllHeard
  <2>1. queue' \in Seq(Job)
    BY DEF KInv, Typed, DeferCleanup
  <2> QED BY <1>1, <1>3, <1>4, <2>1, ScheduledStations DEF DeferCleanup
<1>6. Claims'
  <2>1. \A t \in Sta : peer'[t] = IF t = s THEN q ELSE peer[t]
    BY <1>4 DEF KInv, Typed
  <2>2. ASSUME NEW j, j.sta \in Sta, j.kind \in {"Station", "Interface"}
        PROVE  /\ JobClaim(j, peer[j.sta]) => JobClaim(j, peer'[j.sta])
               /\ ResultClaim(j, peer[j.sta]) => ResultClaim(j, peer'[j.sta])
    <3>1. CASE j.sta # s
      BY <2>1, <2>2, <3>1
    <3>2. CASE j.sta = s /\ Undisturbed(p, q)
      BY <2>1, <2>2, <3>2 DEF Undisturbed, JobClaim, ResultClaim
    <3>3. CASE j.sta = s /\ p.sid = 0 /\ p.iid = 0 /\ p.bid = 0
      BY <2>2, <3>3, NoClaim
    <3> QED BY <1>3, <3>1, <3>2, <3>3
  <2>3. queue' = queue /\ results' = results
    BY DEF DeferCleanup
  <2>4. \A i \in DOMAIN queue : JobClaim(queue[i], peer'[queue[i].sta])
    BY <2>2, ClaimTypes DEF KInv, Claims
  <2>5. \A r \in results : ResultClaim(r, peer'[r.sta])
    BY <2>2, ClaimTypes DEF KInv, Claims
  <2> QED BY <2>3, <2>4, <2>5 DEF KInv, Claims
<1> QED BY <1>5, <1>6 DEF KInv

\* A job may be added for a peer that has none.
LEMMA StartCleanupKeeps ==
  ASSUME KInv, NEW s \in Sta, StartCleanup(s)
  PROVE  KInv' /\ AllHeard
<1> DEFINE v == mode.vif
           p == peer[s]
<1>1. v \in BOOLEAN /\ Sound(v, p) /\ IsRetiring(p) /\ s \in todo
  BY InvStation DEF KInv, Stations, StartCleanup
<1>2. PICK q : q = Prepared(p)
  OBVIOUS
<1>3. /\ Sound(v, q)
      /\ q.nGone = p.nGone /\ q.air \in {p.air, "none"}
      /\ \/ Undisturbed(p, q)
         \/ q.vid = 0 /\ ~q.addr /\ q.base = "none" /\ q.bid = 0
  BY <1>1, <1>2, PreparedSound
<1>4. PICK c \in CleanupJob(s, q) : /\ queue' = Append(queue, c.job)
                                    /\ peer' = [peer EXCEPT ![s] = c.q]
  BY <1>2 DEF StartCleanup
<1>5. Undisturbed(p, q)
  <2>1. SUFFICES ASSUME q.vid = 0 /\ ~q.addr /\ q.base = "none"
                 PROVE  FALSE
    BY <1>3
  <2>2. CleanupJob(s, q) = {}
    BY <2>1 DEF CleanupJob
  <2> QED BY <1>4, <2>2
<1>6. IsFiniteSet(InUse \ {0})
  BY InUseFinite DEF KInv, Typed
<1>7. /\ Sound(v, c.q) /\ JobClaim(c.job, c.q)
      /\ c.job \in Job /\ c.job.sta = s
      /\ q.sid = 0 /\ q.iid = 0 /\ q.bid = 0
      /\ c.q.nGone = q.nGone /\ c.q.air = q.air /\ c.q.vid = q.vid
  <2>1. IsRetiring(q)
    BY <1>5 DEF Undisturbed
  <2>2. v \in BOOLEAN /\ Sound(v, q)
    BY <1>1, <1>3
  <2> HIDE DEF v, p
  <2> QED BY <1>6, <2>1, <2>2, CleanupJobSound
<1>8. PICK n, j : n = c.q /\ j = c.job
  OBVIOUS
<1>9. p.sid = 0 /\ p.iid = 0 /\ p.bid = 0
  BY <1>5, <1>7 DEF Undisturbed
<1>10. Typed' /\ Stations' /\ Apart' /\ AllHeard
  <2>1. queue' \in Seq(Job)
    BY <1>4, <1>7 DEF KInv, Typed
  <2>2. Settled(v, n)
    BY <1>7, <1>8, RetiringSettled DEF JobClaim
  <2>3. n.vid = p.vid
    BY <1>5, <1>7, <1>8 DEF Undisturbed
  <2> QED BY <1>1, <1>3, <1>4, <1>7, <1>8, <2>1, <2>2, <2>3, ScheduledStations
          DEF StartCleanup
<1>11. Claims'
  <2>1. \A t \in Sta : peer'[t] = IF t = s THEN n ELSE peer[t]
    BY <1>4, <1>8 DEF KInv, Typed
  <2>2. \A i \in DOMAIN queue : queue[i].sta # s /\ queue[i].sta \in Sta
    BY <1>9, ClaimTypes, NoClaim DEF KInv, Claims
  <2>3. \A r \in results : r.sta # s /\ r.sta \in Sta
    BY <1>9, ClaimTypes, NoClaim DEF KInv, Claims
  <2>4. results' = results
    BY DEF StartCleanup
  <2>5. /\ DOMAIN queue = 1 .. Len(queue) /\ Len(queue) \in Nat
        /\ DOMAIN queue' = 1 .. (Len(queue) + 1)
        /\ queue'[Len(queue) + 1] = j
        /\ \A i \in DOMAIN queue : queue'[i] = queue[i]
    BY <1>4, <1>7, <1>8 DEF KInv, Typed
  <2>6. \A i \in DOMAIN queue' : i \in DOMAIN queue \/ i = Len(queue) + 1
    BY <2>5
  <2>7. j.sta = s /\ JobClaim(j, n)
    BY <1>7, <1>8
  <2>8. ASSUME NEW i \in DOMAIN queue'
        PROVE  JobClaim(queue'[i], peer'[queue'[i].sta])
    <3>1. CASE i \in DOMAIN queue
      BY <2>1, <2>2, <2>5, <3>1 DEF KInv, Claims
    <3>2. CASE i = Len(queue) + 1
      BY <2>1, <2>5, <2>7, <3>2
    <3> QED BY <2>6, <3>1, <3>2
  <2>9. \A r \in results : ResultClaim(r, peer'[r.sta])
    BY <2>1, <2>3 DEF KInv, Claims
  <2>10. ASSUME NEW i \in DOMAIN queue', NEW k \in DOMAIN queue',
                queue'[i].sta = queue'[k].sta
         PROVE  i = k
    BY <2>2, <2>5, <2>6, <2>7, <2>10 DEF KInv, Claims
  <2>11. \A i \in DOMAIN queue', r \in results : r.sta # queue'[i].sta
    BY <2>3, <2>5, <2>6, <2>7 DEF KInv, Claims
  <2> QED BY <2>4, <2>8, <2>9, <2>10, <2>11 DEF KInv, Claims
<1> QED BY <1>10, <1>11 DEF KInv

\* The worker finds the peer of its job as the job left it.
LEMMA WorkerStep ==
  ASSUME NEW v \in BOOLEAN, NEW p, Sound(v, p), NEW j \in Job, JobClaim(j, p),
         NEW q, NEW ok \in BOOLEAN,
         LET done == IF j.kind = "Station" THEN DelStation(p, j.scopes)
                     ELSE DelInterface(p)
             failed == IF j.kind = "Station"
                       THEN [p EXCEPT !.kkey = 0, !.klost = FALSE] ELSE p
         IN q \in {done, failed} /\ (ok => q = done)
  PROVE  LET r == [id |-> j.id, sta |-> j.sta, kind |-> j.kind, ok |-> ok]
         IN /\ WorkedOn(v, p, q) /\ ResultClaim(r, q)
            /\ r \in Result /\ r.sta = j.sta
<1> DEFINE r == [id |-> j.id, sta |-> j.sta, kind |-> j.kind, ok |-> ok]
<1>1. /\ r \in Result /\ r.sta = j.sta /\ r.id = j.id /\ r.kind = j.kind
      /\ r.ok = ok /\ j.kind \in {"Station", "Interface"}
  BY DEF Job, Result
<1> HIDE DEF r
<1>2. CASE j.kind = "Station"
  <2>1. PICK d, k : /\ d = DelStation(p, j.scopes)
                    /\ k = [p EXCEPT !.kkey = 0, !.klost = FALSE]
    OBVIOUS
  <2>2. WorkedOn(v, p, d) /\ d.kat = "none" /\ WorkedOn(v, p, k)
    BY <1>2, <2>1, WorkerStation
  <2>3. q \in {d, k} /\ (ok => q = d)
    BY <1>2, <2>1
  <2>4. WorkedOn(v, p, q) /\ (ok => q.kat = "none")
    BY <2>2, <2>3
  <2> QED BY <1>1, <1>2, <2>4 DEF JobClaim, ResultClaim, WorkedOn, r
<1>3. CASE j.kind = "Interface"
  <2>1. WorkedOn(v, p, q) /\ (ok => ~q.kif)
    BY <1>3, WorkerInterface
  <2> QED BY <1>1, <1>3, <2>1 DEF JobClaim, ResultClaim, WorkedOn, r
<1> QED BY <1>1, <1>2, <1>3

\* The cleanup worker thread.
LEMMA CleanupWorkerKeeps ==
  ASSUME KInv, CleanupWorker
  PROVE  KInv' /\ AllHeard
<1> DEFINE v == mode.vif
<1>1. /\ Len(queue) \in Nat /\ DOMAIN queue = 1 .. Len(queue)
      /\ queue \in Seq(Job) /\ queue # <<>>
  BY DEF KInv, Typed, CleanupWorker
<1>2. 1 \in DOMAIN queue /\ Head(queue) = queue[1]
  BY <1>1
<1>3. PICK j : j = queue[1]
  OBVIOUS
<1>4. /\ j \in Job /\ j.sta \in Sta /\ JobClaim(j, peer[j.sta])
  BY <1>2, <1>3, ClaimTypes DEF KInv, Claims
<1>5. PICK s \in Sta : s = j.sta
  BY <1>4
<1> DEFINE p == peer[s]
           R(ok) == [id |-> j.id, sta |-> j.sta, kind |-> j.kind, ok |-> ok]
           Chosen(ok, q) ==
             /\ LET done == IF j.kind = "Station" THEN DelStation(p, j.scopes)
                            ELSE DelInterface(p)
                    failed == IF j.kind = "Station"
                              THEN [p EXCEPT !.kkey = 0, !.klost = FALSE]
                              ELSE p
                IN q \in {done, failed} /\ (ok => q = done)
             /\ faults + (IF ok THEN 0 ELSE 1) <= MaxFaults
             /\ faults' = faults + (IF ok THEN 0 ELSE 1)
             /\ peer' = [peer EXCEPT ![s] = q]
             /\ results' = results \cup {R(ok)}
<1>6. \E ok \in BOOLEAN : \E q : Chosen(ok, q)
  BY <1>2, <1>3, <1>5 DEF CleanupWorker
<1>7. PICK ok \in BOOLEAN : \E q : Chosen(ok, q)
  BY <1>6
<1>8. PICK q : Chosen(ok, q)
  BY <1>7
<1>9. PICK r : r = R(ok)
  OBVIOUS
<1>10. /\ WorkedOn(v, p, q) /\ ResultClaim(r, q) /\ r \in Result /\ r.sta = s
  <2>1. v \in BOOLEAN /\ Sound(v, p) /\ JobClaim(j, p)
    BY <1>4, <1>5, InvStation
  <2> QED BY <1>4, <1>5, <1>8, <1>9, <2>1, WorkerStep
<1>11. /\ faults' \in 0 .. MaxFaults
       /\ peer' = [peer EXCEPT ![s] = q]
       /\ results' = results \cup {r}
  <2>1. faults' \in 0 .. MaxFaults
    BY <1>8, BoundsAssumption DEF KInv, Typed
  <2> QED BY <1>8, <1>9, <2>1
<1>12. /\ queue' = Tail(queue)
       /\ UNCHANGED <<mode, pc, todo, apsc, changed, strays>>
  BY DEF CleanupWorker
<1> HIDE DEF Chosen, R
<1>13. \A t \in Sta : peer'[t] = IF t = s THEN q ELSE peer[t]
  BY <1>11 DEF KInv, Typed
<1>14. Typed'
  <2>1. IsFiniteSet(results')
    BY <1>11, FS_AddElement DEF KInv, Typed
  <2>2. results' \subseteq Result
    BY <1>10, <1>11 DEF KInv, Typed
  <2>3. queue' \in Seq(Job)
    BY <1>1, <1>12
  <2>4. peer' \in [Sta -> Peer]
    BY <1>10, <1>11 DEF KInv, Typed, WorkedOn, Sound
  <2> QED BY <1>11, <1>12, <2>1, <2>2, <2>3, <2>4 DEF KInv, Typed
<1>15. Stations'
  <2>1. Settled(v, q) /\ Sound(v, q) /\ IsRetiring(q) /\ q.nGone = p.nGone
    BY <1>10, RetiringSettled DEF WorkedOn
  <2>2. \A t \in Sta : /\ Sound(v, peer'[t]) /\ Settled(v, peer'[t])
                       /\ peer'[t].nGone = peer[t].nGone
                       /\ IsRetiring(peer[t]) => IsRetiring(peer'[t])
    BY <1>13, <2>1 DEF KInv, Stations
  <2>3. todo \subseteq Sta
    BY DEF KInv, Typed
  <2> QED BY <1>12, <2>2, <2>3 DEF KInv, Stations
<1>16. Claims'
  <2>1. /\ DOMAIN queue' = 1 .. (Len(queue) - 1)
        /\ \A i \in DOMAIN queue' : /\ i + 1 \in DOMAIN queue /\ i + 1 # 1
                                     /\ queue'[i] = queue[i + 1]
    BY <1>1, <1>12
  <2>2. \A i \in DOMAIN queue : /\ queue[i].sta \in Sta
                                /\ i # 1 => queue[i].sta # s
    BY <1>2, <1>3, <1>5, ClaimTypes DEF KInv, Claims
  <2>3. \A x \in results : x.sta \in Sta /\ x.sta # s
    BY <1>2, <1>3, <1>5, ClaimTypes DEF KInv, Claims
  <2>4. ASSUME NEW i \in DOMAIN queue'
        PROVE  JobClaim(queue'[i], peer'[queue'[i].sta])
    BY <1>13, <2>1, <2>2 DEF KInv, Claims
  <2>5. \A x \in results : ResultClaim(x, peer'[x.sta])
    BY <1>13, <2>3 DEF KInv, Claims
  <2>6. ResultClaim(r, peer'[r.sta])
    BY <1>10, <1>13
  <2>7. ASSUME NEW i \in DOMAIN queue', NEW k \in DOMAIN queue',
               queue'[i].sta = queue'[k].sta
        PROVE  i = k
    <3>1. i + 1 = k + 1
      BY <2>1, <2>7 DEF KInv, Claims
    <3> QED BY <1>1, <2>1, <3>1
  <2>8. \A i \in DOMAIN queue', x \in results' : x.sta # queue'[i].sta
    BY <1>10, <1>11, <2>1, <2>2 DEF KInv, Claims
  <2>9. \A x, y \in results' : x.sta = y.sta => x = y
    BY <1>10, <1>11, <2>3 DEF KInv, Claims
  <2> QED BY <1>11, <2>4, <2>5, <2>6, <2>7, <2>8, <2>9 DEF Claims
<1>17. AllHeard
  BY <1>10, <1>13 DEF AllHeard, Heard, WorkedOn
<1>18. Apart'
  BY <1>10, <1>12, <1>13, ApartHeld DEF WorkedOn
<1> QED BY <1>14, <1>15, <1>16, <1>17, <1>18 DEF KInv

-----------------------------------------------------------------------------
(* The theorems                                                            *)

LEMMA KInvInit ==
  ASSUME Init
  PROVE  KInv
<1>1. Typed
  <2>1. NoPeer \in Peer
    BY DEF NoPeer, Peer, Phases, Deadlines, GroupKey
  <2>2. <<>> \in Seq(Job) /\ {} \subseteq Result /\ IsFiniteSet({})
    BY FS_EmptySet
  <2>3. mode \in [vif: BOOLEAN, full: BOOLEAN]
    BY BoundsAssumption DEF Init
  <2>4. 0 \in 0 .. MaxSc /\ 0 \in 0 .. MaxFaults
    BY BoundsAssumption
  <2>5. peer \in [Sta -> Peer]
    BY <2>1 DEF Init
  <2>6. pc \in Phase /\ todo \subseteq Sta
    BY DEF Init, Phase
  <2> QED BY <2>2, <2>3, <2>4, <2>5, <2>6 DEF Init, Typed
<1>2. mode.vif \in BOOLEAN
  BY <1>1 DEF Typed
<1>3. Sound(mode.vif, NoPeer) /\ Settled(mode.vif, NoPeer) /\ ~NoPeer.nGone
  <2>1. NoPeer \in Peer
    BY DEF NoPeer, Peer, Phases, Deadlines, GroupKey
  <2>2. /\ NoPeer.phase = "None" /\ NoPeer.kat = "none" /\ NoPeer.vid = 0
        /\ ~NoPeer.kif /\ NoPeer.sid = 0 /\ NoPeer.iid = 0 /\ NoPeer.bid = 0
        /\ ~NoPeer.removed /\ ~NoPeer.kassoc /\ NoPeer.kkey = 0
        /\ NoPeer.air = "none" /\ ~NoPeer.kport /\ NoPeer.sc = 0
        /\ ~NoPeer.keyp /\ NoPeer.txs = {} /\ ~NoPeer.assoc
        /\ NoPeer.hs = "idle" /\ NoPeer.cand = 0 /\ NoPeer.key = 0
        /\ ~NoPeer.nGone
    BY DEF NoPeer
  <2> QED BY <2>1, <2>2 DEF Sound, Settled, Registered, Ticketed, Attached,
          Engine, Ported, Keyed, IsLive, IsRetiring
<1>4. Stations
  BY <1>3 DEF Init, Stations
<1>5. Claims
  BY DEF Init, Claims
<1>6. Apart
  BY DEF Init, Apart
<1> QED BY <1>1, <1>4, <1>5, <1>6 DEF KInv

LEMMA LoopKeeps ==
  ASSUME KInv, Loop
  PROVE  KInv' /\ AllHeard
<1>1. CASE ApplyCleanupResults
  BY <1>1, ApplyKeeps
<1>2. ASSUME NEW s \in Sta, StartCleanup(s) \/ DeferCleanup(s)
      PROVE  KInv' /\ AllHeard
  BY <1>2, StartCleanupKeeps, DeferCleanupKeeps
<1>3. CASE ScheduleDone
  BY <1>3, ScheduleDoneKeeps
<1>4. CASE ServiceControl
  BY <1>4, ServiceControlKeeps
<1>5. ASSUME Ordinary
      PROVE  KInv' /\ AllHeard
  BY <1>5, OrdinaryKeeps DEF Ordinary, AllHeard
<1>6. ASSUME NEW s \in Sta,
             \/ RecvAuth(s) \/ RecvAssoc(s) \/ RecvM2(s) \/ RecvM2Again(s)
             \/ RecvM4(s) \/ RecvDeauth(s) \/ TxStatus(s)
      PROVE  Ordinary
  BY <1>6, RecvAuthOrdinary, RecvAssocOrdinary, RecvM2Ordinary,
     RecvM2AgainOrdinary, RecvM4Ordinary, DepartureOrdinary, TxStatusOrdinary
<1>7. ASSUME NEW s \in Sta, \/ ReleaseStalled(s) \/ TickRetransmit(s)
                            \/ TickExpire(s) \/ ReconcileStation(s)
      PROVE  Ordinary
  BY <1>7, ReleaseStalledOrdinary, TickRetransmitOrdinary, DepartureOrdinary,
     ReconcileStationOrdinary
<1>8. CASE TickRekey \/ ReconcileGroupKeys
  BY <1>5, <1>8, TickRekeyOrdinary, ReconcileGroupKeysOrdinary
<1>9. CASE RecvNothing \/ StalledDone \/ TickIdle \/ ReconcileDone
  BY <1>5, <1>9, IdleOrdinary
<1> QED BY <1>1, <1>2, <1>3, <1>4, <1>5, <1>6, <1>7, <1>8, <1>9
        DEF Loop, ReceiveEvents, Tick

LEMMA NextKeeps ==
  ASSUME KInv, [Next]_vars
  PROVE  KInv' /\ AllHeard
<1>1. CASE Loop
  BY <1>1, LoopKeeps
<1>2. CASE CleanupWorker
  BY <1>2, CleanupWorkerKeeps
<1>3. ASSUME NEW s \in Sta, EapolWorker(s)
      PROVE  KInv' /\ AllHeard
  BY <1>3, EapolWorkerKeeps
<1>4. CASE UNCHANGED vars
  BY <1>4, StutterKeeps
<1> QED BY <1>1, <1>2, <1>3, <1>4 DEF Next

LEMMA KInvAlways == Spec => []KInv
<1>1. Init => KInv
  BY KInvInit
<1>2. KInv /\ [Next]_vars => KInv'
  BY NextKeeps
<1> QED BY <1>1, <1>2, PTL DEF Spec

\* Every variable of the transport keeps its type: in particular the cleanup
\* channels hold jobs and results only, and every id is a number.
THEOREM KernelTypeCorrect == Spec => []TypeOK
<1>1. KInv => TypeOK
  BY DEF KInv, Typed, Apart, TypeOK
<1> QED BY <1>1, KInvAlways, PTL

\* The registry never loses a kernel object: whatever commands fail, a peer in
\* the kernel is recorded with its address and with the interface it is on, a
\* station's AP_VLAN has an assignment, and an AP_VLAN that a failed creation
\* left behind is never taken for a station's.
THEOREM NothingOrphaned == Spec => []NoOrphan
<1>1. ASSUME KInv PROVE NoOrphan
  <2>1. \A s \in Sta : Registered(peer[s])
    BY <1>1 DEF KInv, Stations, Sound
  <2>2. \A s \in Sta : peer[s].vid \notin strays
    BY <1>1 DEF KInv, Apart
  <2> QED BY <2>1, <2>2 DEF NoOrphan, Registered
<1> QED BY <1>1, KInvAlways, PTL

\* A cleanup the worker has still to run is that of the retiring incarnation
\* of its station: a new association of the address cannot be deleted by it.
THEOREM WorkerOwnsPeer == Spec => []CleanupOwnsPeer
<1>1. ASSUME KInv PROVE CleanupOwnsPeer
  <2>1. SUFFICES ASSUME NEW i \in DOMAIN queue
                 PROVE  LET p == peer[queue[i].sta]
                        IN /\ IsRetiring(p)
                           /\ queue[i].id \in {p.sid, p.iid, p.bid}
                           /\ queue[i].kind = "Interface" => p.kat = "none"
    BY DEF CleanupOwnsPeer
  <2>2. PICK j, p : j = queue[i] /\ p = peer[queue[i].sta]
    OBVIOUS
  <2>3. JobClaim(j, p) /\ j.kind \in {"Station", "Interface"} /\ Ticketed(p)
    BY <1>1, <2>2, ClaimTypes DEF KInv, Claims, Stations, Sound
  <2>4. /\ IsRetiring(p) /\ j.id \in {p.sid, p.iid, p.bid}
        /\ j.kind = "Interface" => p.kat = "none"
    BY <2>3 DEF JobClaim, Ticketed
  <2> QED BY <2>2, <2>4
<1> QED BY <1>1, KInvAlways, PTL

\* The kernel's port of a live peer is open only after its key was recorded,
\* and on isolating radios only on the peer's own AP_VLAN.
THEOREM PortBound == Spec => []OpenPortIsBound
<1>1. ASSUME KInv PROVE OpenPortIsBound
  <2>1. \A s \in Sta : Attached(peer[s]) /\ Ported(mode.vif, peer[s])
    BY <1>1 DEF KInv, Stations, Sound
  <2> QED BY <2>1 DEF OpenPortIsBound, Attached, Ported
<1> QED BY <1>1, KInvAlways, PTL

\* On a radio without AP_VLANs the key recorded for an authorized station is
\* the kernel's, unless the kernel applied a NEW_KEY it reported as failed; once
\* reconciled it is the key the handshake agreed on.
THEOREM AuthorizedKeyed == Spec => []KeyedOnBase
<1>1. ASSUME KInv PROVE KeyedOnBase
  <2>1. SUFFICES ASSUME ~mode.vif, NEW s \in Sta, peer[s].phase = "Authorized"
                 PROVE  LET p == peer[s]
                        IN /\ p.kkey = p.key \/ p.klost
                           /\ pc = "recv" /\ p.assoc /\ p.hs = "idle" /\ ~p.keyp
                                => p.key = p.tk
    BY DEF KeyedOnBase
  <2>2. Keyed(mode.vif, peer[s]) /\ Settled(mode.vif, peer[s])
    BY <1>1 DEF KInv, Stations, Sound
  <2>3. peer[s].kkey = peer[s].key \/ peer[s].klost
    BY <2>1, <2>2 DEF Keyed, IsRetiring
  <2> QED BY <2>1, <2>2, <2>3 DEF Settled
<1> QED BY <1>1, KInvAlways, PTL

\* In an initial association no EAPOL frame leaves before the peer was
\* published and, on isolating radios, moved to its AP_VLAN: not by routing,
\* not by a TX status or its absence, and not by a retransmission.
THEOREM EapolAfterBinding == Spec => BindBeforeEapol
<1>1. ASSUME KInv, [Next]_vars
      PROVE  \A s \in Sta : LET q == peer'[s] IN
               q.air \notin {"none", peer[s].air} /\ ~q.assoc
                 /\ peer[s].txq = "none" =>
                 q.kassoc /\ (mode.vif => q.kat = "vlan")
  <2>1. AllHeard
    BY <1>1, NextKeeps
  <2> QED BY <2>1 DEF AllHeard, Heard
<1> QED BY <1>1, KInvAlways, PTL DEF Spec, BindBeforeEapol
=============================================================================
