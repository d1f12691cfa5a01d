----------------------------- MODULE EapolFrames -----------------------------
(***************************************************************************)
(* What the authenticator and the supplicant exchange: pairwise keys, the  *)
(* EAPOL-Key frames of the four-way and group-key handshakes, the few      *)
(* management frames that move a session, and the medium that carries them. *)
(*                                                                         *)
(* Cryptography is symbolic.  A PTK is the record of what it is derived    *)
(* from; a frame carries the key its MIC was computed with, so "the MIC    *)
(* verifies under k" is "frame.key = k", and only who holds k builds the   *)
(* frame.  Nonces are labels: the ANonce is the replay counter minted in   *)
(* the same step, the SNonce a per-station counter.                        *)
(***************************************************************************)
EXTENDS Naturals, FiniteSets, Sequences

CONSTANTS Sta,       \* station addresses
          Security,  \* SecurityMode of the BSS: "wpa2" (one PSK suite, no PMF),
                     \* "transition" (PSK and SAE) or "wpa3" (SAE, PMF required)
          Pmk,       \* pairwise master keys (what the passphrases derive to)
          PmfStas,   \* stations whose client uses management-frame protection
          Psk,       \* Psk[s]: the key station s is configured with
          Cred,      \* Cred[s]: the keys the AP's credential files admit for s
          NoPmk, NoKey, NoFrame

VARIABLE air         \* every frame ever sent; loss, delay, duplication and
                     \* reordering are the receiver's choice of what to take

ASSUME StaAssumption == IsFiniteSet(Sta) /\ PmfStas \subseteq Sta
ASSUME SecurityAssumption == Security \in {"wpa2", "transition", "wpa3"}
ASSUME CredAssumption == /\ Psk \in [Sta -> Pmk]
                         /\ Cred \in [Sta -> SUBSET Pmk]
ASSUME NoPmkAssumption == NoPmk \notin Pmk
-----------------------------------------------------------------------------
Key == [sta : Sta, pmk : Pmk, an : Nat, sn : Nat]

\* derive_ptk_sha256_len / custom_prf512
PtkOf(s, pmk, an, sn) == [sta |-> s, pmk |-> pmk, an |-> an, sn |-> sn]

ASSUME NoKeyAssumption == NoKey \notin Key

FrameType == {"M1", "M2", "M3", "M4", "G1", "G2", "ASSOC_RESP", "DEAUTH",
              "LEAVE", "SAQ", "SAR"}

Frame == [type : FrameType, sta : Sta, rc : Nat, an : Nat, sn : Nat,
          key : Key \cup {NoKey}, gtk : Nat]

ASSUME NoFrameAssumption == NoFrame \notin Frame

MkFrame(t, s, rc, an, sn, k, g) ==
  [type |-> t, sta |-> s, rc |-> rc, an |-> an, sn |-> sn, key |-> k, gtk |-> g]

M1(s, rc, an)       == MkFrame("M1", s, rc, an, 0, NoKey, 0)
M2(s, rc, sn, k)    == MkFrame("M2", s, rc, 0, sn, k, 0)
M3(s, rc, an, k, g) == MkFrame("M3", s, rc, an, 0, k, g)
M4(s, rc, k)        == MkFrame("M4", s, rc, 0, 0, k, 0)
G1(s, rc, k, g)     == MkFrame("G1", s, rc, 0, 0, k, g)
G2(s, rc, k)        == MkFrame("G2", s, rc, 0, 0, k, 0)

AssocResp(s)        == MkFrame("ASSOC_RESP", s, 0, 0, 0, NoKey, 0)

\* Protected management frames carry their packet number in sn.
Deauth(s, k, pn)          == MkFrame("DEAUTH", s, 0, 0, pn, k, 0)
Leave(s, k, pn)           == MkFrame("LEAVE", s, 0, 0, pn, k, 0)
SaQueryReq(s, id, k, pn)  == MkFrame("SAQ", s, id, 0, pn, k, 0)
SaQueryResp(s, id, k, pn) == MkFrame("SAR", s, id, 0, pn, k, 0)

Received(t, s) == {m \in air : m.type = t /\ m.sta = s}
=============================================================================
