# A TLA+ model of oxwifid

oxwifid is a Wi-Fi access point (and a small client) in user space: it answers
authentication and association, runs the WPA2/WPA3 handshakes, rotates group keys
and moves data, over raw monitor-mode frames or over nl80211. This directory holds
TLA+ modules translated from its source, the TLC configurations that check them on
small instances, and TLAPS proofs for every size. Paths below are relative to the
repository root `src/`, so `src/ap/handshake.rs` is `src/src/ap/handshake.rs` from
the directory above.

## 1. The system

### Components, their state and how they meet

| Component | State it keeps | Operations | Modelled in |
|---|---|---|---|
| Authenticator `src/ap/handshake.rs`, `group_keys.rs`, `station.rs` | per `Station`: handshake phase (`ready`, `awaiting_m4`), ANonce, replay counters, `ptk_candidates`, installed PTK, packet number, `pending_eapol`, `group_rekeying`; in `Ap`: replay counter, GTK and epoch | message 2, message 4, group message 2, rekey | `Authenticator` |
| Station lifecycle `src/ap/receive.rs`, `association.rs`, `lifecycle.rs` | `Ap.stations`, `pending_anonce`, `group_rekey_due`, events | authentication, association, disconnect, kick, prune, `tick` | `Authenticator` |
| EAPOL retry timer `src/ap/lifecycle.rs` | heap of (deadline, generation, address), per station `eapol_tx`, `eapol_retries`, `eapol_acked`, generation | arm, cancel, ACK reports, pop | `EapolTimer`, `RetryTimer` |
| SAE and the PMKSA cache `src/ap/sae_auth.rs`, `src/client/sae_auth.rs`, reload in `src/ap/configuration.rs` | per station SAE fields and PMK; pending commits, the worker's two channels, maintenance deadline, cache, installed password | commit, token, completion, confirm, expiry, reload | `SaeAuth` |
| PMF protection `src/ap/management.rs` | outstanding SA Query, receive packet number of management frames | contested request, SA Query response, robust Deauthentication | `Authenticator` |
| Supplicant `src/client` | join progress, `PendingPtk`, installed PTK, replay counter, GTK, packet number | beacon, association response, messages 1 and 3, group message 1, SA Query, Deauthentication, timeouts, uplink data | `Supplicant` |
| nl80211 transport `src/netlink/linux/ap` | station registry (phase, kernel address, installed key, pending installs), AP_VLAN assignments, retirements, held EAPOL frames, awaited TX statuses, group-key epoch; in the kernel: peers, ports, keys, netdevs | routing, TX status, reconciliation, cleanup and EAPOL workers, control | `KernelPeer`, `KernelStations` |
| nl80211 setup `setup.rs`, `regulatory.rs`, `commands.rs`, `src/main.rs` | progress of each radio, event socket; in the kernel: regulatory domain, netdev type, links, DFS state, beacons | one step per request of `start_radio`, waits for events, the radar and channel-switch part of the loop | `RadioStartup` |
| Data path `src/ap/data.rs`, `src/client/data.rs` | receive replay windows, group packet number | uplink, downlink, group delivery | packet numbers only |
| Raw-frame transport `src/raw_frames` | sockets, loop deadlines | receive, `tick`, send | the fairness assumption |
| Everything else (section 6) | | | not modelled |

A transport hands every received frame to `Ap::handle_incoming_from`, which returns
frames to send and queues events and notifications, and it calls `Ap::tick` when a
deadline is near. Everything in `Ap` and in `Client` runs under one `&mut self`, so one
handler is one step. Concurrent are the air (frames are lost, repeated, late, out of
order, and unprotected ones can come from anybody), the clocks, the SAE worker thread,
the cleanup and EAPOL workers of the transport, the threads of the radios, and the
kernel behind nl80211, whose commands may fail and whose events may be late.

### What is hard here

* A handshake can be entered again at any point: authentication and association
  requests are unprotected and arrive in every phase, including from an authorized
  station. The code keeps ANonce, replay counter, candidates, pending frame, rekey
  flag and packet number across *some* of these and resets them across others.
* The four-way handshake and the group-key handshake share the replay counter, the
  pending frame and its timer.
* A rotation is global, sessions are not: it may fall between two messages of any
  station, meet a rotation in flight, or a station that leaves.
* Timers are never removed from the heap, only outdated. An ANonce outlives its
  `Station` record (`pending_anonce`).
* An SAE commit is admitted at one time, computed at another, and applied at a third.
  The station may have confirmed, associated, expired or been replaced in between, the
  password may have changed, and the worker may be gone. One deadline stands for
  everything that has to expire.
* The registry of the transport describes kernel objects it cannot see. A command that
  reports an error may have been applied; a deletion runs on another thread while the
  same address associates again; the frame that says an association was heard (its TX
  status) may come late, for an earlier response, or never.
* While a radio starts, one socket carries requests and events, and waiting for an
  answer discards the events before it.

### What makes each part correct

* Authenticator and supplicant: a packet number is used once per key, on either side;
  a spent ANonce never returns; the port opens only under a key the client installed
  and an admitted credential derives; where one PSK suite is offered, a correct client is
  never blamed for a MIC failure; a handshake ends.
* Group keys: an acknowledged rekey reached the client; a rekey in flight is armed and
  ends; members hold the current key.
* Lifecycle: events alternate; a client does not stay with an AP that forgot it.
* Retry timer: an armed frame is scheduled, is not expired early, is repeated at most
  `MAX_EAPOL_RETRIES` times, and is settled or given up, the latter only after those.
* SAE: what counts as confirmed was proved by its peer; a pending commit has its job
  under way; unfinished exchanges stay within the limit and end; a completed commit does
  not disturb a protected session.
* Transport: no kernel object without an owner; a deletion never hits a newer association;
  a port is open only for a keyed peer on its own AP_VLAN; EAPOL does not overtake the
  binding; a retirement ends.
* Setup: a radio that serves is completely on the air and carries no station over from a
  process before, nor an AP_VLAN its own could collide with; a start ends; what the loop is
  told of radar and moves is acted upon.

`PROJECT.json` lists every component with its status, the lines every definition
models, and the hazards with the properties aimed at them.

## 2. The modules

* `EapolFrames` - what is exchanged. Cryptography is symbolic: a PTK is the record of
  its inputs (station, PMK, ANonce, SNonce) and a frame carries the key of its MIC, so
  "the MIC verifies under k" reads `m.key = k`. Nonces are labels: an ANonce is the
  replay counter minted in the same step, an SNonce a per-station count. `air` is the
  set of all frames ever sent; receiving never removes one, so loss, delay,
  repetition and reordering are all the receiver's choice.
* `Authenticator` - `Ap`. `st[s]` holds the fields of `Station` that decide anything
  (`ready` is `eapol_ready`, `awaiting` `awaiting_m4`, `rekeying` `group_rekeying`,
  `pending` `pending_eapol`, `cands` `ptk_candidates`, `lastAssoc` says that an
  association time is recorded for the backoff). `held` is `pending_anonce`; `gtk` is
  the epoch and stands for the key. `Security` is the mode of the BSS: "wpa2", "wpa3" or
  "transition". One action per handler outcome:
  - `handle_auth_req`: `RecvAuth` (including the retirement of the old association),
    `ContestedRequest` for a PMF session; the answer-only outcomes (backoff, a message 1
    that is unanswered) change nothing and are stutters;
  - `handle_assoc_req`: `RecvAssoc`, `RecvAssocAwaitingM4`, `RecvAssocBackoff` (dropped by the
    backoff, or deferred because the SAE confirm is outstanding), `RecvAssocRefused`,
    `ContestedRequest`. What the request negotiates (`RequestedPmf`) is written before any of
    these returns; on a transition BSS that is PMF or not, as anybody's request says, in every
    phase of the handshake, and a cached PMKSA replaces the PMK (`Negotiations`);
  - `finish_sae_commit`: `SaeCommitDone` gives the station a PMK and PMF whatever else it is
    doing. The PMK is one that its client shares only if the password is admitted (`SaePmk`);
    any other stands for another sender's commit under the same address;
  - `handle_eapol`: `RecvG2`, `RecvM4`, `RecvM2`, `RecvBadM2`; `GroupParserClaims` is the
    dispatch that comes first;
  - robust management: `RecvDeauth`, `RecvSaQueryResp`;
  - `tick`: `RetryEapol`, `TimeoutEapol`, `SaQueryTimeout`, `ExpireSae`, `ExpireHeld`,
    `RekeyCoalesced`, `RekeyGtk` (periodic or due), `PruneIdle`; a call of `tick` is a sequence of these;
  - `Kick`, `DeliverToStation`, `RecvDataUnknown`.
  `used` (key and packet number pairs) and `owed` (a strict rekey was requested) are
  history variables; `conn` counts Connected minus Disconnected events.
* `Supplicant` - `Client`, one per station: joining, messages 1 and 3 with their retry
  rules (`valid_m3`, `is_m1_retry`, `is_m1_fresh`), group message 1, SA Query, Deauthentication,
  `maintenance`. `est` is how far the four-way has come. A PMF station is one whose
  client holds an `sae_pmk`. `committed`, `clUsed` and `delivered` are history.
  `ClientLeave` is external: this client never says goodbye, other stations do.
* `WpaSession` - the two over the medium, with the properties. `MCWpaSession` gives it
  constants and, for the runs about several stations, the state after their handshakes
  (`EstablishedInit`, a reachable state).
* `RetryTimer` - what the handshakes assume of the timer; `EapolTimer` - the heap with
  its generations, implementing it. Deadlines are kept as time left and `eapol_tx` as
  age, both saturating, so time is unbounded.
* `SaeAuth` - the access point and its SAE clients. A key is the client's commit, the
  AP's commit (one per job) and the password: two sides agree exactly when the three do.
  `pend`, `jobs`, `results`, `nextId`, `worker` are `AsyncSae`; `armed` says that
  `maintenance_deadline` is set; `pw` is the generation of the installed database.
  `RecvCommit` is the first half of `handle_sae_auth` with coalescing, tokens, limit and
  `queue_sae_commit` (queued, full channel, dead worker, no worker); `Compute`,
  `WorkerDies`, `PollSaeWork`, `PollClosed` are the worker and `poll_sae_work`;
  `RecvConfirm` holds or verifies; `Maintenance` is `run_deadline_maintenance`; `quiet` holds the
  stations whose `last_activity` is older than `SAE_AUTH_TIMEOUT`: time puts a station there
  (`FallsSilent`), every frame of its address (`ReceiveStep`, and `RecvOther` for the frames that do
  nothing else) and a completed commit take it out, and only such stations expire;
  `RecvOpenAuth`, `RecvAssoc`, `FourWay`, `Disconnect` are what other handlers do to the SAE
  fields, the four-way as one step because `WpaSession` has it in detail.
* `KernelPeer` - one station as record: the engine's view, the registry, the AP_VLAN
  assignment, the kernel objects, the air. A netlink command is an operator returning the
  set of its outcomes: done, refused, or applied although the answer was an error or did
  not come (`request_ack` gives up at `socket.rs:180`); `Then` and `OrElse` compose them like `?`
  and `if let Err`. `klost` says that the kernel's key comes from a NEW_KEY that was applied and
  reported as failed. `cand` and `alt` are the newest candidate of the handshake and one older
  one: a second message 2 makes the newest, message 4 selects either.
  `KernelStations` - the loop of `radio.rs` phase by phase (`apply_cleanup_results`,
  `schedule_cleanup`, `receive_events`, `release_stalled_association`, `tick_protocol`,
  `reconcile_stations`, `reconcile_group_keys`, control and events), the two workers, and
  both kinds of radio: stations on the base BSS, or one AP_VLAN each, with or without
  `FULL_AP_CLIENT_STATE`. `strays` are the AP_VLANs a failed creation left in the kernel;
  `nl_create_ap_vlan` deletes a namesake before it creates one (`Netdevs`).
  A phase handles one station in one step although it issues several commands. The one
  other thread that issues station commands is the cleanup worker; by `CleanupOwnsPeer`
  it works only on peers in retirement, which the commands of the other phases leave
  alone, so its steps commute with the commands inside a phase. The EAPOL worker only
  hands over a frame.
* `RadioStartup` - the radios of a process from `nl_set_regulatory` to the loop: `stage`
  and `pos` are the place in `start_radio`, `inbox` the event socket. Every request may
  fail, a wait may time out, the process may be killed at any time and is started again
  over what the kernel kept, with per-station VIFs on other radios if the configuration was
  edited (`vif`). A radio that cannot join the mlme group goes on without events (`deaf`). Radar
  events may name neither netdev nor link; a link id is a number of its netdev.
* Theorems: `WpaSessionProofs`, `NonceProofs` and `KeyProofs` about `WpaSession`, each on top of
  the one before; `EapolTimerProofs`; `SaeAuthProofs` and `SaeLimitProofs`; `RadioStartupProofs`;
  `KernelProofs` about `KernelStations`.

Operators whose comment begins with "Mutant" and those named like a changed copy of the
next one (`M4Reinstall`, `RetryUncounted`, `ArmOldGeneration`, ...) are plausible mistakes.
No specification uses them: substituting one must break the property `PROJECT.json` pairs
it with.

### Abstractions to keep in mind

* `WpaSession` models the raw-frame transport, where the engine encrypts itself.
  `KernelStations` models the other one, with the engine reduced to what the transport can
  tell (`hs`, `assoc`, candidate and installed key, notifications).
* Options: `strict_rekey` on (the default), OCV off; OCV and parser failures only drop
  frames, which the medium does anyway. `MIN_ASSOC_BACKOFF` may or may not have elapsed.
  Rate limiters only drop frames.
* Credentials are constant in `WpaSession` (`Cred`, `Psk`); `SaeAuth` has the reload.
* On a BSS with two PSK suites a request also selects the hash of the MIC, so a message 2 may
  fail although its key is right. `RecvBadM2` allows it whenever `Security` is "transition".
* The answer to a station's own SA Query takes a packet number and nothing else; it is a case of
  `DeliverToStation`.
* A radio thread that panics unwinds and drops its sender; `run_netlink_radios` goes on waiting for
  the others (`main.rs:313`). The process then runs with a radio less, which is not modelled: the
  panicked radio takes no more steps and shares no state with the others.
* Timers fire whenever they are armed; real durations exclude some of these orders.
  What holds here therefore holds for every timing.
* Other reasons for which a client drops its session (a BTM request with disassociation
  imminent, a BIP-protected group Deauthentication) have the effect of `ClientTimeout`,
  which is always possible.
* A multi-link peer is one peer in `KernelPeer`: its partner links are one command that
  may fail.

## 3. Runs that pass

| Run | Instance | Distinct states |
|---|---|---|
| `wpa2_one` | one WPA2 station, three replay counters, two GTKs, two SNonces, one packet number each side, one retry, fair | 149,700 |
| `pmf_one` | one station of a WPA3-SAE BSS, five counters, two candidate PTKs, one SA Query | 1.61 million |
| `wrong_psk` | two stations of a transition BSS, one with a key the AP does not admit | 789,072 |
| `group_two` | two established stations of a WPA3-SAE BSS, three GTKs, seven counters, fair | 386,208 |
| `timer` | one address, two records, four generations, two retries, fair | 43,960 |
| `kernel` | one address, all four kinds of radio, one failing command, three keys, two responses, cleanup channel of one | 8.50 million |
| `kernel_live` | one address, AP_VLAN and `FULL_AP_CLIENT_STATE`, one failing command, two keys, one response, fair | 612,806 |
| `startup` | a two-link MLD and a single-link radio, all DFS, per-station VIFs on the second, one failing request, one radar pulse or abort, two starts, fair | 205,499 |
| `sae` | two stations, one SAE slot, one commit each, two jobs, one reload, a worker that may die, fair | 544,903 |

`wpa2_one` shows that packet numbers are fresh on both sides (`NonceFresh`,
`ClientNonceFresh`), that no spent ANonce can become a key again (`NonceUnspent`), that an open
port means an agreed key (`KeyAgreement`), that a correct client never fails its MIC
(`NoFalseMicFailure`), that the rekey flag falls only after delivery (`RekeyDelivered`), that
handshakes end (`HandshakeResolves`) and that no client is left talking to an AP that forgot it
(`NoBlackHole`; a PMF client does stay: it discards the unprotected Deauthentication and
beacons keep its link-silence timer from firing). `pmf_one` shows what mandatory PMF buys:
`EventsPaired`, `RekeyArmed`, `ParserUnambiguous`. They are claimed for a WPA3-SAE BSS only: on
a transition BSS a request that nobody authenticated can take PMF away (section 4). `wrong_psk`
is that transition BSS, with a station that holds no admitted credential beside one that does,
SAE commits of any sender and requests that turn PMF on and off between any two messages: keys
are still agreed and admitted (`KeyAgreement`) and no spent ANonce returns (`NonceUnspent`).
`NoFalseMicFailure` is not claimed there, because a request may select the other PSK suite.
`group_two` has rotations meeting leaves, late group messages 2 and each other, and shows
`RekeyEnds`. `timer` shows `ArmedIsScheduled`, `FirstRecordOnTime`, `EventuallySettled` and the
refinement `ImplementsRetryTimer`.

`kernel` shows that no peer or AP_VLAN of the kernel loses its owner (`NoOrphan`), that a
queued deletion belongs to the incarnation that is retiring (`CleanupOwnsPeer`), that an open
port has a key and, where stations are isolated, its own AP_VLAN (`OpenPortIsBound`), that on
the base BSS the recorded key is the handshake's, and the kernel's unless a later NEW_KEY was
applied and reported as failed (`KeyedOnBase`), that a netdev left by a failed creation is
never taken for a station's (`NoOrphan` again), and that EAPOL waits for the binding
(`BindBeforeEapol`). `kernel_live` shows that retirements end (`RetirementCompletes`).
`startup` shows `RunningIsComplete`, `StartEnds` and `LoopAnswers`. `sae` shows that a pending
commit has its job (`PendingHasJob`), that the slots are never exceeded (`IncompleteCap`), that
confirmed keys were proved (`ConfirmedIsProved`), that what has to expire is scheduled
(`ExpiryArmed`) and does free its slot once the station has fallen silent (`SlotFreed`).

**Bounds.** Three replay counters let a station run one full handshake (message 1 and 3) and a
rotation or the start of a second handshake; five let it run two complete ones and a rotation,
which is where keys could come back. Two GTKs are one rotation, three are a rotation that meets
the messages of the one before. One packet number per side suffices to see a reuse, since a
reset goes to 1. Two SNonces give the two competing messages 2, and capacity one or two for the
candidates makes eviction happen. One retry has both outcomes of the retry count; `timer` has
two. One address is enough for `kernel`: stations meet only in the cleanup channel and in the
choice of a VLAN id, and a channel of one is full as soon as one job is queued. Two responses
give a TX status that belongs to an earlier one; one failing command, anywhere, gives every
partial publication; keys and job ids are reused names, so the length of a behaviour is not
bounded. Three keys are the newest and an older candidate beside the key in the kernel
(`MaxKey` disables a further one); the retirement of `kernel_live` does not look at keys and
has two. Two radios make events of one reach the other, two links make one start while its
partner waits. Only the second radio has per-station VIFs, so both branches of the sweep are
taken; the first start begins with the leftovers of a process of any configuration, and the
theorem is for every `PerStaVifs`. Two stations and one slot make the limit, the token and the full
queue happen; two jobs give each station one or one station two. Counters only grow and a bound
only disables their growth, so every state reached is a state of the unbounded system. The
theorems need no bound to be small.

`CHECK_DEADLOCK FALSE` stands where the instance really stops: `sae` when every client has
used its commits and everything expired (and `v_sae` likewise), `startup` when the process
ended and is not started again. Every other run checks for deadlock.

**Fairness.** The raw-frame loop calls `tick` for as long as it runs, so `RetryEapol` and
`TimeoutEapol` are weakly fair, as are `Elapse` and `Pop` of the timer. A client that has data
keeps sending it and the AP answers each time, so `DataToUnknown` and the reception of a
Deauthentication that is sent again and again are weakly fair. Nothing is assumed of any other
frame: messages 1 to 4 may all be lost for ever. `HandshakeResolves` and `EventuallySettled`
exclude the behaviours in which somebody restarts the exchange for ever, which the code cannot
prevent. In `KernelStations` the loop and the cleanup thread are weakly fair, and
`StartCleanup` strongly: the loop comes by again and again, and a retry deadline it keeps
comparing with the clock has in the end passed. In `RadioStartup` each thread is weakly fair,
which includes the time-out of every wait; no event is assumed to come. In `SaeAuth` only the
expiry of a station is weakly fair, because the loop ticks; nothing is assumed of the worker,
of any frame, or of a sender falling silent. A station that goes on sending keeps its
`last_activity` fresh and is never expired; `SlotFreed` therefore has as premise that from some
time on the station, while its exchange is unfinished, is silent.

## 4. Where the code and its own words disagree

Three are runs that TLC must find violated; `PROJECT.json` quotes the lines.

* `v_groupsync`: a rotation between message 3 and message 4 authorizes a station with the
  old GTK.
* `v_keyed`: with one AP_VLAN per station, a message 2 that answers an earlier message 1
  while the TX status of the new Association Response is outstanding has its PTK installed
  on the base BSS. The TX status then moves the station and deletes key slot 0, the
  registry keeps the key as installed, and message 4 authorizes a station without a
  PTK in the kernel.
* `v_sae`: a second computation of a commit, queued before the association, replaces the PMK
  and clears `sae_confirmed` of a station that has meanwhile associated with PMF.

The following were found with TLC in the same way and are not runs of this project. Where
a property is named it is in the module, marked as not holding.

* On a transition BSS a request of anybody between message 2 and message 4 of a PMF station clears
  `pmf` (`association.rs:149`, before the backoff returns). The session that message 4 opens is not
  protected, and the next three points apply to it as to a WPA2 station.
* A WPA2 station that reassociates completes another handshake and is reported Connected a
  second time (`EventsPaired` on a WPA2 BSS; `disconnect` speaks of events that pair up).
* `handle_assoc_req` starts a handshake with `group_rekeying` set, and the group parser claims
  its message 2 (`ParserUnambiguous` on a WPA2 BSS). `handle_auth_req` clears the flag for this
  reason.
* Message 4 of a re-run handshake disarms the group message 1 and leaves the flag set; until
  the station leaves, every later rotation is coalesced away (`RekeyArmed` on a WPA2 BSS).
* `tick` clears `group_rekey_due` before `rekey_gtk` declines to run (`StrictRekeyHonoured`).
* A heap entry of a removed `Station` record matches the generation of the next record of
  the address (`EapolTimer.NoEarlyExpiry`).
* `PortStaysOpen`, base BSS: an Association Response is repeated while message 4 is on its
  way; its TX status arrives after the authorization, and the refresh of the station flags
  leaves AUTHORIZED out while the registry stays at `Authorized`.
* `KeyedOnBase` without the exception of `klost`: a second message 2 has its key applied by a
  NEW_KEY whose ACK is missing, the registry keeps the first candidate as the kernel's key, and
  message 4 selects that one. `kernel_has_key` is true and the station is authorized while the
  kernel holds the other key.
* `VlanGroupKeyCurrent`: an authorized station on its AP_VLAN authenticates again, which
  renews its private group; the epoch is published while it is not authorized, and after the
  new handshake the AP_VLAN keeps the old GTK.
* `CacFinishedIsOwn`: `do_cac` does not look at the netdev of an event, so the end of another
  radio's check ends the wait. The kernel then refuses START_AP.
* `RadarVacated`: radar on a link that has started, while a later link of the same radio is
  being set up, is read and dropped by `request_ack` or by the other link's `do_cac`; the loop
  never learns of it. `src/netlink/linux/ap/events.rs:270` says that userspace "must vacate the
  channel within the regulatory move time".
* `ExpiryArmed` in transition mode: a station whose handshake without PMF is under way has an
  SAE commit completed, associates, is skipped by the maintenance because it is associated,
  and then authenticates open-system: the unfinished exchange is back and no deadline is
  set for it until something else sets one. `src/ap/mod.rs:86` says that "Incomplete SAE state
  is short-lived and must not accumulate indefinitely". In the same mode a station that began
  SAE and falls back to PSK is deferred (`association.rs:193`) for as long as its exchange lasts.
* A commit computed under the old password and confirmed after a reload enters the PMKSA
  cache the reload has just cleared. `ConfirmedIsProved` holds: the peer did prove it.
* A confirm that is held while a commit is computed always belongs to an earlier exchange, as
  the client cannot confirm before it has the AP's commit; it never verifies.

## 5. Theorems

Assumptions are only those on the constants: `Sta` is finite, credentials are sets of PMKs,
`NoKey`, `NoFrame` and `NoPmk` are not keys, frames or PMKs, bounds are natural numbers and
the candidate list has room for one (`EapolFrames`, `Authenticator`, `Supplicant`); for the
timer `0 < First <= Normal`; for SAE a cache of at least one entry; for the radios, link lists that are
not empty and disjoint, and at least one start; for the transport a finite `Sta`, so that an unused id
exists. `ExpiryAlwaysArmed` also assumes `~Transition`. Three theorems of `KeyProofs` (`EventsAlternate`,
`RekeyStaysArmed`, `ParsersApart`) are about a BSS with `Security = "wpa3"` and one (`NoStationBlamed`)
about `Security = "wpa2"`, as the runs of their properties are: section 4 says how each fails without.
All the others hold in every mode.

* `TypeCorrect == Spec => []TypeOK` (`WpaSession`). `TypeOK` is not inductive: a rekey puts the
  installed key into a frame, so the key of an associated station must be a key and not
  `NoKey`, and a connected client must have one installed. `TInv` adds the two. One lemma per
  group of actions and, below, one per record update; `RetainType` shows the capacity of
  `ptk_candidates`.
* `NoPnReuse == Spec => []NonceFresh` and `NoSpentNonceReturns == Spec => []NonceUnspent`.
  Message 4 installs a candidate with packet number 1, which is safe only if the candidate's
  key was never used. `NInv` therefore says, per station: the open, held and candidate ANonces
  are not spent (`Unspent`), candidates belong to the open handshake, which is past `ready`
  (`Candidates`), and every ANonce in sight is at most the replay counter from which the next
  one is minted (`Ordered`). A handler is one of: keeps the handshake (`Kept`), ends it
  (`Emptied`), opens it (`AssocOpens`), retains a key (`M2Retains`), installs one (`M4Installs`);
  `OtherStation` shows that no station spends another's ANonce.
* `PortOpensOnAgreement == Spec => []KeyAgreement` and `NoStationBlamed == Spec => []NoFalseMicFailure`,
  from `AInv`. Neither is inductive, because the AP acts on frames: the invariant says what a frame
  on the air proves. A message 4 exists only for a key the client committed (`Proved`), a message 2
  answers some message 1 with the station's own PMK (`Answers`), and a replay counter stands for
  one ANonce in all messages 1, in the open handshake and in the held one (`Counters`). The last
  is what the store of held ANonces is for; a counter with two ANonces would blame a correct
  station. An SAE commit of another sender gives the station a PMK its client does not hold; no
  message 2 of the client then verifies, so `Answers` is not disturbed.
* `NoClientPnReuse == Spec => []ClientNonceFresh`, from `CInv`: the SNonce of a pending key is newer
  than that of every committed key (`PendingIsNew`), so no key is committed twice and a packet
  number may restart at 1.
* `RekeyReachesClient == Spec => RekeyDelivered`, in every mode. `DInv` follows the group
  message: under the counter the AP waits for, every group message 1 carries the current GTK and
  a key that tells it apart from a four-way message with the same counter (`Current`), so the
  acknowledgement follows the delivery (`Acked`).
* `EventsAlternate`, `RekeyStaysArmed`, `ParsersApart` (`[]EventsPaired`, `[]RekeyArmed`,
  `[]ParserUnambiguous`, on a WPA3-SAE BSS), from `PInv`: a PMK comes with PMF and no request takes it
  away, so an open handshake is a PMF one, an authorized station has none open beside it, and a rekey
  belongs to an authorized station.
* `TimerTypeCorrect`, `ArmedAlwaysScheduled == Spec => []ArmedIsScheduled` and
  `HeapImplementsRetryTimer == Spec => ImplementsRetryTimer` for the heap, from `Inv`: types,
  armed stations are known, armed frames scheduled, dropped stations gone; the abstract timer
  tells a station the timer drops, which needs `MAX_EAPOL_RETRIES` repetitions of the pending frame,
  from one whose frame is answered, withdrawn or removed. `FirstRecordNeverEarly == Spec => []FirstRecordOnTime`
  needs to know of the stale entries: while an address is in its first record none is of a later
  generation, and none of the current one is due before the pending frame (`OnTime`).
* `SaeTypeCorrect`, from `TInv`: types, and a reload that has begun can still be installed.
  `ConfirmsAreProved == Spec => []ConfirmedIsProved`: a confirm is accepted from two places, the
  frame and the one held with a pending commit, so `CInv` adds that a held confirm was sent by
  that client (`HeldWasSent`).
* `PendingAlwaysHasJob == Spec => []PendingHasJob`: `Served`, per station, follows the job from
  the queue to the results by its id. `IncompleteWithinCap == Spec => []IncompleteCap`: the count
  the code compares counts a station twice that is unconfirmed and has a commit queued, so it
  is never below the number of stations with an exchange (`CountCovers`), and only
  `handle_sae_auth` starts one, below the limit (`CapAdmits`).
* `ExpiryAlwaysArmed`: with `Protected` (an association, and a PMK, go with PMF, so that an open
  authentication cannot end an association whose exchange is unfinished), which is what a
  transition BSS does not give.
* `ServingIsComplete == Spec => []RunningIsComplete` (`RadioStartup`). `SInv` says per radio what
  each stage has achieved: `Configured` (netdev type, links added so far), `OnAir` (links
  before the current one beacon; in the refresh, those before it are complete) and `Clean` (without
  faults: no stations once flushed, no AP_VLANs past the sweep of a radio that creates such).
  Every step is the end of the process, which starts from nothing (`ExitAchieves`), or concerns
  one radio (`Local`, `OthersKeep`), whose links no other radio has.
  `StartupTypeCorrect == Spec => []TypeOK` adds the bounds of the counters (`Bounded`) and what the
  events still in a socket may tell (`Told`): the AP's view of a channel follows the driver's.
* The six safety properties of `KernelStations` (`KernelProofs`), for every finite set of stations, both
  kinds of radio, every number of failing commands and every capacity of the cleanup channel:
  `KernelTypeCorrect`, `NothingOrphaned == Spec => []NoOrphan`, `WorkerOwnsPeer == Spec =>
  []CleanupOwnsPeer`, `PortBound == Spec => []OpenPortIsBound`, `AuthorizedKeyed == Spec =>
  []KeyedOnBase` and `EapolAfterBinding == Spec => BindBeforeEapol`. All follow from one inductive
  invariant, `KInv`:
  - `Sound(v, p)` holds of a station after *every* netlink command, also one that was refused or
    applied with an error ACK. It has the registry cover the kernel (`Registered`), cleanup ids
    only while retiring and one at a time (`Ticketed`), kernel state, EAPOL and pending
    authorizations only with a peer (`Attached`), and keys (`Engine`, `Ported`, `Keyed`). One lemma
    per command and one per composition carry it through `Then` and `OrElse`, so the partial
    failures are covered command by command.
  - `Settled(v, p)` holds once a phase is through with the station. It says why EAPOL may leave: an
    associated peer without awaited TX status is on its AP_VLAN, was associated before, or is
    about to be retired. The last case must not outlive the iteration, so `Stations` adds that from
    `apply_cleanup_results` to the next event no departure is left to publish.
  - `Claims` ties each queued job and each unread result to a peer that retires and carries its id,
    and no two to the same peer. Every other step leaves a retiring peer `Undisturbed` in all a
    claim is about. This is what justifies taking a phase of the loop as one step (section 2).

TLC only: everything under fairness (`HandshakeResolves`, `NoBlackHole`, `RekeyEnds`,
`EventuallySettled`, `RetirementCompletes`, `StartEnds`, `LoopAnswers`, `SlotFreed`), which needs ENABLED and
is out of the prover's reach, and the three counterexamples of section 4. Every invariant and every
action property that a passing run checks is also a theorem.

## 6. Not modelled

* Frames, information elements, RSN and multi-link elements, beacon bodies, netlink encoding,
  configuration parsing: byte layout without state; their verdicts are guards of the handlers.
* Elliptic-curve arithmetic, ciphers and key derivation: symbolic. 256-bit arithmetic is out
  of TLC's reach.
* OWE: one synchronous computation inside association; the session it keys is modelled.
* Receive replay windows of the data path: a sequential comparison per counter.
* Raw-frame sockets and `tap`: I/O; the loop is the fairness assumption.
* Transport details that leave the registry alone: the link a frame of a multi-link peer is
  sent on, the receive counter read back with GET_KEY, station telemetry.
* Failure log, control socket, SPR events, command line: nothing the access point decides
  reads them; the kick command is an action.
* `fakenet`, `uplink`, NAN: separate programs or a test network, sharing no state with sessions.

## 7. Plan

1. An abstract `KeyExchange` (a session is closed, open under a key, or gone) implemented by
   `WpaSession`, and an abstract station registry implemented by `KernelStations`, with the step
   simulation proved from `AInv` and `KInv`.
2. What of `EventsPaired`, `RekeyArmed` and `ParserUnambiguous` holds on a transition BSS for a session
   that was still protected when message 4 opened it (`PmfInv` is stated per station already).
3. `DataPath`: receive replay windows and group packet numbers across rotations; the failure
   log and the event fan-out as small sequential machines.
