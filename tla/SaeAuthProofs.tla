--------------------------- MODULE SaeAuthProofs ----------------------------
(***************************************************************************)
(* For every number of stations, commits, jobs and reloads: the access     *)
(* point keeps its types, and a PMK it treats as confirmed was proved by   *)
(* its peer.                                                               *)
(***************************************************************************)
EXTENDS SaeAuth, TLAPS

\* A reload that has begun can still be installed.
ReloadFits == reload => pw <= MaxReloads

TInv == TypeOK /\ ReloadFits

-----------------------------------------------------------------------------
(* Types of the values the actions build                                   *)

\* The distinguished values have the types of the fields they stand in.
LEMMA Constants ==
  /\ NoKey \in Keys
  /\ \A w \in Passwords : Psk(w) \in Keys
  /\ NoConfirm \in Confirm
  /\ NoStation \in Station
  /\ NoPending \in Pending
BY SaeAssumption DEF NoKey, Keys, Passwords, Psk, NoConfirm, Confirm,
   NoStation, Station, NoPending, Pending

\* The keys a computed commit and a client derive.
LEMMA KeyTypes ==
  /\ \A c \in Commits, a \in Ids, w \in Passwords :
       [c |-> c, a |-> a, w |-> w] \in Keys
  /\ \A c \in 0..MaxCommits, k \in Keys, w \in Passwords :
       [c |-> c, a |-> k.a, w |-> w] \in Keys
BY SaeAssumption DEF Keys, Commits, Ids, Passwords

\* The record updates of the actions keep the type Station.
LEMMA StationUpdates ==
  ASSUME NEW st \in Station, NEW k \in Keys, NEW b \in BOOLEAN,
         NEW n \in 0..MaxConfirms
  PROVE  /\ Accepted(st, n) \in Station
         /\ [st EXCEPT !.sae = k, !.pmk = k, !.confirmed = FALSE,
                       !.last = 0, !.pmf = TRUE] \in Station
         /\ [st EXCEPT !.assoc = FALSE, !.pmf = FALSE, !.pmk = k]
              \in Station
         /\ [st EXCEPT !.pmf = b] \in Station
         /\ [st EXCEPT !.pmk = k, !.pmf = TRUE] \in Station
         /\ [st EXCEPT !.ready = TRUE] \in Station
         /\ [st EXCEPT !.pmk = k, !.ready = FALSE, !.assoc = TRUE] \in Station
<1>1. Accepted(st, n) \in Station
  BY DEF Station, Accepted
<1>2. [st EXCEPT !.sae = k, !.pmk = k, !.confirmed = FALSE, !.last = 0,
                 !.pmf = TRUE] \in Station
  <2> DEFINE r1 == [st EXCEPT !.sae = k, !.pmk = k]
             r2 == [r1 EXCEPT !.confirmed = FALSE]
             r3 == [r2 EXCEPT !.last = 0]
             r4 == [r3 EXCEPT !.pmf = TRUE]
  <2>1. r1 \in Station
    BY DEF Station
  <2>2. r4 = [st EXCEPT !.sae = k, !.pmk = k, !.confirmed = FALSE, !.last = 0,
                        !.pmf = TRUE]
    OBVIOUS
  <2> HIDE DEF r1
  <2>3. r2 \in Station
    BY <2>1 DEF Station
  <2> HIDE DEF r2
  <2>4. 0 \in 0..MaxConfirms
    BY SaeAssumption
  <2>5. r3 \in Station
    BY <2>3, <2>4 DEF Station
  <2> HIDE DEF r3
  <2>6. r4 \in Station
    BY <2>5 DEF Station
  <2> QED  BY <2>2, <2>6
<1>3. [st EXCEPT !.assoc = FALSE, !.pmf = FALSE, !.pmk = k] \in Station
  BY DEF Station
<1>4. [st EXCEPT !.pmf = b] \in Station
  BY DEF Station
<1>5. [st EXCEPT !.pmk = k, !.pmf = TRUE] \in Station
  BY DEF Station
<1>6. [st EXCEPT !.ready = TRUE] \in Station
  BY DEF Station
<1>7. [st EXCEPT !.pmk = k, !.ready = FALSE, !.assoc = TRUE] \in Station
  BY DEF Station
<1> QED
  BY <1>1, <1>2, <1>3, <1>4, <1>5, <1>6, <1>7

\* request_sae_token changes the token of one commit only.
LEMMA RequestTokenType ==
  ASSUME TypeOK, NEW s \in Sta, NEW c \in Commits, RequestToken(s, c)
  PROVE  /\ tok' \in [Sta -> [Commits -> {"none", "granted", "echoed"}]]
         /\ UNCHANGED <<ap, armed, cache, pw, reload, answers, confirms, cl>>
BY DEF TypeOK, RequestToken, apVars, credVars

\* cache_pmksa keeps pairs of a station and a key.
LEMMA CachePmksaType ==
  ASSUME TypeOK, NEW s \in Sta, NEW k \in Keys, CachePmksa(s, k)
  PROVE  cache' \subseteq Sta \X Keys
BY DEF TypeOK, CachePmksa

\* finish_sae_commit replaces the SAE fields of one station.
LEMMA FinishType ==
  ASSUME TypeOK, NEW s \in Sta, NEW k \in Keys, NEW held \in Confirm,
         FinishSaeCommit(s, k, held)
  PROVE  /\ ap' \in [Sta -> Station]
         /\ armed' \in BOOLEAN
         /\ cache' \subseteq Sta \X Keys
         /\ answers' \in [Sta -> SUBSET Keys]
<1> DEFINE r == [ap[s] EXCEPT !.sae = k, !.pmk = k, !.confirmed = FALSE,
                              !.last = 0, !.pmf = TRUE]
<1>1. ap[s] \in Station /\ held.n \in 0..MaxConfirms
  BY DEF TypeOK, Confirm
<1>2. r \in Station /\ Accepted(r, held.n) \in Station
  BY <1>1, StationUpdates
<1>3. /\ answers' = [answers EXCEPT ![s] = @ \cup {k}]
      /\ armed' = TRUE
      /\ \/ ap' = [ap EXCEPT ![s] = Accepted(r, held.n)] /\ CachePmksa(s, k)
         \/ ap' = [ap EXCEPT ![s] = r] /\ UNCHANGED cache
  BY DEF FinishSaeCommit
<1> HIDE DEF r
<1>4. ap' \in [Sta -> Station]
  BY <1>2, <1>3 DEF TypeOK
<1>5. cache' \subseteq Sta \X Keys
  BY <1>3, CachePmksaType DEF TypeOK
<1> QED
  BY <1>3, <1>4, <1>5 DEF TypeOK

\* A job of the next id, and the pending commit that waits for it.
LEMMA JobType ==
  ASSUME TypeOK, NEW s \in Sta, NEW c \in Commits, nextId <= MaxJobs
  PROVE  /\ [id |-> nextId, s |-> s, c |-> c, w |-> pw] \in Job
         /\ [id |-> nextId, c |-> c, held |-> NoConfirm] \in Pending
         /\ [c |-> c, a |-> nextId, w |-> pw] \in Keys
         /\ nextId + 1 \in 1..(MaxJobs + 1)
<1>1. nextId \in Ids /\ nextId \in 0..MaxJobs /\ c \in 0..MaxCommits
  BY SaeAssumption DEF TypeOK, Ids, Commits
<1>2. nextId + 1 \in 1..(MaxJobs + 1)
  BY SaeAssumption DEF TypeOK
<1> QED
  BY <1>1, <1>2, Constants, KeyTypes DEF TypeOK, Job, Pending

\* queue_sae_commit, in each of its four outcomes.
LEMMA QueueType ==
  ASSUME TInv, NEW s \in Sta, NEW c \in Commits, QueueSaeCommit(s, c),
         UNCHANGED credVars, (quiet \subseteq UnassociatedSae)'
  PROVE  TInv'
<1> DEFINE job == [id |-> nextId, s |-> s, c |-> c, w |-> pw]
           entry == [id |-> nextId, c |-> c, held |-> NoConfirm]
           k == [c |-> c, a |-> nextId, w |-> pw]
<1> USE DEF TInv
<1>1. /\ job \in Job /\ entry \in Pending /\ k \in Keys
      /\ nextId' \in 1..(MaxJobs + 1)
  BY JobType DEF QueueSaeCommit
<1>2. UNCHANGED <<pw, reload>>
  BY DEF credVars
<1>3. CASE /\ jobs' = Append(jobs, job)
           /\ pend' = [pend EXCEPT ![s] = entry]
           /\ armed' = TRUE
           /\ UNCHANGED <<ap, cache, results, worker, tok, answers, confirms, cl>>
  <2> HIDE DEF job, entry
  <2>1. jobs' \in Seq(Job) /\ pend' \in [Sta -> Pending]
    BY <1>1, <1>3 DEF TypeOK
  <2> QED
    BY <1>1, <1>2, <1>3, <2>1 DEF TypeOK, ReloadFits
<1>4. CASE RequestToken(s, c) /\ UNCHANGED <<pend, jobs, results, worker>>
  BY <1>1, <1>2, <1>4, RequestTokenType DEF TypeOK, ReloadFits
<1>5. CASE DropWorker /\ UNCHANGED <<apVars, tok, answers, confirms, cl>>
  BY <1>1, <1>2, <1>5, Constants DEF TypeOK, ReloadFits, DropWorker, apVars
<1>6. CASE /\ FinishSaeCommit(s, k, NoConfirm)
           /\ UNCHANGED <<pend, jobs, results, worker, tok, confirms, cl>>
  <2> HIDE DEF k
  <2>1. NoConfirm \in Confirm
    BY Constants
  <2>2. /\ ap' \in [Sta -> Station] /\ armed' \in BOOLEAN
        /\ cache' \subseteq Sta \X Keys /\ answers' \in [Sta -> SUBSET Keys]
    BY <1>1, <1>6, <2>1, FinishType
  <2> QED
    BY <1>1, <1>2, <1>6, <2>2 DEF TypeOK, ReloadFits
<1> QED
  BY <1>3, <1>4, <1>5, <1>6 DEF QueueSaeCommit

\* Frames sent and received by a client.
LEMMA ClientType ==
  ASSUME TInv, NEW s \in Sta, ClientStep(s), (quiet \subseteq UnassociatedSae)'
  PROVE  TInv'
<1> USE DEF TInv, apVars, asyncVars, credVars
<1>0. cl[s] \in Client
  BY DEF TypeOK
<1>1. CASE StartSae(s)
  <2>1. cl[s].c + 1 \in 0..MaxCommits /\ NoKey \in Keys /\ 0 \in 0..MaxConfirms
    BY <1>0, <1>1, SaeAssumption, Constants DEF StartSae, Client
  <2>2. [cl[s] EXCEPT !.c = cl[s].c + 1, !.w = pw, !.key = NoKey, !.sent = 0]
          \in Client
    <3> DEFINE r1 == [cl[s] EXCEPT !.c = cl[s].c + 1, !.w = pw]
               r2 == [r1 EXCEPT !.key = NoKey, !.sent = 0]
    <3>1. r1 \in Client
      BY <1>0, <2>1 DEF Client, TypeOK
    <3>2. r2 = [cl[s] EXCEPT !.c = cl[s].c + 1, !.w = pw, !.key = NoKey,
                             !.sent = 0]
      OBVIOUS
    <3> HIDE DEF r1
    <3>3. r2 \in Client
      BY <3>1, <2>1 DEF Client
    <3> QED  BY <3>2, <3>3
  <2>3. cl' = [cl EXCEPT ![s] = [cl[s] EXCEPT !.c = cl[s].c + 1, !.w = pw,
                                              !.key = NoKey, !.sent = 0]]
    BY <1>1 DEF StartSae, TypeOK
  <2>4. cl' \in [Sta -> Client]
    BY <2>2, <2>3 DEF TypeOK
  <2> QED
    BY <1>1, <2>4 DEF StartSae, TypeOK, ReloadFits
<1>2. CASE EchoToken(s)
  BY <1>2 DEF EchoToken, TypeOK, ReloadFits
<1>3. ASSUME NEW k \in answers[s], ClientCommit(s, k)
      PROVE  TInv'
  <2> DEFINE mine == [c |-> cl[s].c, a |-> k.a, w |-> cl[s].w]
             sent == cl[s].sent + 1
  <2>1. mine \in Keys
    BY <1>0, KeyTypes DEF TypeOK, Client
  <2>2. sent \in 0..MaxConfirms
    BY <1>0, <1>3, SaeAssumption DEF ClientCommit, Client
  <2>3. /\ cl' = [cl EXCEPT ![s].key = mine, ![s].sent = sent]
        /\ confirms' = [confirms EXCEPT ![s] = @ \cup {[k |-> mine, n |-> sent]}]
    BY <1>3 DEF ClientCommit
  <2> HIDE DEF mine, sent
  <2>4. [k |-> mine, n |-> sent] \in Confirm
    BY <2>1, <2>2 DEF Confirm
  <2>5. [cl[s] EXCEPT !.key = mine, !.sent = sent] \in Client
    BY <1>0, <2>1, <2>2 DEF Client
  <2>6. cl' = [cl EXCEPT ![s] = [cl[s] EXCEPT !.key = mine, !.sent = sent]]
    BY <2>3 DEF TypeOK
  <2>7. cl' \in [Sta -> Client] /\ confirms' \in [Sta -> SUBSET Confirm]
    BY <2>3, <2>4, <2>5, <2>6 DEF TypeOK
  <2> QED
    BY <1>3, <2>7 DEF ClientCommit, TypeOK, ReloadFits
<1>4. ASSUME NEW k \in answers[s], ClientConfirm(s, k)
      PROVE  TInv'
  <2>1. [cl[s] EXCEPT !.cached = k] \in Client
    BY <1>0 DEF Client, TypeOK
  <2> QED
    BY <1>4, <2>1 DEF ClientConfirm, TypeOK, ReloadFits
<1> QED
  BY <1>1, <1>2, <1>3, <1>4 DEF ClientStep

\* Frames received by the access point, and the end of a session.
LEMMA ReceiveType ==
  ASSUME TInv, NEW s \in Sta, ReceiveStep(s) \/ Disconnect(s),
         (quiet \subseteq UnassociatedSae)'
  PROVE  TInv'
<1> USE DEF TInv, apVars, asyncVars, credVars, clientVars
<1>0. ap[s] \in Station /\ pend[s] \in Pending /\ cl[s] \in Client
  BY DEF TypeOK
<1>1. ASSUME NEW c \in Commits, NEW t \in BOOLEAN, RecvCommit(s, c, t)
      PROVE  TInv'
  <2>1. CASE RequestToken(s, c) /\ UNCHANGED asyncVars
    BY <2>1, RequestTokenType DEF TypeOK, ReloadFits
  <2>2. CASE QueueSaeCommit(s, c) /\ UNCHANGED credVars
    BY <2>2, QueueType
  <2> QED
    BY <1>1, <2>1, <2>2 DEF RecvCommit
<1>2. ASSUME NEW f \in confirms[s], RecvConfirm(s, f)
      PROVE  TInv'
  <2>1. f \in Confirm /\ f.k \in Keys /\ f.n \in 0..MaxConfirms
    BY DEF TypeOK, Confirm
  <2>2. CASE pend' = [pend EXCEPT ![s].held = f] /\ UNCHANGED <<ap, armed, cache>>
    <3>1. [pend[s] EXCEPT !.held = f] \in Pending
      BY <1>0, <2>1 DEF Pending
    <3>2. pend' \in [Sta -> Pending]
      BY <2>2, <3>1 DEF TypeOK
    <3> QED
      BY <1>2, <2>2, <3>2 DEF RecvConfirm, TypeOK, ReloadFits
  <2>3. CASE /\ ap' = [ap EXCEPT ![s] = Accepted(@, f.n)]
             /\ CachePmksa(s, f.k)
             /\ armed' = TRUE
             /\ UNCHANGED pend
    <3>1. ap' \in [Sta -> Station]
      BY <1>0, <2>1, <2>3, StationUpdates, Constants DEF TypeOK
    <3>2. cache' \subseteq Sta \X Keys
      BY <2>1, <2>3, CachePmksaType
    <3> QED
      BY <1>2, <2>3, <3>1, <3>2 DEF RecvConfirm, TypeOK, ReloadFits
  <2> QED
    BY <1>2, <2>2, <2>3 DEF RecvConfirm
<1>3. CASE RecvOpenAuth(s)
  <2>1. [ap[s] EXCEPT !.assoc = FALSE, !.pmf = FALSE, !.pmk = NoKey] \in Station
    BY <1>0, Constants DEF Station
  <2>2. ap' \in [Sta -> Station]
    BY <1>3, <2>1 DEF RecvOpenAuth, TypeOK
  <2> QED
    BY <1>3, <2>2 DEF RecvOpenAuth, TypeOK, ReloadFits
<1>4. ASSUME NEW akm \in {"sae", "pmksa", "psk"}, NEW mfpc \in BOOLEAN,
             NEW backoff \in BOOLEAN, RecvAssoc(s, akm, mfpc, backoff)
      PROVE  TInv'
  <2> DEFINE r == [ap[s] EXCEPT !.pmf = IF Transition THEN mfpc ELSE @]
             q == [r EXCEPT !.pmk = cl[s].cached, !.pmf = TRUE]
  <2>1. r \in Station
    <3>1. CASE Transition
      BY <1>0, <3>1 DEF Station
    <3>2. CASE ~Transition
      BY <1>0, <3>2 DEF Station
    <3> QED  BY <3>1, <3>2
  <2>2. \E x \in {r, q, [r EXCEPT !.ready = TRUE], [q EXCEPT !.ready = TRUE]} :
          ap' = [ap EXCEPT ![s] = x]
    BY <1>4 DEF RecvAssoc
  <2> HIDE DEF r
  <2>3. q \in Station
    BY <1>0, <2>1 DEF Station, Client
  <2> HIDE DEF q
  <2>4. [r EXCEPT !.ready = TRUE] \in Station /\ [q EXCEPT !.ready = TRUE] \in Station
    BY <2>1, <2>3 DEF Station
  <2>5. ap' \in [Sta -> Station]
    BY <2>1, <2>2, <2>3, <2>4 DEF TypeOK
  <2> QED
    BY <1>4, <2>5 DEF RecvAssoc, TypeOK, ReloadFits
<1>5. ASSUME NEW k \in ClientKeys(s), FourWay(s, k)
      PROVE  TInv'
  <2> DEFINE q == [ap[s] EXCEPT !.pmk = k, !.ready = FALSE, !.assoc = TRUE]
  <2>1. k \in Keys
    BY <1>0, Constants DEF ClientKeys, TypeOK, Confirm, Client
  <2>2. q \in Station /\ NoStation \in Station
    BY <1>0, <2>1, Constants DEF Station
  <2>3. ap' = [ap EXCEPT ![s] = q] \/ ap' = [ap EXCEPT ![s] = NoStation]
    BY <1>5 DEF FourWay
  <2> HIDE DEF q
  <2>4. ap' \in [Sta -> Station]
    BY <2>2, <2>3 DEF TypeOK
  <2> QED
    BY <1>5, <2>4 DEF FourWay, TypeOK, ReloadFits
<1>6. CASE Disconnect(s)
  <2>1. ap' \in [Sta -> Station]
    BY <1>6, Constants DEF Disconnect, TypeOK
  <2> QED
    BY <1>6, <2>1 DEF Disconnect, TypeOK, ReloadFits
<1> QED
  BY <1>1, <1>2, <1>3, <1>4, <1>5, <1>6 DEF ReceiveStep

\* The worker, its channels and what the loop makes of them.
LEMMA WorkerType ==
  ASSUME TInv,
         \/ \E ok \in BOOLEAN : Compute(ok)
         \/ WorkerDies \/ PollSaeWork \/ PollClosed,
         (quiet \subseteq UnassociatedSae)'
  PROVE  TInv'
<1> USE DEF TInv, apVars, credVars, clientVars
<1>1. ASSUME NEW ok \in BOOLEAN, Compute(ok)
      PROVE  TInv'
  <2>1. Head(jobs) \in Job /\ Tail(jobs) \in Seq(Job)
    BY <1>1 DEF Compute, TypeOK
  <2>2. [job |-> Head(jobs), ok |-> ok] \in Result
    BY <2>1 DEF Result
  <2>3. results' \in Seq(Result) /\ jobs' \in Seq(Job)
    BY <1>1, <2>1, <2>2 DEF Compute, TypeOK
  <2> QED
    BY <1>1, <2>3 DEF Compute, TypeOK, ReloadFits
<1>2. CASE WorkerDies
  BY <1>2 DEF WorkerDies, TypeOK, ReloadFits
<1>3. CASE PollClosed
  BY <1>3, Constants DEF PollClosed, DropWorker, TypeOK, ReloadFits
<1>4. CASE PollSaeWork
  <2> DEFINE j == Head(results).job
             k == [c |-> j.c, a |-> j.id, w |-> j.w]
  <2>1. Head(results) \in Result /\ Tail(results) \in Seq(Result)
    BY <1>4 DEF PollSaeWork, TypeOK
  <2>2. j \in Job
    BY <2>1 DEF Result
  <2>3. k \in Keys /\ j.s \in Sta
    BY <2>2, KeyTypes DEF Job
  <2>4. pend[j.s] \in Pending /\ pend[j.s].held \in Confirm
    BY <2>3 DEF TypeOK, Pending
  <2>5. /\ results' = Tail(results)
        /\ pend' = [pend EXCEPT ![j.s] = NoPending] \/ pend' = pend
        /\ \/ FinishSaeCommit(j.s, k, pend[j.s].held)
           \/ UNCHANGED <<ap, armed, cache, answers>>
        /\ UNCHANGED <<pw, reload, tok, confirms, cl, jobs, nextId, worker>>
    BY <1>4 DEF PollSaeWork
  <2> HIDE DEF j, k
  <2>6. /\ ap' \in [Sta -> Station] /\ armed' \in BOOLEAN
        /\ cache' \subseteq Sta \X Keys /\ answers' \in [Sta -> SUBSET Keys]
    BY <2>3, <2>4, <2>5, FinishType DEF TypeOK
  <2>7. pend' \in [Sta -> Pending]
    BY <2>3, <2>5, Constants DEF TypeOK
  <2> QED
    BY <2>1, <2>5, <2>6, <2>7 DEF TypeOK, ReloadFits
<1> QED
  BY <1>1, <1>2, <1>3, <1>4

\* Expiry, and the credential reload.
LEMMA MaintenanceType ==
  ASSUME TInv,
         \/ \E P \in SUBSET PendingCommits, S \in SUBSET StaleSae,
               E \in SUBSET cache : Maintenance(P, S, E)
         \/ Reload,
         (quiet \subseteq UnassociatedSae)'
  PROVE  TInv'
<1> USE DEF TInv, apVars, asyncVars, credVars, clientVars
<1>1. ASSUME NEW P \in SUBSET PendingCommits, NEW S \in SUBSET StaleSae,
             NEW E \in SUBSET cache, Maintenance(P, S, E)
      PROVE  TInv'
  <2>1. ap' \in [Sta -> Station] /\ pend' \in [Sta -> Pending]
    BY <1>1, Constants DEF Maintenance, TypeOK
  <2>2. armed' \in BOOLEAN
    BY <1>1 DEF Maintenance, Considered
  <2>3. cache' \subseteq Sta \X Keys
    BY <1>1 DEF Maintenance, TypeOK
  <2> QED
    BY <1>1, <2>1, <2>2, <2>3 DEF Maintenance, TypeOK, ReloadFits
<1>2. CASE BeginReload
  BY <1>2 DEF BeginReload, TypeOK, ReloadFits
<1>3. CASE CancelReload
  BY <1>3 DEF CancelReload, TypeOK, ReloadFits
<1>4. CASE InstallReload
  <2>1. pw' \in Passwords
    BY <1>4, SaeAssumption DEF InstallReload, TypeOK, ReloadFits, Passwords
  <2> QED
    BY <1>4, <2>1 DEF InstallReload, TypeOK, ReloadFits
<1> QED
  BY <1>1, <1>2, <1>3, <1>4 DEF Reload

\* The steps of the system, apart from when a station was heard of last.
LEMMA Steps ==
  ASSUME [Next]_vars
  PROVE  \/ UNCHANGED core
         \/ \E s \in Sta : ClientStep(s) \/ ReceiveStep(s) \/ Disconnect(s)
         \/ \E ok \in BOOLEAN : Compute(ok)
         \/ WorkerDies \/ PollSaeWork \/ PollClosed
         \/ \E P \in SUBSET PendingCommits, S \in SUBSET StaleSae,
               E \in SUBSET cache : Maintenance(P, S, E)
         \/ Reload
<1>1. ASSUME NEW P \in SUBSET PendingCommits, NEW E \in SUBSET cache,
             Maintenance(P, StaleSae, E)
      PROVE  \E S \in SUBSET StaleSae : Maintenance(P, S, E)
  BY <1>1
<1> QED
  BY <1>1 DEF Next, Unheard, RecvOther, FallsSilent, vars

\* Only stations with an open exchange count as silent: finish_sae_commit and
\* every frame renew last_activity, and a removed station has none.
LEMMA QuietType ==
  ASSUME TypeOK, [Next]_vars
  PROVE  (quiet \subseteq UnassociatedSae)'
<1>0. quiet \subseteq UnassociatedSae
  BY DEF TypeOK
<1>a. ASSUME quiet' \subseteq quiet, \A t \in quiet' : ap'[t] = ap[t]
      PROVE  (quiet \subseteq UnassociatedSae)'
  BY <1>0, <1>a DEF UnassociatedSae
<1>b. ASSUME NEW s \in Sta, quiet' = quiet \ {s}, \A t \in Sta \ {s} : ap'[t] = ap[t]
      PROVE  (quiet \subseteq UnassociatedSae)'
  BY <1>0, <1>a, <1>b DEF UnassociatedSae
<1>c. ASSUME NEW s \in Sta, NEW k, NEW held, FinishSaeCommit(s, k, held)
      PROVE  quiet' = quiet \ {s} /\ \A t \in Sta \ {s} : ap'[t] = ap[t]
  BY <1>c DEF FinishSaeCommit, TypeOK
<1>1. CASE UNCHANGED vars
  BY <1>1, <1>a DEF vars, core
<1>2. ASSUME NEW s \in Sta, ReceiveStep(s) PROVE (quiet \subseteq UnassociatedSae)'
  <2>1. quiet' = quiet \ {s}
    BY <1>2 DEF ReceiveStep
  <2>2. ASSUME NEW c \in Commits, NEW b \in BOOLEAN, RecvCommit(s, c, b)
        PROVE  \A t \in Sta \ {s} : ap'[t] = ap[t]
    BY <2>2, <1>c DEF RecvCommit, QueueSaeCommit, RequestToken, apVars
  <2>3. ASSUME NEW x, ap' = [ap EXCEPT ![s] = x]
        PROVE  \A t \in Sta \ {s} : ap'[t] = ap[t]
    BY <2>3 DEF TypeOK
  <2>4. ASSUME NEW f \in confirms[s], RecvConfirm(s, f)
        PROVE  \A t \in Sta \ {s} : ap'[t] = ap[t]
    BY <2>3, <2>4 DEF RecvConfirm, apVars
  <2>5. ASSUME \/ RecvOpenAuth(s)
               \/ \E akm \in {"sae", "pmksa", "psk"}, mfpc, backoff \in BOOLEAN :
                    RecvAssoc(s, akm, mfpc, backoff)
               \/ \E k \in ClientKeys(s) : FourWay(s, k)
        PROVE  \A t \in Sta \ {s} : ap'[t] = ap[t]
    BY <2>3, <2>5 DEF RecvOpenAuth, RecvAssoc, FourWay
  <2> QED
    BY <1>2, <1>b, <2>1, <2>2, <2>4, <2>5 DEF ReceiveStep
<1>3. ASSUME NEW s \in Sta, RecvOther(s) PROVE (quiet \subseteq UnassociatedSae)'
  BY <1>3, <1>b DEF RecvOther, core
<1>4. ASSUME NEW s \in Sta, FallsSilent(s) PROVE (quiet \subseteq UnassociatedSae)'
  BY <1>4, <1>0 DEF FallsSilent, core, UnassociatedSae
<1>5. ASSUME NEW s \in Sta, Disconnect(s) PROVE (quiet \subseteq UnassociatedSae)'
  BY <1>5, <1>b DEF Disconnect, TypeOK
<1>6. CASE PollSaeWork
  <2> DEFINE j == Head(results).job
             k == [c |-> j.c, a |-> j.id, w |-> j.w]
  <2>1. Head(results) \in Result
    BY <1>6 DEF PollSaeWork, TypeOK
  <2>2. j.s \in Sta
    BY <2>1 DEF Result, Job
  <2>3. \/ FinishSaeCommit(j.s, k, pend[j.s].held)
        \/ UNCHANGED <<ap, quiet>>
    BY <1>6 DEF PollSaeWork, apVars
  <2> HIDE DEF j, k
  <2> QED
    BY <1>a, <1>b, <1>c, <2>2, <2>3
<1>7. ASSUME NEW P \in SUBSET PendingCommits, NEW E \in SUBSET cache,
             Maintenance(P, StaleSae, E)
      PROVE  (quiet \subseteq UnassociatedSae)'
  <2>1. quiet' = quiet \ StaleSae /\ \A t \in Sta \ StaleSae : ap'[t] = ap[t]
    BY <1>7 DEF Maintenance
  <2> QED
    BY <1>0, <1>a, <2>1 DEF UnassociatedSae
<1>8. CASE Unheard /\ UNCHANGED quiet
  <2>1. UNCHANGED ap
    BY <1>8 DEF Unheard, ClientStep, StartSae, EchoToken, ClientCommit, ClientConfirm,
       Compute, WorkerDies, PollClosed, Reload, BeginReload, CancelReload,
       InstallReload, apVars
  <2> QED
    BY <1>8, <2>1, <1>a
<1> QED
  BY <1>1, <1>2, <1>3, <1>4, <1>5, <1>6, <1>7, <1>8 DEF Next

\* The typing invariant is inductive.
LEMMA TypeInductive == TInv /\ [Next]_vars => TInv'
<1> SUFFICES ASSUME TInv, [Next]_vars PROVE TInv'
  OBVIOUS
<1>0. (quiet \subseteq UnassociatedSae)'
  BY QuietType DEF TInv
<1>1. CASE UNCHANGED core
  BY <1>0, <1>1 DEF TInv, TypeOK, ReloadFits, core
<1>2. ASSUME NEW s \in Sta, ClientStep(s) \/ ReceiveStep(s) \/ Disconnect(s)
      PROVE  TInv'
  BY <1>0, <1>2, ClientType, ReceiveType
<1> QED
  BY <1>0, <1>1, <1>2, Steps, WorkerType, MaintenanceType

\* The typing invariant holds initially.
LEMMA TypeInit == Init => TInv
<1> SUFFICES ASSUME Init PROVE TInv
  OBVIOUS
<1>1. [c |-> 0, w |-> 1, key |-> NoKey, sent |-> 0, cached |-> NoKey] \in Client
  BY SaeAssumption, Constants DEF Client, Passwords
<1>2. cl \in [Sta -> Client]
  BY <1>1 DEF Init
<1>3. pw \in Passwords /\ ReloadFits
  BY SaeAssumption DEF Init, Passwords, ReloadFits
<1>4. nextId \in 1..(MaxJobs + 1)
  BY SaeAssumption DEF Init
<1>5. tok \in [Sta -> [Commits -> {"none", "granted", "echoed"}]]
  BY DEF Init
<1>6. ap \in [Sta -> Station] /\ pend \in [Sta -> Pending]
  BY Constants DEF Init
<1>7. jobs \in Seq(Job) /\ results \in Seq(Result)
  BY DEF Init
<1>8. worker \in {"up", "dead", "off"} /\ armed \in BOOLEAN /\ reload \in BOOLEAN
  BY DEF Init
<1>9. /\ cache \subseteq Sta \X Keys
      /\ answers \in [Sta -> SUBSET Keys] /\ confirms \in [Sta -> SUBSET Confirm]
      /\ quiet \subseteq UnassociatedSae
  BY DEF Init
<1> QED
  BY <1>2, <1>3, <1>4, <1>5, <1>6, <1>7, <1>8, <1>9 DEF TInv, TypeOK

\* The typing invariant holds throughout: the other proofs rest on it.
LEMMA TypeInvariant == Spec => []TInv
BY TypeInit, TypeInductive, PTL DEF Spec

\* Types, for every number of stations, commits and jobs: pending commits, jobs
\* and results of the worker, and the replay window of confirms stay in range.
THEOREM SaeTypeCorrect == Spec => []TypeOK
<1>1. TInv => TypeOK
  BY DEF TInv
<1> QED
  BY <1>1, TypeInvariant, PTL

-----------------------------------------------------------------------------
(* A confirmed PMK was proved by its peer.  A confirm can be held while a  *)
(* commit is computed and looked at later, so the held one must be a       *)
(* confirm that was sent.                                                  *)

HeldWasSent ==
  \A s \in Sta : pend[s].held = NoConfirm \/ pend[s].held \in confirms[s]

CInv == ConfirmedIsProved /\ HeldWasSent

\* A step that sends nothing new, adds no cache entry and confirms nobody.
LEMMA NothingProved ==
  ASSUME CInv,
         \A s \in Sta : confirms[s] \subseteq confirms'[s],
         cache' \subseteq cache, cache \subseteq Sta \X Keys,
         \A s \in Sta : ap'[s].confirmed =>
           ap[s].confirmed /\ ap'[s].sae = ap[s].sae,
         \A s \in Sta : \/ pend'[s].held = NoConfirm
                        \/ pend'[s].held = pend[s].held
                        \/ pend'[s].held \in confirms[s]
  PROVE  CInv'
<1>1. ASSUME NEW e \in cache' PROVE \E f \in confirms'[e[1]] : f.k = e[2]
  <2>1. e[1] \in Sta
    OBVIOUS
  <2> QED
    BY <2>1 DEF CInv, ConfirmedIsProved
<1>2. ASSUME NEW s \in Sta, ap'[s].confirmed
      PROVE  \E f \in confirms'[s] : f.k = ap'[s].sae
  BY <1>2 DEF CInv, ConfirmedIsProved
<1>3. HeldWasSent'
  BY DEF CInv, HeldWasSent
<1> QED
  BY <1>1, <1>2, <1>3 DEF CInv, ConfirmedIsProved

\* A step that accepts the confirm f of station s, and caches its key.
LEMMA ProvedBy ==
  ASSUME TypeOK, CInv, UNCHANGED confirms, NEW s \in Sta, NEW f \in confirms[s],
         CachePmksa(s, f.k), ap'[s].sae = f.k,
         \A t \in Sta \ {s} : ap'[t] = ap[t],
         \A t \in Sta : pend'[t] = pend[t] \/ pend'[t] = NoPending
  PROVE  CInv'
<1>1. cache' \subseteq cache \cup {<<s, f.k>>}
  BY DEF CachePmksa
<1>2. ASSUME NEW e \in cache' PROVE \E g \in confirms'[e[1]] : g.k = e[2]
  BY <1>1 DEF CInv, ConfirmedIsProved
<1>3. ASSUME NEW t \in Sta, ap'[t].confirmed
      PROVE  \E g \in confirms'[t] : g.k = ap'[t].sae
  BY <1>3 DEF CInv, ConfirmedIsProved
<1>4. HeldWasSent'
  BY DEF CInv, HeldWasSent, NoPending
<1> QED
  BY <1>2, <1>3, <1>4 DEF CInv, ConfirmedIsProved

\* finish_sae_commit confirms only with a held confirm of the computed key.
LEMMA FinishProved ==
  ASSUME TypeOK, CInv, UNCHANGED confirms, NEW s \in Sta, NEW k \in Keys,
         NEW held \in Confirm, held = NoConfirm \/ held \in confirms[s],
         FinishSaeCommit(s, k, held),
         \A t \in Sta : pend'[t] = pend[t] \/ pend'[t] = NoPending
  PROVE  CInv'
<1> DEFINE r == [ap[s] EXCEPT !.sae = k, !.pmk = k, !.confirmed = FALSE,
                              !.last = 0, !.pmf = TRUE]
<1>1. ap[s] \in Station
  BY DEF TypeOK
<1>2. r.sae = k /\ r.confirmed = FALSE /\ r.last = 0
  BY <1>1 DEF Station
<1>3. Accepted(r, held.n).sae = k
  BY <1>1 DEF Station, Accepted
<1>4. \/ /\ ConfirmVerifies(r, held) /\ CachePmksa(s, k)
         /\ ap' = [ap EXCEPT ![s] = Accepted(r, held.n)]
      \/ ap' = [ap EXCEPT ![s] = r] /\ UNCHANGED cache
  BY DEF FinishSaeCommit
<1> HIDE DEF r
<1>5. CASE /\ ConfirmVerifies(r, held) /\ CachePmksa(s, k)
           /\ ap' = [ap EXCEPT ![s] = Accepted(r, held.n)]
  <2>1. held.k = k /\ held \in confirms[s]
    BY <1>2, <1>5 DEF ConfirmVerifies, NoConfirm
  <2>2. ap'[s] = Accepted(r, held.n) /\ \A t \in Sta \ {s} : ap'[t] = ap[t]
    BY <1>5 DEF TypeOK
  <2> QED
    BY <1>3, <1>5, <2>1, <2>2, ProvedBy
<1>6. CASE ap' = [ap EXCEPT ![s] = r] /\ UNCHANGED cache
  <2>1. ap'[s] = r /\ \A t \in Sta \ {s} : ap'[t] = ap[t]
    BY <1>6 DEF TypeOK
  <2>2. \A t \in Sta : ap'[t].confirmed => ap[t].confirmed /\ ap'[t].sae = ap[t].sae
    BY <1>2, <2>1
  <2>3. \A t \in Sta : pend'[t].held = NoConfirm \/ pend'[t].held = pend[t].held
    BY DEF NoPending
  <2> QED
    BY <1>6, <2>2, <2>3, NothingProved DEF TypeOK
<1> QED
  BY <1>4, <1>5, <1>6

\* Every step keeps confirmed PMKs proved.
LEMMA ProvedInductive == TInv /\ CInv /\ [Next]_vars => CInv'
<1> SUFFICES ASSUME TInv, CInv, [Next]_vars PROVE CInv'
  OBVIOUS
<1> USE DEF TInv, apVars, asyncVars, credVars, clientVars
<1>0. cache \subseteq Sta \X Keys
  BY DEF TypeOK
<1>a. ASSUME UNCHANGED <<ap, cache, pend, confirms>> PROVE CInv'
  BY <1>a DEF CInv, ConfirmedIsProved, HeldWasSent
<1>b. ASSUME NEW s \in Sta, NEW r, ap' = [ap EXCEPT ![s] = r],
             r.confirmed => ap[s].confirmed /\ r.sae = ap[s].sae,
             UNCHANGED <<cache, pend, confirms>>
      PROVE  CInv'
  <2>1. \A t \in Sta : ap'[t].confirmed => ap[t].confirmed /\ ap'[t].sae = ap[t].sae
    BY <1>b DEF TypeOK
  <2> QED
    BY <1>0, <1>b, <2>1, NothingProved
<1>1. CASE UNCHANGED core
  BY <1>1, <1>a DEF core
<1>2. ASSUME NEW s \in Sta, ClientStep(s) PROVE CInv'
  <2>1. CASE StartSae(s)
    BY <2>1, <1>a DEF StartSae
  <2>2. CASE EchoToken(s)
    BY <2>2, <1>a DEF EchoToken
  <2>3. ASSUME NEW k \in answers[s], ClientCommit(s, k) PROVE CInv'
    <3>1. \A t \in Sta : confirms[t] \subseteq confirms'[t]
      BY <2>3 DEF ClientCommit, TypeOK
    <3>2. UNCHANGED <<ap, cache, pend>>
      BY <2>3 DEF ClientCommit
    <3> QED
      BY <1>0, <3>1, <3>2, NothingProved
  <2>4. ASSUME NEW k \in answers[s], ClientConfirm(s, k) PROVE CInv'
    BY <2>4, <1>a DEF ClientConfirm
  <2> QED
    BY <1>2, <2>1, <2>2, <2>3, <2>4 DEF ClientStep
<1>3. ASSUME NEW s \in Sta, ReceiveStep(s) \/ Disconnect(s)
      PROVE  CInv'
  <2>0. ap[s] \in Station
    BY DEF TypeOK
  <2>1. ASSUME NEW c \in Commits, NEW t \in BOOLEAN, RecvCommit(s, c, t)
        PROVE  CInv'
    <3>1. CASE RequestToken(s, c) /\ UNCHANGED asyncVars
      BY <3>1, <1>a DEF RequestToken
    <3>2. CASE QueueSaeCommit(s, c) /\ UNCHANGED credVars
      <4>0. nextId <= MaxJobs /\ [c |-> c, a |-> nextId, w |-> pw] \in Keys
        BY <3>2, JobType DEF QueueSaeCommit
      <4>1. CASE /\ pend' = [pend EXCEPT ![s] =
                               [id |-> nextId, c |-> c, held |-> NoConfirm]]
                 /\ UNCHANGED <<ap, cache, confirms>>
        <5>1. \A u \in Sta : pend'[u].held = NoConfirm \/ pend'[u].held = pend[u].held
          BY <4>1 DEF TypeOK
        <5> QED
          BY <1>0, <4>1, <5>1, NothingProved
      <4>2. CASE RequestToken(s, c) /\ UNCHANGED <<pend, jobs, results, worker>>
        BY <4>2, <1>a DEF RequestToken
      <4>3. CASE DropWorker /\ UNCHANGED <<apVars, tok, answers, confirms, cl>>
        BY <1>0, <4>3, NothingProved DEF DropWorker, NoPending
      <4>4. CASE /\ FinishSaeCommit(s, [c |-> c, a |-> nextId, w |-> pw], NoConfirm)
                 /\ UNCHANGED <<pend, jobs, results, worker, tok, confirms, cl>>
        <5>1. NoConfirm \in Confirm
          BY Constants
        <5> QED
          BY <4>0, <4>4, <5>1, FinishProved
      <4> QED
        BY <3>2, <4>1, <4>2, <4>3, <4>4 DEF QueueSaeCommit
    <3> QED
      BY <2>1, <3>1, <3>2 DEF RecvCommit
  <2>2. ASSUME NEW f \in confirms[s], RecvConfirm(s, f) PROVE CInv'
    <3>1. CASE pend' = [pend EXCEPT ![s].held = f] /\ UNCHANGED <<ap, armed, cache>>
      <4>1. \A t \in Sta : pend'[t].held = pend[t].held \/ pend'[t].held \in confirms[t]
        BY <3>1 DEF TypeOK, Pending
      <4> QED
        BY <1>0, <2>2, <3>1, <4>1, NothingProved DEF RecvConfirm
    <3>2. CASE /\ ConfirmVerifies(ap[s], f)
               /\ ap' = [ap EXCEPT ![s] = Accepted(@, f.n)]
               /\ CachePmksa(s, f.k)
               /\ UNCHANGED pend
      <4>1. Accepted(ap[s], f.n).sae = f.k
        BY <2>0, <3>2 DEF ConfirmVerifies, Accepted, Station
      <4>2. ap'[s].sae = f.k /\ \A t \in Sta \ {s} : ap'[t] = ap[t]
        BY <3>2, <4>1 DEF TypeOK
      <4> QED
        BY <2>2, <3>2, <4>2, ProvedBy DEF RecvConfirm
    <3> QED
      BY <2>2, <3>1, <3>2 DEF RecvConfirm
  <2>3. CASE RecvOpenAuth(s)
    <3> DEFINE r == [ap[s] EXCEPT !.assoc = FALSE, !.pmf = FALSE, !.pmk = NoKey]
    <3>1. r.confirmed = ap[s].confirmed /\ r.sae = ap[s].sae
      BY <2>0 DEF Station
    <3>2. ap' = [ap EXCEPT ![s] = r] /\ UNCHANGED <<cache, pend, confirms>>
      BY <2>3 DEF RecvOpenAuth
    <3> QED
      BY <3>1, <3>2, <1>b
  <2>4. ASSUME NEW akm \in {"sae", "pmksa", "psk"}, NEW mfpc \in BOOLEAN,
               NEW backoff \in BOOLEAN, RecvAssoc(s, akm, mfpc, backoff)
        PROVE  CInv'
    <3> DEFINE r == [ap[s] EXCEPT !.pmf = IF Transition THEN mfpc ELSE @]
               q == [r EXCEPT !.pmk = cl[s].cached, !.pmf = TRUE]
    <3>1. \E x \in {r, q, [r EXCEPT !.ready = TRUE], [q EXCEPT !.ready = TRUE]} :
            ap' = [ap EXCEPT ![s] = x]
      BY <2>4 DEF RecvAssoc
    <3>2. \A x \in {r, q, [r EXCEPT !.ready = TRUE], [q EXCEPT !.ready = TRUE]} :
            x.confirmed = ap[s].confirmed /\ x.sae = ap[s].sae
      BY <2>0 DEF Station
    <3>3. UNCHANGED <<cache, pend, confirms>>
      BY <2>4 DEF RecvAssoc
    <3> QED
      BY <3>1, <3>2, <3>3, <1>b
  <2>5. ASSUME NEW k \in ClientKeys(s), FourWay(s, k) PROVE CInv'
    <3> DEFINE q == [ap[s] EXCEPT !.pmk = k, !.ready = FALSE, !.assoc = TRUE]
    <3>1. ap' = [ap EXCEPT ![s] = q] \/ ap' = [ap EXCEPT ![s] = NoStation]
      BY <2>5 DEF FourWay
    <3>2. /\ q.confirmed = ap[s].confirmed /\ q.sae = ap[s].sae
          /\ NoStation.confirmed = FALSE
      BY <2>0 DEF Station, NoStation
    <3>3. UNCHANGED <<cache, pend, confirms>>
      BY <2>5 DEF FourWay
    <3> QED
      BY <3>1, <3>2, <3>3, <1>b
  <2>6. CASE Disconnect(s)
    <3>1. NoStation.confirmed = FALSE
      BY DEF NoStation
    <3> QED
      BY <2>6, <3>1, <1>b DEF Disconnect
  <2> QED
    BY <1>3, <2>1, <2>2, <2>3, <2>4, <2>5, <2>6 DEF ReceiveStep
<1>4. ASSUME NEW ok \in BOOLEAN, Compute(ok) PROVE CInv'
  BY <1>4, <1>a DEF Compute
<1>5. CASE WorkerDies
  BY <1>5, <1>a DEF WorkerDies
<1>6. CASE PollSaeWork
  <2> DEFINE j == Head(results).job
             k == [c |-> j.c, a |-> j.id, w |-> j.w]
  <2>1. Head(results) \in Result
    BY <1>6 DEF PollSaeWork, TypeOK
  <2>2. j \in Job
    BY <2>1 DEF Result
  <2>3. k \in Keys /\ j.s \in Sta
    BY <2>2, KeyTypes DEF Job
  <2>4. /\ pend[j.s].held \in Confirm
        /\ pend[j.s].held = NoConfirm \/ pend[j.s].held \in confirms[j.s]
    BY <2>3 DEF TypeOK, Pending, CInv, HeldWasSent
  <2>5. /\ pend' = [pend EXCEPT ![j.s] = NoPending] \/ pend' = pend
        /\ \/ FinishSaeCommit(j.s, k, pend[j.s].held)
           \/ UNCHANGED <<ap, armed, cache, answers>>
        /\ UNCHANGED confirms
    BY <1>6 DEF PollSaeWork
  <2> HIDE DEF j, k
  <2>6. \A t \in Sta : pend'[t] = pend[t] \/ pend'[t] = NoPending
    BY <2>5 DEF TypeOK
  <2>7. CASE FinishSaeCommit(j.s, k, pend[j.s].held)
    BY <2>3, <2>4, <2>5, <2>6, <2>7, FinishProved
  <2>8. CASE UNCHANGED <<ap, armed, cache, answers>>
    BY <1>0, <2>5, <2>6, <2>8, NothingProved DEF NoPending
  <2> QED
    BY <2>5, <2>7, <2>8
<1>7. CASE PollClosed
  BY <1>0, <1>7, NothingProved DEF PollClosed, DropWorker, NoPending
<1>8. ASSUME NEW P \in SUBSET PendingCommits, NEW S \in SUBSET StaleSae,
             NEW E \in SUBSET cache, Maintenance(P, S, E)
      PROVE  CInv'
  <2>1. \A t \in Sta : ap'[t] = NoStation \/ ap'[t] = ap[t]
    BY <1>8 DEF Maintenance
  <2>2. \A t \in Sta : pend'[t] = NoPending \/ pend'[t] = pend[t]
    BY <1>8 DEF Maintenance
  <2>3. cache' \subseteq cache /\ UNCHANGED confirms
    BY <1>8 DEF Maintenance
  <2> QED
    BY <1>0, <2>1, <2>2, <2>3, NothingProved DEF NoStation, NoPending
<1>9. CASE Reload
  <2>1. UNCHANGED <<ap, pend, confirms>> /\ cache' \subseteq cache
    BY <1>9 DEF Reload, BeginReload, CancelReload, InstallReload
  <2> QED
    BY <1>0, <2>1, NothingProved
<1> QED
  BY <1>1, <1>2, <1>3, <1>4, <1>5, <1>6, <1>7, <1>8, <1>9, Steps

\* A PMK the access point treats as confirmed, or would accept by its PMKID in
\* a fast reconnect, is one the peer derived and proved with a confirm of its
\* own (finish_sae_confirm, cache_pmksa), for every number of stations, however
\* results, held confirms, reloads and expiry interleave.
THEOREM ConfirmsAreProved == Spec => []ConfirmedIsProved
<1>1. Init => CInv
  BY DEF Init, CInv, ConfirmedIsProved, HeldWasSent, NoStation, NoPending
<1>2. CInv => ConfirmedIsProved
  BY DEF CInv
<1> QED
  BY <1>1, <1>2, TypeInvariant, ProvedInductive, PTL DEF Spec
=============================================================================
