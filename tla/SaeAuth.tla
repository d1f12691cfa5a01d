------------------------------ MODULE SaeAuth ------------------------------
(***************************************************************************)
(* SAE authentication of an access point whose commit arithmetic runs on a *)
(* worker thread: ap/sae_auth.rs, the PMKSA cache, the credential reload   *)
(* and the clean-up of unfinished exchanges, against client/sae_auth.rs.   *)
(*                                                                         *)
(* A key stands for the KCK, PMK and PMKID of one exchange; it is fixed by *)
(* the client's commit c, the access point's commit a (one per computed    *)
(* job) and the password w, so two sides hold the same key exactly when    *)
(* the three agree.  A frame, once sent, may arrive at any later time, any *)
(* number of times or never; the request rate limits only drop frames.     *)
(***************************************************************************)
EXTENDS Naturals, Sequences, FiniteSets

CONSTANTS
    Sta,            \* client addresses
    Transition,     \* TRUE: WPA2/WPA3 transition BSS; FALSE: WPA3-SAE only
    Threshold,      \* SAE_ANTI_CLOGGING_THRESHOLD
    Cap,            \* SAE_INCOMPLETE_MAX
    QueueMax,       \* SAE_WORK_QUEUE_MAX
    CacheMax,       \* PMKSA_CACHE_MAX
    MaxCommits,     \* bound: commits a client generates
    Limit,          \* bound: the commits of each client
    MaxJobs,        \* bound: commits the access point answers or computes
    MaxConfirms,    \* bound: confirms a client sends per exchange
    MaxReloads,     \* bound: credential databases installed
    WorkerMayDie    \* TRUE: the worker thread may end

ASSUME SaeAssumption ==
    /\ IsFiniteSet(Sta)
    /\ Transition \in BOOLEAN
    /\ Threshold \in Nat /\ Cap \in Nat /\ QueueMax \in Nat
    /\ CacheMax \in Nat \ {0}
    /\ MaxCommits \in Nat /\ Limit \in [Sta -> 0..MaxCommits]
    /\ MaxJobs \in Nat /\ MaxConfirms \in Nat
    /\ MaxReloads \in Nat /\ WorkerMayDie \in BOOLEAN

VARIABLES
    ap,         \* Ap::stations: the SAE fields of each station
    pend,       \* AsyncSae::pending
    jobs,       \* AsyncSae::jobs, the channel to the worker
    results,    \* AsyncSae::results, the channel back
    nextId,     \* AsyncSae::next_id
    worker,     \* the worker thread: "up", "dead", or "off" once dropped
    armed,      \* maintenance_deadline is set
    cache,      \* Ap::pmksa_cache, pairs of a station and a key
    pw,         \* the installed SAE password, by reload generation
    reload,     \* credential_reload_pending
    tok,        \* anti-clogging token of each commit
    answers,    \* commit and confirm frames sent to each station, as keys
    confirms,   \* confirm frames sent by each client
    cl,         \* client state
    quiet       \* stations with an SAE exchange whose last_activity is at least
                \* SAE_AUTH_TIMEOUT ago

apVars == <<ap, armed, cache>>
asyncVars == <<pend, jobs, results, nextId, worker>>
credVars == <<pw, reload>>
clientVars == <<tok, confirms, cl>>
core == <<ap, pend, jobs, results, nextId, worker, armed, cache, pw, reload,
          tok, answers, confirms, cl>>
vars == <<core, quiet>>

Commits == 1..MaxCommits
Ids == 1..MaxJobs
Passwords == 1..(MaxReloads + 1)
Keys == [c : 0..MaxCommits, a : 0..MaxJobs, w : 0..(MaxReloads + 1)]
NoKey == [c |-> 0, a |-> 0, w |-> 0]
\* The PMK of the PSK credential of generation w.
Psk(w) == [c |-> 0, a |-> 0, w |-> w]
Confirm == [k : Keys, n : 0..MaxConfirms]
NoConfirm == [k |-> NoKey, n |-> 0]

Station == [sae : Keys, confirmed : BOOLEAN,
            last : 0..MaxConfirms, pmk : Keys, pmf : BOOLEAN,
            ready : BOOLEAN, assoc : BOOLEAN]
\* An entry of the map with nothing in it is no different from no entry.
NoStation == [sae |-> NoKey, confirmed |-> FALSE,
              last |-> 0, pmk |-> NoKey, pmf |-> FALSE,
              ready |-> FALSE, assoc |-> FALSE]
Pending == [id : 0..MaxJobs, c : 0..MaxCommits, held : Confirm]
NoPending == [id |-> 0, c |-> 0, held |-> NoConfirm]
Job == [id : Ids, s : Sta, c : Commits, w : Passwords]
Result == [job : Job, ok : BOOLEAN]
Client == [c : 0..MaxCommits, w : Passwords, key : Keys,
           sent : 0..MaxConfirms, cached : Keys]

Init ==
    /\ ap = [s \in Sta |-> NoStation]
    /\ pend = [s \in Sta |-> NoPending]
    /\ jobs = <<>> /\ results = <<>> /\ nextId = 1 /\ worker = "up"
    /\ armed = FALSE /\ cache = {}
    /\ pw = 1 /\ reload = FALSE
    /\ tok = [s \in Sta |-> [c \in Commits |-> "none"]]
    /\ answers = [s \in Sta |-> {}]
    /\ confirms = [s \in Sta |-> {}]
    /\ cl = [s \in Sta |-> [c |-> 0, w |-> 1, key |-> NoKey, sent |-> 0,
                            cached |-> NoKey]]
    /\ quiet = {}

----------------------------------------------------------------------------
(* Client: client/sae_auth.rs                                              *)

\* start_sae: a fresh commit, under the password the device was given last;
\* a reload before the commit arrives makes it a wrong one.
StartSae(s) ==
    /\ cl[s].c < Limit[s]
    /\ cl' = [cl EXCEPT ![s].c = @ + 1, ![s].w = pw, ![s].key = NoKey,
                        ![s].sent = 0]
    /\ UNCHANGED <<apVars, asyncVars, credVars, tok, answers, confirms>>

\* A token request for the current commit: send it again with the token.
EchoToken(s) ==
    /\ cl[s].c # 0
    /\ tok[s][cl[s].c] = "granted"
    /\ tok' = [tok EXCEPT ![s][cl[s].c] = "echoed"]
    /\ UNCHANGED <<apVars, asyncVars, credVars, answers, confirms, cl>>

\* The access point's commit: derive the keys and send a confirm, numbered
\* by send_confirm.
ClientCommit(s, k) ==
    /\ cl[s].c # 0
    /\ cl[s].sent < MaxConfirms
    /\ LET mine == [c |-> cl[s].c, a |-> k.a, w |-> cl[s].w] IN
         /\ cl' = [cl EXCEPT ![s].key = mine, ![s].sent = @ + 1]
         /\ confirms' = [confirms EXCEPT ![s] =
                           @ \cup {[k |-> mine, n |-> cl[s].sent + 1]}]
    /\ UNCHANGED <<apVars, asyncVars, credVars, tok, answers>>

\* The access point's confirm, when it verifies: cache the PMKSA.
ClientConfirm(s, k) ==
    /\ k = cl[s].key
    /\ cl[s].cached # k
    /\ cl' = [cl EXCEPT ![s].cached = k]
    /\ UNCHANGED <<apVars, asyncVars, credVars, tok, answers, confirms>>

----------------------------------------------------------------------------
(* Access point: commits                                                   *)

\* management.rs: an association that uses PMF is not to be contested by an
\* unprotected frame; it is answered with an SA Query only.
PmfProtected(s) == ap[s].assoc /\ ap[s].pmf

Unconfirmed(s) == ap[s].sae # NoKey /\ ~ap[s].confirmed

\* Mutant: the commits still being computed are not counted.
CountEstablished == Cardinality({s \in Sta : Unconfirmed(s)})

\* incomplete_sae_count
IncompleteCount ==
    Cardinality({s \in Sta : Unconfirmed(s)})
      + Cardinality({s \in Sta : pend[s] # NoPending})

ExistingExchange(s) == Unconfirmed(s) \/ pend[s] # NoPending

\* request_sae_token; a token once echoed stays with the commit it covers.
RequestToken(s, c) ==
    /\ tok' = [tok EXCEPT ![s][c] = IF @ = "none" THEN "granted" ELSE @]
    /\ UNCHANGED <<apVars, credVars, answers, confirms, cl>>

\* cache_pmksa: any entry may be the victim of a full cache.
CachePmksa(s, k) ==
    IF <<s, k>> \in cache \/ Cardinality(cache) < CacheMax
      THEN cache' = cache \cup {<<s, k>>}
      ELSE \E v \in cache : cache' = (cache \ {v}) \cup {<<s, k>>}

\* Mutant: the HMAC of the confirm is not compared.
AnyConfirm(st, f) == st.sae # NoKey /\ f.n > st.last

\* check_confirm: the exchange's key, and a counter above those accepted.
ConfirmVerifies(st, f) == f.k = st.sae /\ st.sae # NoKey /\ f.n > st.last

\* Mutant: the replay window is moved one too far.
AcceptedNext(st, n) == [st EXCEPT !.confirmed = TRUE, !.last = n + 1]

\* The station once its confirm number n verified.
Accepted(st, n) == [st EXCEPT !.confirmed = TRUE, !.last = n]

\* finish_sae_commit: the computed exchange replaces the station's PMK, and
\* the answer goes out; then a confirm held meanwhile is looked at.
FinishSaeCommit(s, k, held) ==
    LET st == [ap[s] EXCEPT !.sae = k, !.pmk = k,
                            !.confirmed = FALSE, !.last = 0, !.pmf = TRUE]
    IN /\ answers' = [answers EXCEPT ![s] = @ \cup {k}]
       /\ armed' = TRUE
       /\ quiet' = quiet \ {s}
       /\ IF ConfirmVerifies(st, held)
            THEN /\ ap' = [ap EXCEPT ![s] = Accepted(st, held.n)]
                 /\ CachePmksa(s, k)
            ELSE /\ ap' = [ap EXCEPT ![s] = st]
                 /\ UNCHANGED cache

\* Mutant: the pending map survives the worker.
DropWorkerOnly ==
    /\ worker' = "off"
    /\ jobs' = <<>> /\ results' = <<>>
    /\ UNCHANGED pend

\* The worker is gone: the queue, the results and the pending map go with it.
DropWorker ==
    /\ worker' = "off"
    /\ jobs' = <<>> /\ results' = <<>>
    /\ pend' = [s \in Sta |-> NoPending]

\* queue_sae_commit, with a worker; without one the commit is computed here.
QueueSaeCommit(s, c) ==
    LET job == [id |-> nextId, s |-> s, c |-> c, w |-> pw] IN
    /\ nextId <= MaxJobs
    /\ nextId' = nextId + 1
    /\ \/ /\ worker = "up"
          /\ Len(jobs) < QueueMax
          /\ jobs' = Append(jobs, job)
          /\ pend' = [pend EXCEPT ![s] =
                        [id |-> nextId, c |-> c, held |-> NoConfirm]]
          /\ armed' = TRUE
          /\ UNCHANGED <<ap, cache, results, worker, tok, answers, confirms, cl>>
       \/ /\ worker = "up"
          /\ Len(jobs) >= QueueMax
          /\ RequestToken(s, c)
          /\ UNCHANGED <<pend, jobs, results, worker>>
       \/ /\ worker = "dead"
          /\ DropWorker
          /\ UNCHANGED <<apVars, tok, answers, confirms, cl>>
       \/ /\ worker = "off"
          /\ FinishSaeCommit(s, [c |-> c, a |-> nextId, w |-> pw], NoConfirm)
          /\ UNCHANGED <<pend, jobs, results, worker, tok, confirms, cl>>

\* handle_sae_auth, seq 1, with (t) or without a token that is still valid.
\* A commit already queued is coalesced, one already answered is answered
\* again, and a peer with a job in flight waits for it.
RecvCommit(s, c, t) ==
    LET full == ~ExistingExchange(s) /\ IncompleteCount >= Cap
        proof == ExistingExchange(s) \/ IncompleteCount >= Threshold
    IN
    /\ c <= cl[s].c
    /\ t => tok[s][c] = "echoed"
    /\ ~PmfProtected(s)
    /\ pend[s].c # c
    /\ ~(Unconfirmed(s) /\ ap[s].sae.c = c)
    /\ \/ /\ full \/ (proof /\ ~t)
          /\ RequestToken(s, c)
          /\ UNCHANGED asyncVars
       \/ /\ ~full /\ (proof => t)
          /\ pend[s] = NoPending
          /\ ~reload
          /\ QueueSaeCommit(s, c)
          /\ UNCHANGED credVars

\* compute_sae_commit on the worker thread; a commit that does not parse, is
\* a reflection or has no valid element fails.
Compute(ok) ==
    /\ worker = "up"
    /\ jobs # <<>>
    /\ results' = Append(results, [job |-> Head(jobs), ok |-> ok])
    /\ jobs' = Tail(jobs)
    /\ UNCHANGED <<apVars, credVars, clientVars, answers, pend, nextId, worker>>

\* The worker thread ends: what is queued is lost, what it sent is not.
WorkerDies ==
    /\ worker = "up"
    /\ WorkerMayDie
    /\ worker' = "dead"
    /\ jobs' = <<>>
    /\ UNCHANGED <<apVars, credVars, clientVars, answers, pend, results, nextId>>

\* poll_sae_work, one result: only the pending commit's own result counts.
PollSaeWork ==
    /\ results # <<>>
    /\ LET r == Head(results)
           s == r.job.s
           matches == pend[s].id = r.job.id /\ pend[s].c = r.job.c
       IN /\ results' = Tail(results)
          /\ pend' = IF matches THEN [pend EXCEPT ![s] = NoPending] ELSE pend
          /\ IF matches /\ r.ok
               THEN FinishSaeCommit(s, [c |-> r.job.c, a |-> r.job.id,
                                        w |-> r.job.w], pend[s].held)
               ELSE UNCHANGED <<apVars, answers, quiet>>
    /\ UNCHANGED <<credVars, clientVars, jobs, nextId, worker>>

\* poll_sae_work finds the result channel closed.
PollClosed ==
    /\ worker = "dead"
    /\ results = <<>>
    /\ DropWorker
    /\ UNCHANGED <<apVars, credVars, clientVars, answers, nextId>>

----------------------------------------------------------------------------
(* Access point: confirms, association, clean-up, credentials              *)

\* handle_sae_auth, seq 2: held while a commit is being computed, otherwise
\* finish_sae_confirm.
RecvConfirm(s, f) ==
    /\ ~PmfProtected(s)
    /\ \/ /\ pend[s] # NoPending
          /\ pend[s].held # f
          /\ pend' = [pend EXCEPT ![s].held = f]
          /\ UNCHANGED apVars
       \/ /\ pend[s] = NoPending
          /\ ConfirmVerifies(ap[s], f)
          /\ ap' = [ap EXCEPT ![s] = Accepted(@, f.n)]
          /\ CachePmksa(s, f.k)
          /\ armed' = TRUE
          /\ UNCHANGED pend
    /\ UNCHANGED <<credVars, clientVars, answers, jobs, results, nextId, worker>>

\* Open-system authentication: a new session for the address, unless its
\* first handshake is under way; the SAE exchange of the address stays.
RecvOpenAuth(s) ==
    /\ ~PmfProtected(s)
    /\ ~ap[s].ready
    /\ ap' = [ap EXCEPT ![s] = [@ EXCEPT !.assoc = FALSE,
                                         !.pmf = FALSE, !.pmk = NoKey]]
    /\ ap' # ap
    /\ UNCHANGED <<asyncVars, credVars, clientVars, answers, armed, cache>>

\* handle_assoc_req: "sae" and "pmksa" ask for the SAE AKM, "pmksa" with the
\* client's cached PMKID, "psk" for a PSK AKM with or without PMF.  The
\* negotiated PMF bit is stored before the request can still be refused: the
\* exchange is unconfirmed, it comes within BACKOFF, or it has no key.
RecvAssoc(s, akm, mfpc, backoff) ==
    LET st == [ap[s] EXCEPT !.pmf = IF Transition THEN mfpc ELSE @]
        hit == akm = "pmksa" /\ <<s, cl[s].cached>> \in cache
        keyed == IF hit THEN [st EXCEPT !.pmk = cl[s].cached, !.pmf = TRUE]
                        ELSE st
        refused == keyed.pmk = NoKey /\ (akm = "pmksa" \/ ~Transition)
    IN
    /\ ~reload
    /\ ~PmfProtected(s)
    /\ akm = "psk" => Transition
    /\ akm # "psk" => mfpc
    /\ ap' = [ap EXCEPT ![s] =
                IF Unconfirmed(s) \/ backoff THEN st
                ELSE IF refused THEN keyed
                ELSE [keyed EXCEPT !.ready = TRUE]]
    /\ ap' # ap
    /\ UNCHANGED <<asyncVars, credVars, clientVars, answers, armed, cache>>

\* The four-way handshake, as one step, with the key the client uses: the
\* pinned PMK, or the PSK of the installed database when none is pinned.
FourWay(s, k) ==
    /\ ap[s].ready
    /\ Transition \/ ap[s].pmk # NoKey
    /\ ap' = [ap EXCEPT ![s] =
                IF k = (IF ap[s].pmk = NoKey THEN Psk(pw) ELSE ap[s].pmk)
                  THEN [@ EXCEPT !.pmk = k, !.ready = FALSE, !.assoc = TRUE]
                  ELSE NoStation]
    /\ UNCHANGED <<asyncVars, credVars, clientVars, answers, armed, cache>>

\* The keys a client can put to use.
ClientKeys(s) == {f.k : f \in confirms[s]} \cup {Psk(cl[s].w)}

\* A deauthentication, an unanswered SA Query, the idle limit: disconnect.
Disconnect(s) ==
    /\ ap[s] # NoStation
    /\ ap' = [ap EXCEPT ![s] = NoStation]
    /\ quiet' = quiet \ {s}
    /\ UNCHANGED <<asyncVars, credVars, clientVars, answers, armed, cache>>

\* Mutant: unconfirmed stations do not set the next deadline.
ConsideredQueued(a, p, c) == c # {} \/ \E s \in Sta : p[s] # NoPending

\* What the next maintenance deadline is taken from.
Considered(a, p, c) ==
    \/ \E s \in Sta : a[s].sae # NoKey /\ ~a[s].confirmed /\ ~a[s].assoc
    \/ \E s \in Sta : p[s] # NoPending
    \/ c # {}

PendingCommits == {s \in Sta : pend[s] # NoPending}
UnassociatedSae == {s \in Sta : ap[s].sae # NoKey /\ ~ap[s].assoc}
StaleSae == UnassociatedSae \cap quiet

\* run_deadline_maintenance, once the deadline has passed: P are the pending
\* commits queued SAE_AUTH_TIMEOUT ago, S the unassociated SAE stations not
\* heard of since then, E the cache entries past PMKSA_LIFETIME.
Maintenance(P, S, E) ==
    /\ armed
    /\ pend' = [s \in Sta |-> IF s \in P THEN NoPending ELSE pend[s]]
    /\ ap' = [s \in Sta |-> IF s \in S THEN NoStation ELSE ap[s]]
    /\ cache' = cache \ E
    /\ quiet' = quiet \ S
    /\ armed' = Considered(ap', pend', cache')
    /\ UNCHANGED <<credVars, clientVars, answers, jobs, results, nextId, worker>>

\* begin_psk_reload, cancel_psk_reload
BeginReload ==
    /\ ~reload
    /\ pw <= MaxReloads
    /\ reload' = TRUE
    /\ UNCHANGED <<apVars, asyncVars, clientVars, answers, pw>>

CancelReload ==
    /\ reload
    /\ reload' = FALSE
    /\ UNCHANGED <<apVars, asyncVars, clientVars, answers, pw>>

\* install_prepared_credentials: the cache goes, stations keep their PMK.
InstallReload ==
    /\ reload
    /\ reload' = FALSE
    /\ pw' = pw + 1
    /\ cache' = {}
    /\ UNCHANGED <<asyncVars, clientVars, answers, ap, armed>>

----------------------------------------------------------------------------
ClientStep(s) ==
    \/ StartSae(s)
    \/ EchoToken(s)
    \/ \E k \in answers[s] : ClientCommit(s, k) \/ ClientConfirm(s, k)

\* receive_frame: whatever comes from a known station renews last_activity.
ReceiveStep(s) ==
    /\ \/ \E c \in Commits, t \in BOOLEAN : RecvCommit(s, c, t)
       \/ \E f \in confirms[s] : RecvConfirm(s, f)
       \/ RecvOpenAuth(s)
       \/ \E akm \in {"sae", "pmksa", "psk"}, mfpc, backoff \in BOOLEAN :
            RecvAssoc(s, akm, mfpc, backoff)
       \/ \E k \in ClientKeys(s) : FourWay(s, k)
    /\ quiet' = quiet \ {s}

\* A frame that does nothing else: a repeated commit, one over the rate limit.
RecvOther(s) ==
    /\ s \in quiet
    /\ quiet' = quiet \ {s}
    /\ UNCHANGED core

\* SAE_AUTH_TIMEOUT passes without a frame of s.
FallsSilent(s) ==
    /\ s \in UnassociatedSae \ quiet
    /\ quiet' = quiet \cup {s}
    /\ UNCHANGED core

Reload == BeginReload \/ CancelReload \/ InstallReload

\* Steps in which the access point hears of no station.
Unheard ==
    \/ \E s \in Sta : ClientStep(s)
    \/ \E ok \in BOOLEAN : Compute(ok)
    \/ WorkerDies
    \/ PollClosed
    \/ Reload

Next ==
    \/ \E s \in Sta : \/ ReceiveStep(s) \/ RecvOther(s) \/ FallsSilent(s)
                      \/ Disconnect(s)
    \/ PollSaeWork
    \/ \E P \in SUBSET PendingCommits, E \in SUBSET cache :
         Maintenance(P, StaleSae, E)
    \/ Unheard /\ UNCHANGED quiet

Spec == Init /\ [][Next]_vars

\* The maintenance that drops the pending commit of s, SAE_AUTH_TIMEOUT after it
\* was queued whatever s sends, or that finds s silent.
Expires(s) ==
    \/ s \in PendingCommits /\ Maintenance({s}, StaleSae, {})
    \/ s \in StaleSae /\ Maintenance({}, StaleSae, {})

\* The radio loop keeps ticking.  Nothing is assumed of the worker thread, nor
\* that a station ever stops sending.
FairSpec == Spec /\ \A s \in Sta : WF_vars(Expires(s))

----------------------------------------------------------------------------
(* Properties                                                              *)

\* Every variable has its type: stations, pending commits, the channels of
\* the worker, the cache and what the clients hold.
TypeOK ==
    /\ ap \in [Sta -> Station]
    /\ pend \in [Sta -> Pending]
    /\ jobs \in Seq(Job)
    /\ results \in Seq(Result)
    /\ nextId \in 1..(MaxJobs + 1)
    /\ worker \in {"up", "dead", "off"}
    /\ armed \in BOOLEAN
    /\ cache \subseteq Sta \X Keys
    /\ pw \in Passwords
    /\ reload \in BOOLEAN
    /\ tok \in [Sta -> [Commits -> {"none", "granted", "echoed"}]]
    /\ answers \in [Sta -> SUBSET Keys]
    /\ confirms \in [Sta -> SUBSET Confirm]
    /\ cl \in [Sta -> Client]
    /\ quiet \subseteq UnassociatedSae

\* A commit marked as being computed blocks its sender's later commits and
\* diverts its confirms, so it must always have a job or a result of its own
\* under way, as long as the worker lives.
PendingHasJob ==
    \A s \in Sta : pend[s] # NoPending =>
        /\ worker # "off"
        /\ worker = "up" =>
             LET own(j) == j.s = s /\ j.id = pend[s].id /\ j.c = pend[s].c IN
             \/ \E i \in 1..Len(jobs) : own(jobs[i])
             \/ \E i \in 1..Len(results) : own(results[i].job)

\* The stations that hold an unfinished exchange never exceed
\* SAE_INCOMPLETE_MAX, however commits, results and timeouts interleave.
IncompleteCap == Cardinality({s \in Sta : ExistingExchange(s)}) <= Cap

\* A PMK the access point treats as confirmed, or offers for a fast
\* reconnect, is one the peer itself derived and proved with a confirm.
ConfirmedIsProved ==
    /\ \A e \in cache : \E f \in confirms[e[1]] : f.k = e[2]
    /\ \A s \in Sta : ap[s].confirmed => \E f \in confirms[s] : f.k = ap[s].sae

\* Whatever still has to expire (an unfinished exchange, a queued commit, a
\* cached PMKSA) has the maintenance deadline set.
ExpiryArmed ==
    ~armed => /\ cache = {}
              /\ \A s \in Sta : /\ pend[s] = NoPending
                                /\ Unconfirmed(s) => ap[s].assoc

\* ap/mod.rs: incomplete SAE state "must not accumulate indefinitely": every
\* unfinished exchange is confirmed, expired or removed, unless its station
\* completes an association with it or goes on sending for ever, which renews
\* last_activity.
SlotFreed ==
    \A s \in Sta : <>[](s \in UnassociatedSae => s \in quiet) =>
        (ExistingExchange(s) ~> (~ExistingExchange(s) \/ ap[s].assoc))

\* receive.rs: while a PMF association lasts, no authentication frame
\* replaces its PMK or clears sae_confirmed.
SessionUndisturbed ==
    [][\A s \in Sta : PmfProtected(s) /\ ap'[s].assoc =>
         /\ ap'[s].pmk = ap[s].pmk
         /\ ap[s].confirmed => ap'[s].confirmed]_vars
============================================================================
