--------------------------- MODULE SaeLimitProofs ---------------------------
(***************************************************************************)
(* The bookkeeping of unfinished SAE exchanges, for every number of        *)
(* stations and every limit: a pending commit has its job under way, the   *)
(* unfinished exchanges stay within SAE_INCOMPLETE_MAX, and what has to    *)
(* expire has the maintenance deadline set.                                *)
(***************************************************************************)
EXTENDS SaeAuthProofs, FiniteSetTheorems

-----------------------------------------------------------------------------
(* Pending commits and the worker                                          *)

\* The job of the commit that s has pending is queued, or its result is.
Own(s, j) == j.s = s /\ j.id = pend[s].id /\ j.c = pend[s].c
Computing(s) ==
  \/ \E i \in 1..Len(jobs) : Own(s, jobs[i])
  \/ \E i \in 1..Len(results) : Own(s, results[i].job)
Served(s) ==
  pend[s] # NoPending => worker # "off" /\ (worker = "up" => Computing(s))

\* Served, station by station, is PendingHasJob.
LEMMA ServedIsProperty == PendingHasJob <=> \A s \in Sta : Served(s)
BY DEF PendingHasJob, Served, Computing, Own

\* A step that leaves the channels alone and adds no pending commit.
LEMMA ServedKept ==
  ASSUME \A s \in Sta : Served(s), UNCHANGED <<jobs, results, worker>>,
         \A s \in Sta : \/ pend'[s] = NoPending
                        \/ /\ pend[s] # NoPending
                           /\ pend'[s].id = pend[s].id /\ pend'[s].c = pend[s].c
  PROVE  \A s \in Sta : Served(s)'
BY DEF Served, Computing, Own

\* queue_sae_commit: the new pending commit has the job just queued.
LEMMA QueueServed ==
  ASSUME TypeOK, \A t \in Sta : Served(t),
         NEW s \in Sta, NEW c \in Commits, QueueSaeCommit(s, c)
  PROVE  \A t \in Sta : Served(t)'
<1> DEFINE job == [id |-> nextId, s |-> s, c |-> c, w |-> pw]
           entry == [id |-> nextId, c |-> c, held |-> NoConfirm]
<1>1. CASE /\ jobs' = Append(jobs, job)
           /\ pend' = [pend EXCEPT ![s] = entry]
           /\ worker = "up"
           /\ UNCHANGED <<results, worker>>
  <2>1. job.s = s /\ job.id = entry.id /\ job.c = entry.c
    OBVIOUS
  <2>2. job \in Job
    BY JobType DEF QueueSaeCommit
  <2> HIDE DEF job, entry
  <2>3. /\ Len(jobs') = Len(jobs) + 1 /\ Len(jobs) \in Nat
        /\ jobs'[Len(jobs) + 1] = job
        /\ \A i \in 1..Len(jobs) : jobs'[i] = jobs[i]
    BY <1>1, <2>2 DEF TypeOK
  <2>4. pend'[s] = entry /\ \A t \in Sta \ {s} : pend'[t] = pend[t]
    BY <1>1 DEF TypeOK
  <2>5. Served(s)'
    <3>1. Len(jobs) + 1 \in 1..Len(jobs')
      BY <2>3
    <3>2. Computing(s)'
      BY <2>1, <2>3, <2>4, <3>1 DEF Computing, Own
    <3> QED
      BY <1>1, <3>2 DEF Served
  <2>6. ASSUME NEW t \in Sta \ {s} PROVE Served(t)'
    <3>1. 1..Len(jobs) \subseteq 1..Len(jobs')
      BY <2>3
    <3> QED
      BY <1>1, <2>3, <2>4, <3>1 DEF Served, Computing, Own
  <2> QED  BY <2>5, <2>6
<1>2. CASE UNCHANGED <<pend, jobs, results, worker>>
  BY <1>2, ServedKept
<1>3. CASE DropWorker
  BY <1>3 DEF DropWorker, Served
<1> QED
  BY <1>1, <1>2, <1>3 DEF QueueSaeCommit

\* The worker moves a job from one channel to the other.
LEMMA ComputeServed ==
  ASSUME TypeOK, \A t \in Sta : Served(t), NEW ok \in BOOLEAN, Compute(ok)
  PROVE  \A t \in Sta : Served(t)'
<1> DEFINE r == [job |-> Head(jobs), ok |-> ok]
<1>1. /\ jobs # <<>> /\ jobs' = Tail(jobs)
      /\ results' = Append(results, r)
      /\ UNCHANGED <<pend, worker>>
  BY DEF Compute
<1>2. r \in Result /\ r.job = jobs[1]
  BY <1>1 DEF TypeOK, Result
<1> HIDE DEF r
<1>3. /\ Len(jobs) \in Nat \ {0} /\ Len(jobs') = Len(jobs) - 1
      /\ \A i \in 1..Len(jobs') : jobs'[i] = jobs[i + 1]
  BY <1>1 DEF TypeOK
<1>4. /\ Len(results) \in Nat /\ Len(results') = Len(results) + 1
      /\ results'[Len(results) + 1] = r
      /\ \A i \in 1..Len(results) : results'[i] = results[i]
  BY <1>1, <1>2 DEF TypeOK
<1>5. ASSUME NEW t \in Sta, Computing(t) PROVE Computing(t)'
  <2>1. CASE \E i \in 1..Len(jobs) : Own(t, jobs[i])
    <3>1. PICK i \in 1..Len(jobs) : Own(t, jobs[i])
      BY <2>1
    <3>2. CASE i = 1
      <4>1. Len(results) + 1 \in 1..Len(results')
        BY <1>4
      <4> QED
        BY <1>1, <1>2, <1>4, <3>1, <3>2, <4>1 DEF Computing, Own
    <3>3. CASE i # 1
      <4>1. i - 1 \in 1..Len(jobs') /\ jobs'[i - 1] = jobs[i]
        BY <1>3, <3>3
      <4> QED
        BY <1>1, <3>1, <4>1 DEF Computing, Own
    <3> QED  BY <3>2, <3>3
  <2>2. CASE \E i \in 1..Len(results) : Own(t, results[i].job)
    <3>1. PICK i \in 1..Len(results) : Own(t, results[i].job)
      BY <2>2
    <3>2. i \in 1..Len(results') /\ results'[i] = results[i]
      BY <1>4
    <3> QED
      BY <1>1, <3>1, <3>2 DEF Computing, Own
  <2> QED
    BY <1>5, <2>1, <2>2 DEF Computing
<1> QED
  BY <1>1, <1>5 DEF Served

\* The loop takes a result: the pending commit it answers goes with it.
LEMMA PollServed ==
  ASSUME TypeOK, \A t \in Sta : Served(t), PollSaeWork
  PROVE  \A t \in Sta : Served(t)'
<1> DEFINE j == Head(results).job
<1>1. /\ results # <<>> /\ results' = Tail(results)
      /\ UNCHANGED <<jobs, worker>>
      /\ pend' = IF Own(j.s, j) THEN [pend EXCEPT ![j.s] = NoPending] ELSE pend
  BY DEF PollSaeWork, Own
<1>2. j = results[1].job
  BY <1>1 DEF TypeOK
<1> HIDE DEF j
<1>3. /\ Len(results) \in Nat \ {0} /\ Len(results') = Len(results) - 1
      /\ \A i \in 1..Len(results') : results'[i] = results[i + 1]
  BY <1>1 DEF TypeOK
<1>4. ASSUME NEW t \in Sta, pend'[t] # NoPending
      PROVE  pend'[t] = pend[t] /\ ~Own(t, j)
  BY <1>1, <1>4 DEF TypeOK, Own
<1>5. ASSUME NEW t \in Sta, pend'[t] # NoPending, Computing(t)
      PROVE  Computing(t)'
  <2>1. CASE \E i \in 1..Len(jobs) : Own(t, jobs[i])
    BY <1>1, <1>4, <1>5, <2>1 DEF Computing, Own
  <2>2. CASE \E i \in 1..Len(results) : Own(t, results[i].job)
    <3>1. PICK i \in 1..Len(results) : Own(t, results[i].job)
      BY <2>2
    <3>2. i # 1
      BY <1>2, <1>4, <1>5, <3>1
    <3>3. i - 1 \in 1..Len(results') /\ results'[i - 1] = results[i]
      BY <1>3, <3>2
    <3> QED
      BY <1>4, <1>5, <3>1, <3>3 DEF Computing, Own
  <2> QED
    BY <1>5, <2>1, <2>2 DEF Computing
<1> QED
  BY <1>1, <1>4, <1>5 DEF Served

\* Every step keeps the job of a pending commit under way.
LEMMA ServedInductive ==
  ASSUME TInv, \A t \in Sta : Served(t), [Next]_vars
  PROVE  \A t \in Sta : Served(t)'
<1> USE DEF TInv, asyncVars
<1>a. ASSUME UNCHANGED <<pend, jobs, results, worker>>
      PROVE  \A t \in Sta : Served(t)'
  BY <1>a, ServedKept
<1>1. CASE UNCHANGED core
  BY <1>1, <1>a DEF core
<1>2. ASSUME NEW s \in Sta, ClientStep(s) PROVE \A t \in Sta : Served(t)'
  BY <1>2, <1>a DEF ClientStep, StartSae, EchoToken, ClientCommit, ClientConfirm
<1>3. ASSUME NEW s \in Sta, ReceiveStep(s) \/ Disconnect(s)
      PROVE  \A t \in Sta : Served(t)'
  <2>1. ASSUME NEW c \in Commits, NEW b \in BOOLEAN, RecvCommit(s, c, b)
        PROVE  \A t \in Sta : Served(t)'
    BY <2>1, <1>a, QueueServed DEF RecvCommit
  <2>2. ASSUME NEW f \in confirms[s], RecvConfirm(s, f)
        PROVE  \A t \in Sta : Served(t)'
    <3>1. CASE pend[s] # NoPending /\ pend' = [pend EXCEPT ![s].held = f]
      <4>1. \A t \in Sta : \/ pend'[t] = NoPending
                           \/ /\ pend[t] # NoPending
                              /\ pend'[t].id = pend[t].id
                              /\ pend'[t].c = pend[t].c
        <5>1. \A t \in Sta \ {s} : pend'[t] = pend[t]
          BY <3>1 DEF TypeOK
        <5>2. pend'[s].id = pend[s].id /\ pend'[s].c = pend[s].c
          BY <3>1 DEF TypeOK, Pending
        <5> QED
          BY <3>1, <5>1, <5>2
      <4> QED
        BY <2>2, <4>1, ServedKept DEF RecvConfirm
    <3>2. CASE UNCHANGED pend
      BY <2>2, <3>2, <1>a DEF RecvConfirm
    <3> QED
      BY <2>2, <3>1, <3>2 DEF RecvConfirm
  <2>3. CASE \/ RecvOpenAuth(s) \/ Disconnect(s)
             \/ \E akm \in {"sae", "pmksa", "psk"}, mfpc, backoff \in BOOLEAN :
                  RecvAssoc(s, akm, mfpc, backoff)
             \/ \E k \in ClientKeys(s) : FourWay(s, k)
    BY <2>3, <1>a DEF RecvOpenAuth, Disconnect, RecvAssoc, FourWay
  <2> QED
    BY <1>3, <2>1, <2>2, <2>3 DEF ReceiveStep
<1>4. ASSUME NEW ok \in BOOLEAN, Compute(ok) PROVE \A t \in Sta : Served(t)'
  BY <1>4, ComputeServed
<1>5. CASE WorkerDies
  BY <1>5 DEF WorkerDies, Served
<1>6. CASE PollSaeWork
  BY <1>6, PollServed
<1>7. CASE PollClosed
  BY <1>7 DEF PollClosed, DropWorker, Served
<1>8. ASSUME NEW P \in SUBSET PendingCommits, NEW S \in SUBSET StaleSae,
             NEW E \in SUBSET cache, Maintenance(P, S, E)
      PROVE  \A t \in Sta : Served(t)'
  <2>1. \A t \in Sta : pend'[t] = NoPending \/ pend'[t] = pend[t]
    BY <1>8 DEF Maintenance
  <2> QED
    BY <1>8, <2>1, ServedKept DEF Maintenance
<1>9. CASE Reload
  BY <1>9, <1>a DEF Reload, BeginReload, CancelReload, InstallReload
<1> QED
  BY <1>1, <1>2, <1>3, <1>4, <1>5, <1>6, <1>7, <1>8, <1>9, Steps

\* A commit marked as being computed always has its job or its result under way
\* while the worker lives, and is gone with the worker (queue_sae_commit,
\* poll_sae_work): no station is left waiting for a computation nobody does.
THEOREM PendingAlwaysHasJob == Spec => []PendingHasJob
<1>1. Init => PendingHasJob
  BY DEF Init, PendingHasJob
<1>2. TInv /\ PendingHasJob /\ [Next]_vars => PendingHasJob'
  <2> SUFFICES ASSUME TInv, PendingHasJob, [Next]_vars PROVE PendingHasJob'
    OBVIOUS
  <2>1. \A t \in Sta : Served(t)'
    BY ServedIsProperty, ServedInductive
  <2> QED
    BY <2>1 DEF PendingHasJob, Served, Computing, Own
<1> QED
  BY <1>1, <1>2, TypeInvariant, PTL DEF Spec

-----------------------------------------------------------------------------
(* The limit on unfinished exchanges                                       *)

Unfinished == {s \in Sta : ExistingExchange(s)}

\* What is admitted is compared with a count that is never too small.
LEMMA CountCovers ==
  /\ IsFiniteSet(Unfinished)
  /\ Cardinality(Unfinished) \in Nat
  /\ Cardinality(Unfinished) <= IncompleteCount
<1> DEFINE U == {s \in Sta : Unconfirmed(s)}
           P == {s \in Sta : pend[s] # NoPending}
<1>1. IsFiniteSet(U) /\ IsFiniteSet(P) /\ IsFiniteSet(Unfinished)
  BY SaeAssumption, FS_Subset DEF Unfinished
<1>2. Unfinished = U \cup P
  BY DEF Unfinished, ExistingExchange
<1>3. IncompleteCount = Cardinality(U) + Cardinality(P)
  BY DEF IncompleteCount
<1> HIDE DEF U, P
<1>4. IsFiniteSet(U \cap P)
  BY <1>1, FS_Intersection
<1>5. /\ Cardinality(U) \in Nat /\ Cardinality(P) \in Nat
      /\ Cardinality(U \cap P) \in Nat /\ Cardinality(Unfinished) \in Nat
  BY <1>1, <1>4, FS_CardinalityType
<1>6. Cardinality(U \cup P)
        = Cardinality(U) + Cardinality(P) - Cardinality(U \cap P)
  BY <1>1, FS_Union
<1> QED
  BY <1>1, <1>2, <1>3, <1>5, <1>6

\* A step that starts no exchange.
LEMMA CapKept ==
  ASSUME IncompleteCap, Unfinished' \subseteq Unfinished
  PROVE  IncompleteCap'
<1>1. Cardinality(Unfinished') <= Cardinality(Unfinished)
  BY CountCovers, FS_Subset
<1>2. IsFiniteSet(Unfinished') /\ Cardinality(Unfinished') \in Nat
  BY CountCovers, FS_Subset, FS_CardinalityType
<1> QED
  BY <1>1, <1>2, CountCovers, SaeAssumption DEF IncompleteCap, Unfinished

\* handle_sae_auth starts an exchange below the limit, or goes on with one.
LEMMA CapAdmits ==
  ASSUME IncompleteCap, NEW s \in Sta,
         ExistingExchange(s) \/ ~(IncompleteCount >= Cap),
         IncompleteCount \in Nat,
         Unfinished' \subseteq Unfinished \cup {s}
  PROVE  IncompleteCap'
<1>1. CASE ExistingExchange(s)
  BY <1>1, CapKept DEF Unfinished
<1>2. CASE s \notin Unfinished
  <2>1. /\ IsFiniteSet(Unfinished \cup {s})
        /\ Cardinality(Unfinished \cup {s}) = Cardinality(Unfinished) + 1
    BY <1>2, CountCovers, FS_AddElement
  <2>2. /\ IsFiniteSet(Unfinished')
        /\ Cardinality(Unfinished') <= Cardinality(Unfinished \cup {s})
    BY <2>1, FS_Subset
  <2>3. Cardinality(Unfinished') \in Nat
    BY <2>2, FS_CardinalityType
  <2>4. ~(IncompleteCount >= Cap)
    BY <1>2 DEF Unfinished
  <2>5. Cardinality(Unfinished') <= Cap
    BY <2>1, <2>2, <2>3, <2>4, CountCovers, SaeAssumption
  <2> QED
    BY <2>5 DEF IncompleteCap, Unfinished
<1> QED
  BY <1>1, <1>2 DEF Unfinished

\* The count of unfinished exchanges is a number.
LEMMA CountType == IncompleteCount \in Nat
<1>1. /\ IsFiniteSet({s \in Sta : Unconfirmed(s)})
      /\ IsFiniteSet({s \in Sta : pend[s] # NoPending})
  BY SaeAssumption, FS_Subset
<1> QED
  BY <1>1, FS_CardinalityType DEF IncompleteCount

\* finish_sae_commit leaves every other station as it was.
LEMMA FinishOthers ==
  ASSUME TypeOK, NEW s \in Sta, NEW k \in Keys, NEW held \in Confirm,
         FinishSaeCommit(s, k, held)
  PROVE  \A t \in Sta \ {s} : ap'[t] = ap[t]
BY DEF FinishSaeCommit, TypeOK

\* A step after which no station has an exchange that it had not before.
LEMMA NoNewExchange ==
  ASSUME IncompleteCap,
         \A t \in Sta : \/ pend'[t] = NoPending \/ pend[t] # NoPending,
         \A t \in Sta : \/ ap'[t].sae = NoKey \/ ap'[t].confirmed
                        \/ /\ ap'[t].sae = ap[t].sae
                           /\ ap'[t].confirmed = ap[t].confirmed
  PROVE  IncompleteCap'
<1>1. Unfinished' \subseteq Unfinished
  BY DEF Unfinished, ExistingExchange, Unconfirmed
<1> QED
  BY <1>1, CapKept

\* Open authentication, association, four-way handshake and disconnect keep the
\* exchange of their station, or forget the station.
LEMMA ExchangeKept ==
  ASSUME TInv, NEW s \in Sta,
         \/ RecvOpenAuth(s) \/ Disconnect(s)
         \/ \E akm \in {"sae", "pmksa", "psk"}, mfpc, backoff \in BOOLEAN :
              RecvAssoc(s, akm, mfpc, backoff)
         \/ \E k \in ClientKeys(s) : FourWay(s, k)
  PROVE  /\ UNCHANGED <<pend, cache, armed>>
         /\ \A t \in Sta \ {s} : ap'[t] = ap[t]
         /\ \/ ap'[s] = NoStation
            \/ ap'[s].sae = ap[s].sae /\ ap'[s].confirmed = ap[s].confirmed
<1> USE DEF TInv, asyncVars
<1>0. ap[s] \in Station
  BY DEF TypeOK
<1>a. ASSUME NEW x, ap' = [ap EXCEPT ![s] = x]
      PROVE  ap'[s] = x /\ \A t \in Sta \ {s} : ap'[t] = ap[t]
  BY <1>a DEF TypeOK
<1>1. CASE RecvOpenAuth(s)
  <2> DEFINE r == [ap[s] EXCEPT !.assoc = FALSE, !.pmf = FALSE, !.pmk = NoKey]
  <2>1. r.confirmed = ap[s].confirmed /\ r.sae = ap[s].sae
    BY <1>0 DEF Station
  <2>2. ap' = [ap EXCEPT ![s] = r] /\ UNCHANGED <<pend, cache, armed>>
    BY <1>1 DEF RecvOpenAuth
  <2> HIDE DEF r
  <2> QED
    BY <1>a, <2>1, <2>2
<1>2. CASE Disconnect(s)
  <2>1. ap' = [ap EXCEPT ![s] = NoStation] /\ UNCHANGED <<pend, cache, armed>>
    BY <1>2 DEF Disconnect
  <2> QED
    BY <1>a, <2>1
<1>3. ASSUME NEW akm \in {"sae", "pmksa", "psk"}, NEW mfpc \in BOOLEAN,
             NEW backoff \in BOOLEAN, RecvAssoc(s, akm, mfpc, backoff)
      PROVE  /\ UNCHANGED <<pend, cache, armed>>
             /\ \A t \in Sta \ {s} : ap'[t] = ap[t]
             /\ ap'[s].sae = ap[s].sae /\ ap'[s].confirmed = ap[s].confirmed
  <2> DEFINE r == [ap[s] EXCEPT !.pmf = IF Transition THEN mfpc ELSE @]
             q == [r EXCEPT !.pmk = cl[s].cached, !.pmf = TRUE]
             Four == {r, q, [r EXCEPT !.ready = TRUE], [q EXCEPT !.ready = TRUE]}
  <2>1. PICK x \in Four : ap' = [ap EXCEPT ![s] = x]
    BY <1>3 DEF RecvAssoc
  <2>2. \A y \in Four : y.confirmed = ap[s].confirmed /\ y.sae = ap[s].sae
    BY <1>0 DEF Station
  <2>3. UNCHANGED <<pend, cache, armed>>
    BY <1>3 DEF RecvAssoc
  <2> HIDE DEF Four
  <2> QED
    BY <1>a, <2>1, <2>2, <2>3
<1>4. ASSUME NEW k \in ClientKeys(s), FourWay(s, k)
      PROVE  /\ UNCHANGED <<pend, cache, armed>>
             /\ \A t \in Sta \ {s} : ap'[t] = ap[t]
             /\ \/ ap'[s] = NoStation
                \/ ap'[s].sae = ap[s].sae /\ ap'[s].confirmed = ap[s].confirmed
  <2> DEFINE q == [ap[s] EXCEPT !.pmk = k, !.ready = FALSE, !.assoc = TRUE]
  <2>1. ap' = [ap EXCEPT ![s] = q] \/ ap' = [ap EXCEPT ![s] = NoStation]
    BY <1>4 DEF FourWay
  <2>2. q.confirmed = ap[s].confirmed /\ q.sae = ap[s].sae
    BY <1>0 DEF Station
  <2>3. UNCHANGED <<pend, cache, armed>>
    BY <1>4 DEF FourWay
  <2> HIDE DEF q
  <2> QED
    BY <1>a, <2>1, <2>2, <2>3
<1> QED
  BY <1>1, <1>2, <1>3, <1>4

\* Only handle_sae_auth starts an exchange, and it looks at the count.
LEMMA CapInductive == TInv /\ IncompleteCap /\ [Next]_vars => IncompleteCap'
<1> SUFFICES ASSUME TInv, IncompleteCap, [Next]_vars PROVE IncompleteCap'
  OBVIOUS
<1> USE DEF TInv, apVars, asyncVars, credVars, clientVars
<1>a. ASSUME UNCHANGED <<ap, pend>> PROVE IncompleteCap'
  BY <1>a, NoNewExchange
<1>1. CASE UNCHANGED core
  BY <1>1, <1>a DEF core
<1>2. ASSUME NEW s \in Sta, ClientStep(s) PROVE IncompleteCap'
  BY <1>2, <1>a DEF ClientStep, StartSae, EchoToken, ClientCommit, ClientConfirm
<1>3. ASSUME NEW s \in Sta, ReceiveStep(s) \/ Disconnect(s)
      PROVE  IncompleteCap'
  <2>1. ASSUME NEW c \in Commits, NEW b \in BOOLEAN, RecvCommit(s, c, b)
        PROVE  IncompleteCap'
    <3>1. CASE RequestToken(s, c) /\ UNCHANGED asyncVars
      BY <3>1, <1>a DEF RequestToken
    <3>2. CASE /\ ExistingExchange(s) \/ ~(IncompleteCount >= Cap)
               /\ QueueSaeCommit(s, c)
      <4>1. CASE /\ pend' = [pend EXCEPT ![s] =
                               [id |-> nextId, c |-> c, held |-> NoConfirm]]
                 /\ UNCHANGED ap
        <5>1. \A t \in Sta \ {s} : pend'[t] = pend[t]
          BY <4>1 DEF TypeOK
        <5>2. Unfinished' \subseteq Unfinished \cup {s}
          BY <4>1, <5>1 DEF Unfinished, ExistingExchange, Unconfirmed
        <5> QED
          BY <3>2, <5>2, CapAdmits, CountType
      <4>2. CASE RequestToken(s, c) /\ UNCHANGED pend
        BY <4>2, <1>a DEF RequestToken
      <4>3. CASE DropWorker /\ UNCHANGED ap
        BY <4>3, NoNewExchange DEF DropWorker
      <4>4. CASE /\ FinishSaeCommit(s, [c |-> c, a |-> nextId, w |-> pw], NoConfirm)
                 /\ UNCHANGED pend
        <5>1. /\ nextId <= MaxJobs /\ NoConfirm \in Confirm
              /\ [c |-> c, a |-> nextId, w |-> pw] \in Keys
          BY <3>2, JobType, Constants DEF QueueSaeCommit
        <5>2. \A t \in Sta \ {s} : ap'[t] = ap[t]
          BY <4>4, <5>1, FinishOthers
        <5>3. Unfinished' \subseteq Unfinished \cup {s}
          BY <4>4, <5>2 DEF Unfinished, ExistingExchange, Unconfirmed
        <5> QED
          BY <3>2, <5>3, CapAdmits, CountType
      <4> QED
        BY <3>2, <4>1, <4>2, <4>3, <4>4 DEF QueueSaeCommit
    <3> QED
      BY <2>1, <3>1, <3>2 DEF RecvCommit
  <2>2. ASSUME NEW f \in confirms[s], RecvConfirm(s, f) PROVE IncompleteCap'
    <3>1. CASE /\ pend[s] # NoPending /\ UNCHANGED ap
               /\ pend' = [pend EXCEPT ![s].held = f]
      <4>1. \A t \in Sta : pend'[t] = NoPending \/ pend[t] # NoPending
        BY <3>1 DEF TypeOK
      <4> QED
        BY <3>1, <4>1, NoNewExchange
    <3>2. CASE ap' = [ap EXCEPT ![s] = Accepted(@, f.n)] /\ UNCHANGED pend
      <4>1. Accepted(ap[s], f.n).confirmed = TRUE
        BY DEF TypeOK, Station, Accepted
      <4>2. ap'[s].confirmed /\ \A t \in Sta \ {s} : ap'[t] = ap[t]
        BY <3>2, <4>1 DEF TypeOK
      <4> QED
        BY <3>2, <4>2, NoNewExchange
    <3> QED
      BY <2>2, <3>1, <3>2 DEF RecvConfirm
  <2>3. CASE \/ RecvOpenAuth(s) \/ Disconnect(s)
             \/ \E akm \in {"sae", "pmksa", "psk"}, mfpc, backoff \in BOOLEAN :
                  RecvAssoc(s, akm, mfpc, backoff)
             \/ \E k \in ClientKeys(s) : FourWay(s, k)
    <3>1. \A t \in Sta : \/ ap'[t].sae = NoKey
                         \/ /\ ap'[t].sae = ap[t].sae
                            /\ ap'[t].confirmed = ap[t].confirmed
      BY <2>3, ExchangeKept DEF NoStation
    <3>2. UNCHANGED pend
      BY <2>3, ExchangeKept
    <3> QED
      BY <3>1, <3>2, NoNewExchange
  <2> QED
    BY <1>3, <2>1, <2>2, <2>3 DEF ReceiveStep
<1>4. CASE (\E ok \in BOOLEAN : Compute(ok)) \/ WorkerDies
  BY <1>4, <1>a DEF Compute, WorkerDies
<1>5. CASE PollSaeWork
  <2> DEFINE j == Head(results).job
             k == [c |-> j.c, a |-> j.id, w |-> j.w]
  <2>1. Head(results) \in Result
    BY <1>5 DEF PollSaeWork, TypeOK
  <2>2. j \in Job
    BY <2>1 DEF Result
  <2>3. k \in Keys /\ j.s \in Sta /\ j.id # 0
    BY <2>2, KeyTypes, SaeAssumption DEF Job, Ids
  <2>4. pend[j.s].held \in Confirm
    BY <2>3 DEF TypeOK, Pending
  <2>5. /\ pend' = [pend EXCEPT ![j.s] = NoPending] \/ pend' = pend
        /\ \/ /\ FinishSaeCommit(j.s, k, pend[j.s].held)
              /\ pend[j.s].id = j.id
           \/ UNCHANGED <<ap, armed, cache, answers>>
    BY <1>5 DEF PollSaeWork
  <2> HIDE DEF j, k
  <2>6. \A t \in Sta : pend'[t] = pend[t] \/ pend'[t] = NoPending
    BY <2>5 DEF TypeOK
  <2>7. CASE /\ FinishSaeCommit(j.s, k, pend[j.s].held)
             /\ pend[j.s].id = j.id
    <3>1. \A t \in Sta \ {j.s} : ap'[t] = ap[t]
      BY <2>3, <2>4, <2>7, FinishOthers
    <3>2. j.s \in Unfinished
      BY <2>3, <2>7 DEF Unfinished, ExistingExchange, NoPending
    <3>3. Unfinished' \subseteq Unfinished
      BY <2>6, <3>1, <3>2 DEF Unfinished, ExistingExchange, Unconfirmed
    <3> QED
      BY <3>3, CapKept
  <2>8. CASE UNCHANGED <<ap, armed, cache, answers>>
    BY <2>6, <2>8, NoNewExchange
  <2> QED
    BY <2>5, <2>7, <2>8
<1>6. CASE PollClosed
  BY <1>6, NoNewExchange DEF PollClosed, DropWorker
<1>7. ASSUME NEW P \in SUBSET PendingCommits, NEW S \in SUBSET StaleSae,
             NEW E \in SUBSET cache, Maintenance(P, S, E)
      PROVE  IncompleteCap'
  <2>1. \A t \in Sta : ap'[t] = NoStation \/ ap'[t] = ap[t]
    BY <1>7 DEF Maintenance
  <2>2. \A t \in Sta : pend'[t] = NoPending \/ pend'[t] = pend[t]
    BY <1>7 DEF Maintenance
  <2> QED
    BY <2>1, <2>2, NoNewExchange DEF NoStation
<1>8. CASE Reload
  BY <1>8, <1>a DEF Reload, BeginReload, CancelReload, InstallReload
<1> QED
  BY <1>1, <1>2, <1>3, <1>4, <1>5, <1>6, <1>7, <1>8, Steps

\* The stations with an unfinished exchange never exceed SAE_INCOMPLETE_MAX,
\* for every limit and every number of stations: a commit is counted from the
\* moment it is queued until it is confirmed, expired or forgotten, also while
\* its result is on the way (incomplete_sae_count, finish_sae_commit).
THEOREM IncompleteWithinCap == Spec => []IncompleteCap
<1>1. Init => IncompleteCap
  <2> SUFFICES ASSUME Init PROVE IncompleteCap
    OBVIOUS
  <2>1. {s \in Sta : ExistingExchange(s)} = {}
    BY DEF Init, ExistingExchange, Unconfirmed, NoStation
  <2> QED
    BY <2>1, FS_EmptySet, SaeAssumption DEF IncompleteCap
<1> QED
  BY <1>1, CapInductive, TypeInvariant, PTL DEF Spec

-----------------------------------------------------------------------------
(* Expiry.  On a WPA3-only BSS an association, and a PMK, go with PMF:     *)
(* that is why open authentication cannot end an association whose         *)
(* exchange is unfinished, and leave it without a deadline.                *)

Protected ==
  \A s \in Sta : (ap[s].assoc => ap[s].pmf) /\ (ap[s].pmk # NoKey => ap[s].pmf)

EInv == ExpiryArmed /\ Protected

\* finish_sae_commit arms the deadline and leaves the station protected.
LEMMA FinishArms ==
  ASSUME TypeOK, Protected, NEW s \in Sta, NEW k \in Keys, NEW held \in Confirm,
         FinishSaeCommit(s, k, held)
  PROVE  armed' /\ Protected'
<1> DEFINE r == [ap[s] EXCEPT !.sae = k, !.pmk = k, !.confirmed = FALSE,
                              !.last = 0, !.pmf = TRUE]
<1>1. ap[s] \in Station
  BY DEF TypeOK
<1>2. r \in Station /\ r.pmf = TRUE
  <2>1. held.n \in 0..MaxConfirms
    BY DEF Confirm
  <2>2. r \in Station
    BY <1>1, <2>1, StationUpdates
  <2>3. r.pmf = TRUE
    BY <1>1 DEF Station
  <2> QED  BY <2>2, <2>3
<1>3. /\ armed'
      /\ \/ ap' = [ap EXCEPT ![s] = Accepted(r, held.n)]
         \/ ap' = [ap EXCEPT ![s] = r]
  BY DEF FinishSaeCommit
<1> HIDE DEF r
<1>4. Accepted(r, held.n).pmf = TRUE
  BY <1>2 DEF Accepted, Station
<1>5. ap'[s].pmf = TRUE /\ \A t \in Sta \ {s} : ap'[t] = ap[t]
  BY <1>2, <1>3, <1>4 DEF TypeOK
<1> QED
  BY <1>3, <1>5 DEF Protected

\* Every step keeps the deadline set for what has to expire.
LEMMA ExpiryInductive ==
  ASSUME ~Transition
  PROVE  TInv /\ EInv /\ [Next]_vars => EInv'
<1> SUFFICES ASSUME TInv, EInv, [Next]_vars PROVE EInv'
  OBVIOUS
<1> USE DEF TInv, EInv, apVars, asyncVars, credVars, clientVars
<1>a. ASSUME UNCHANGED <<ap, pend, cache, armed>> PROVE EInv'
  BY <1>a DEF ExpiryArmed, Protected, Unconfirmed
<1>b. ASSUME armed', Protected' PROVE EInv'
  BY <1>b DEF ExpiryArmed
<1>c. ASSUME UNCHANGED armed, Protected', cache' \subseteq cache,
             \A t \in Sta : pend'[t] = NoPending \/ pend[t] # NoPending,
             \A t \in Sta : \/ ap'[t].sae = NoKey \/ ap'[t].assoc
                            \/ /\ ap'[t].sae = ap[t].sae
                               /\ ap'[t].confirmed = ap[t].confirmed
                               /\ ~ap[t].assoc
                            \/ ap'[t] = ap[t]
      PROVE  EInv'
  <2>1. ASSUME ~armed'
        PROVE  /\ cache' = {}
               /\ \A t \in Sta : /\ pend'[t] = NoPending
                                 /\ Unconfirmed(t)' => ap'[t].assoc
    <3>0. ~armed
      BY <1>c, <2>1
    <3>1. /\ cache = {}
          /\ \A t \in Sta : /\ pend[t] = NoPending
                            /\ Unconfirmed(t) => ap[t].assoc
      BY <3>0 DEF ExpiryArmed, Unconfirmed
    <3>2. ASSUME NEW t \in Sta, Unconfirmed(t)' PROVE ap'[t].assoc
      <4>1. ap'[t].sae # NoKey /\ ~ap'[t].confirmed
        BY <3>2 DEF Unconfirmed
      <4>2. CASE ap'[t] = ap[t]
        BY <3>1, <4>1, <4>2 DEF Unconfirmed
      <4>3. CASE /\ ap'[t].sae = ap[t].sae
                 /\ ap'[t].confirmed = ap[t].confirmed
                 /\ ~ap[t].assoc
        <5>1. Unconfirmed(t)
          BY <4>1, <4>3 DEF Unconfirmed
        <5> QED
          BY <3>1, <4>3, <5>1
      <4> QED
        BY <1>c, <4>1, <4>2, <4>3
    <3> QED
      BY <1>c, <3>1, <3>2
  <2> QED
    BY <1>c, <2>1 DEF ExpiryArmed
<1>1. CASE UNCHANGED core
  BY <1>1, <1>a DEF core
<1>2. ASSUME NEW s \in Sta, ClientStep(s) PROVE EInv'
  BY <1>2, <1>a DEF ClientStep, StartSae, EchoToken, ClientCommit, ClientConfirm
<1>3. ASSUME NEW s \in Sta, ReceiveStep(s) \/ Disconnect(s)
      PROVE  EInv'
  <2>0. ap[s] \in Station /\ cl[s] \in Client
    BY DEF TypeOK
  <2>a. ASSUME NEW x, ap' = [ap EXCEPT ![s] = x]
        PROVE  ap'[s] = x /\ \A t \in Sta \ {s} : ap'[t] = ap[t]
    BY <2>a DEF TypeOK
  <2>1. ASSUME NEW c \in Commits, NEW b \in BOOLEAN, RecvCommit(s, c, b)
        PROVE  EInv'
    <3>1. CASE RequestToken(s, c) /\ UNCHANGED asyncVars
      BY <3>1, <1>a DEF RequestToken
    <3>2. CASE QueueSaeCommit(s, c)
      <4>1. CASE armed' = TRUE /\ UNCHANGED ap
        BY <4>1, <1>b DEF Protected
      <4>2. CASE RequestToken(s, c) /\ UNCHANGED pend
        BY <4>2, <1>a DEF RequestToken
      <4>3. CASE DropWorker /\ UNCHANGED <<ap, armed, cache>>
        BY <4>3, <1>c DEF DropWorker, Protected
      <4>4. CASE FinishSaeCommit(s, [c |-> c, a |-> nextId, w |-> pw], NoConfirm)
        <5>1. NoConfirm \in Confirm /\ [c |-> c, a |-> nextId, w |-> pw] \in Keys
          BY <3>2, JobType, Constants DEF QueueSaeCommit
        <5> QED
          BY <4>4, <5>1, <1>b, FinishArms
      <4> QED
        BY <3>2, <4>1, <4>2, <4>3, <4>4 DEF QueueSaeCommit
    <3> QED
      BY <2>1, <3>1, <3>2 DEF RecvCommit
  <2>2. ASSUME NEW f \in confirms[s], RecvConfirm(s, f) PROVE EInv'
    <3>1. CASE pend[s] # NoPending /\ UNCHANGED <<ap, armed, cache>>
      <4>1. \A t \in Sta : pend'[t] = NoPending \/ pend[t] # NoPending
        BY <2>2, <3>1 DEF RecvConfirm, TypeOK
      <4> QED
        BY <3>1, <4>1, <1>c DEF Protected
    <3>2. CASE ap' = [ap EXCEPT ![s] = Accepted(@, f.n)] /\ armed' = TRUE
      <4>1. /\ Accepted(ap[s], f.n).assoc = ap[s].assoc
            /\ Accepted(ap[s], f.n).pmf = ap[s].pmf
            /\ Accepted(ap[s], f.n).pmk = ap[s].pmk
        BY <2>0 DEF Accepted, Station
      <4>2. Protected'
        BY <2>a, <3>2, <4>1 DEF Protected
      <4> QED
        BY <3>2, <4>2, <1>b
    <3> QED
      BY <2>2, <3>1, <3>2 DEF RecvConfirm
  <2>3. CASE RecvOpenAuth(s)
    <3> DEFINE r == [ap[s] EXCEPT !.assoc = FALSE, !.pmf = FALSE, !.pmk = NoKey]
    <3>1. /\ r.sae = ap[s].sae /\ r.confirmed = ap[s].confirmed
          /\ r.assoc = FALSE /\ r.pmk = NoKey
      BY <2>0 DEF Station
    <3>2. ap' = [ap EXCEPT ![s] = r] /\ UNCHANGED <<pend, cache, armed>>
      BY <2>3 DEF RecvOpenAuth
    <3>3. ~ap[s].assoc
      BY <2>3 DEF RecvOpenAuth, PmfProtected, Protected
    <3> HIDE DEF r
    <3>4. ap'[s] = r /\ \A t \in Sta \ {s} : ap'[t] = ap[t]
      BY <2>a, <3>2
    <3> QED
      BY <3>1, <3>2, <3>3, <3>4 DEF ExpiryArmed, Protected, Unconfirmed
  <2>4. ASSUME NEW akm \in {"sae", "pmksa", "psk"}, NEW mfpc \in BOOLEAN,
               NEW backoff \in BOOLEAN, RecvAssoc(s, akm, mfpc, backoff)
        PROVE  EInv'
    <3> DEFINE r == [ap[s] EXCEPT !.pmf = @]
               q == [r EXCEPT !.pmk = cl[s].cached, !.pmf = TRUE]
               Four == {r, q, [r EXCEPT !.ready = TRUE], [q EXCEPT !.ready = TRUE]}
    <3>1. PICK x \in Four : ap' = [ap EXCEPT ![s] = x]
      BY <2>4 DEF RecvAssoc
    <3>2. \A y \in Four : /\ y.assoc = ap[s].assoc
                          /\ \/ y.pmf = TRUE
                             \/ y.pmf = ap[s].pmf /\ y.pmk = ap[s].pmk
      BY <2>0 DEF Station
    <3>3. UNCHANGED <<pend, cache, armed>> /\ ap'[s].sae = ap[s].sae
             /\ ap'[s].confirmed = ap[s].confirmed
      <4>1. \A y \in Four : y.sae = ap[s].sae /\ y.confirmed = ap[s].confirmed
        BY <2>0 DEF Station
      <4> QED
        BY <2>4, <2>a, <3>1, <4>1 DEF RecvAssoc
    <3> HIDE DEF Four
    <3>4. ap'[s] = x /\ \A t \in Sta \ {s} : ap'[t] = ap[t]
      BY <2>a, <3>1
    <3> QED
      BY <3>1, <3>2, <3>3, <3>4 DEF ExpiryArmed, Protected, Unconfirmed
  <2>5. ASSUME NEW k \in ClientKeys(s), FourWay(s, k) PROVE EInv'
    <3> DEFINE q == [ap[s] EXCEPT !.pmk = k, !.ready = FALSE, !.assoc = TRUE]
    <3>1. /\ ap' = [ap EXCEPT ![s] = q] \/ ap' = [ap EXCEPT ![s] = NoStation]
          /\ ap[s].pmk # NoKey /\ UNCHANGED <<pend, cache, armed>>
      BY <2>5 DEF FourWay
    <3>2. /\ q.assoc = TRUE /\ q.pmf = ap[s].pmf
          /\ NoStation.sae = NoKey /\ NoStation.pmk = NoKey
          /\ NoStation.assoc = FALSE
      BY <2>0 DEF Station, NoStation
    <3>3. ap[s].pmf = TRUE
      BY <2>0, <3>1 DEF Protected, Station
    <3> HIDE DEF q
    <3>4. /\ ap'[s] = q \/ ap'[s] = NoStation
          /\ \A t \in Sta \ {s} : ap'[t] = ap[t]
      BY <2>a, <3>1
    <3> QED
      <4>1. Protected'
        <5>1. \/ ap'[s].pmf = TRUE
              \/ ap'[s].assoc = FALSE /\ ap'[s].pmk = NoKey
          BY <3>2, <3>3, <3>4
        <5> QED
          BY <3>4, <5>1 DEF Protected
      <4> QED
        <5>1. ASSUME NEW t \in Sta
              PROVE  ap'[t].sae = NoKey \/ ap'[t].assoc \/ ap'[t] = ap[t]
          BY <3>2, <3>4
        <5> QED
          BY <3>1, <4>1, <5>1, <1>c
  <2>6. CASE Disconnect(s)
    <3>1. /\ ap' = [ap EXCEPT ![s] = NoStation]
          /\ UNCHANGED <<pend, cache, armed>>
      BY <2>6 DEF Disconnect
    <3>2. ap'[s] = NoStation /\ \A t \in Sta \ {s} : ap'[t] = ap[t]
      BY <2>a, <3>1
    <3> QED
      BY <3>1, <3>2 DEF ExpiryArmed, Protected, Unconfirmed, NoStation
  <2> QED
    BY <1>3, <2>1, <2>2, <2>3, <2>4, <2>5, <2>6 DEF ReceiveStep
<1>4. CASE (\E ok \in BOOLEAN : Compute(ok)) \/ WorkerDies
  BY <1>4, <1>a DEF Compute, WorkerDies
<1>5. CASE PollSaeWork
  <2> DEFINE j == Head(results).job
             k == [c |-> j.c, a |-> j.id, w |-> j.w]
  <2>1. Head(results) \in Result
    BY <1>5 DEF PollSaeWork, TypeOK
  <2>2. j \in Job
    BY <2>1 DEF Result
  <2>3. k \in Keys /\ j.s \in Sta
    BY <2>2, KeyTypes DEF Job
  <2>4. pend[j.s].held \in Confirm
    BY <2>3 DEF TypeOK, Pending
  <2>5. /\ pend' = [pend EXCEPT ![j.s] = NoPending] \/ pend' = pend
        /\ \/ FinishSaeCommit(j.s, k, pend[j.s].held)
           \/ UNCHANGED <<ap, armed, cache, answers>>
    BY <1>5 DEF PollSaeWork
  <2> HIDE DEF j, k
  <2>6. \A t \in Sta : pend'[t] = pend[t] \/ pend'[t] = NoPending
    BY <2>5 DEF TypeOK
  <2>7. CASE FinishSaeCommit(j.s, k, pend[j.s].held)
    BY <2>3, <2>4, <2>7, <1>b, FinishArms
  <2>8. CASE UNCHANGED <<ap, armed, cache, answers>>
    BY <2>6, <2>8, <1>c DEF Protected
  <2> QED
    BY <2>5, <2>7, <2>8
<1>6. CASE PollClosed
  BY <1>6, <1>c DEF PollClosed, DropWorker, Protected
<1>7. ASSUME NEW P \in SUBSET PendingCommits, NEW S \in SUBSET StaleSae,
             NEW E \in SUBSET cache, Maintenance(P, S, E)
      PROVE  EInv'
  <2>1. \A t \in Sta : ap'[t] = NoStation \/ ap'[t] = ap[t]
    BY <1>7 DEF Maintenance
  <2>2. Protected'
    BY <2>1 DEF Protected, NoStation
  <2>3. armed' = Considered(ap', pend', cache')
    BY <1>7 DEF Maintenance
  <2>4. ExpiryArmed'
    BY <2>3 DEF Considered, ExpiryArmed, Unconfirmed
  <2> QED
    BY <2>2, <2>4
<1>8. CASE Reload
  <2>1. UNCHANGED <<ap, pend, armed>> /\ (cache' = cache \/ cache' = {})
    BY <1>8 DEF Reload, BeginReload, CancelReload, InstallReload
  <2> QED
    BY <2>1 DEF ExpiryArmed, Protected, Unconfirmed
<1> QED
  BY <1>1, <1>2, <1>3, <1>4, <1>5, <1>6, <1>7, <1>8, Steps

\* On a WPA3-only BSS whatever still has to expire (an unfinished exchange, a
\* queued commit, a cached PMKSA) has the maintenance deadline set, so that
\* run_deadline_maintenance comes back to it.
THEOREM ExpiryAlwaysArmed ==
  ASSUME ~Transition
  PROVE  Spec => []ExpiryArmed
<1>1. Init => EInv
  BY DEF Init, EInv, ExpiryArmed, Protected, Unconfirmed, NoStation
<1>2. EInv => ExpiryArmed
  BY DEF EInv
<1>3. TInv /\ EInv /\ [Next]_vars => EInv'
  BY ExpiryInductive
<1> QED
  BY <1>1, <1>2, <1>3, TypeInvariant, PTL DEF Spec
=============================================================================
