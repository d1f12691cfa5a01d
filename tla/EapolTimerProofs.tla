-------------------------- MODULE EapolTimerProofs ---------------------------
(***************************************************************************)
(* For every set of stations and every choice of timeouts: an armed frame  *)
(* is always scheduled, no stale entry makes a frame of a first record due *)
(* early, and the deadline heap implements RetryTimer.                     *)
(***************************************************************************)
EXTENDS EapolTimer, TLAPS

\* Only a record in the station table has a frame armed.
ArmedIsKnown == \A s \in Sta : st[s].pending # "none" => st[s].known

\* A station the timer dropped has no record.
DroppedIsGone == \A s \in dropped : ~st[s].known

Inv == TypeOK /\ ArmedIsKnown /\ ArmedIsScheduled /\ DroppedIsGone

USE DEF Kind, Timer, Entry, NewTimer

\* Changing one field to a value of its type gives a Timer again.
LEMMA FieldTypes ==
  /\ \A r \in Timer, k \in Kind : [r EXCEPT !.pending = k] \in Timer
  /\ \A r \in Timer : [r EXCEPT !.age = 0] \in Timer
  /\ \A r \in Timer, n \in 0..MaxRetries : [r EXCEPT !.retries = n] \in Timer
  /\ \A r \in Timer, b \in BOOLEAN : [r EXCEPT !.acked = b] \in Timer
  /\ \A r \in Timer, b \in BOOLEAN : [r EXCEPT !.known = b] \in Timer
  /\ \A r \in Timer, n \in Nat : [r EXCEPT !.gen = n] \in Timer
BY TimerBounds

\* The record updates of the actions keep the type Timer.
LEMMA UpdateTypes ==
  ASSUME NEW r \in Timer
  PROVE  /\ \A k \in Kind : Restarted(r, k) \in Timer
         /\ Stretched(r) \in Timer
         /\ Cancelled(r) \in Timer
         /\ r.retries < MaxRetries => Repeated(r) \in Timer
<1> USE TimerBounds, FieldTypes
<1>0. r.gen + 1 \in Nat /\ 0 \in 0..MaxRetries
  OBVIOUS
<1>1. ASSUME NEW k \in Kind PROVE Restarted(r, k) \in Timer
  <2> DEFINE r1 == [r EXCEPT !.pending = k]
             r2 == [r1 EXCEPT !.age = 0]
             r3 == [r2 EXCEPT !.retries = 0]
             r4 == [r3 EXCEPT !.acked = FALSE]
  <2>1. r1 \in Timer
    OBVIOUS
  <2> HIDE DEF r1
  <2>2. r2 \in Timer
    BY <2>1
  <2> HIDE DEF r2
  <2>3. r3 \in Timer
    BY <1>0, <2>2
  <2> HIDE DEF r3
  <2>4. r4 \in Timer
    BY <2>3
  <2>5. r4 = Restarted(r, k)
    BY DEF r1, r2, r3, Restarted
  <2> QED  BY <2>4, <2>5
<1>2. Stretched(r) \in Timer
  <2> DEFINE r1 == [r EXCEPT !.acked = TRUE]
             r2 == [r1 EXCEPT !.age = 0]
  <2>1. r1 \in Timer
    OBVIOUS
  <2> HIDE DEF r1
  <2>2. r2 \in Timer
    BY <2>1
  <2>3. r2 = Stretched(r)
    BY DEF r1, Stretched
  <2> QED  BY <2>2, <2>3
<1>3. Cancelled(r) \in Timer
  <2> DEFINE r1 == [r EXCEPT !.pending = "none"]
             r2 == [r1 EXCEPT !.retries = 0]
             r3 == [r2 EXCEPT !.acked = FALSE]
             r4 == [r3 EXCEPT !.gen = r.gen + 1]
  <2>1. r1 \in Timer
    OBVIOUS
  <2> HIDE DEF r1
  <2>2. r2 \in Timer
    BY <1>0, <2>1
  <2> HIDE DEF r2
  <2>3. r3 \in Timer
    BY <2>2
  <2> HIDE DEF r3
  <2>4. r4 \in Timer
    BY <1>0, <2>3
  <2>5. r4 = Cancelled(r)
    BY DEF r1, r2, r3, Cancelled
  <2> QED  BY <2>4, <2>5
<1>4. ASSUME r.retries < MaxRetries PROVE Repeated(r) \in Timer
  <2> DEFINE r1 == [r EXCEPT !.age = 0]
             r2 == [r1 EXCEPT !.retries = r.retries + 1]
             r3 == [r2 EXCEPT !.acked = FALSE]
             r4 == [r3 EXCEPT !.gen = r.gen + 1]
  <2>1. r1 \in Timer /\ r.retries + 1 \in 0..MaxRetries
    BY <1>4
  <2> HIDE DEF r1
  <2>2. r2 \in Timer
    BY <2>1
  <2> HIDE DEF r2
  <2>3. r3 \in Timer
    BY <2>2
  <2> HIDE DEF r3
  <2>4. r4 \in Timer
    BY <1>0, <2>3
  <2>5. r4 = Repeated(r)
    BY DEF r1, r2, r3, Repeated
  <2> QED  BY <2>4, <2>5
<1> QED  BY <1>1, <1>2, <1>3, <1>4

\* The time left to a deadline never exceeds the normal timeout.
LEMMA LeftType ==
  ASSUME NEW r \in Timer
  PROVE  Left(r) \in 0..Normal /\ Timeout(r) \in 1..Normal
BY TimerBounds DEF Left, Timeout

\* arm_eapol_timer keeps the types of table and heap.
LEMMA ArmTypes ==
  ASSUME TypeOK, NEW s \in Sta, NEW r \in Timer, Arm(s, r)
  PROVE  st' \in [Sta -> Timer] /\ heap' \subseteq Entry
<1> DEFINE q == [r EXCEPT !.gen = @ + 1]
<1>1. q \in Timer
  OBVIOUS
<1>2. st' = [st EXCEPT ![s] = q]
  BY DEF Arm
<1>3. [left |-> Left(r), gen |-> r.gen + 1, sta |-> s] \in Entry
  BY LeftType
<1> QED
  BY <1>1, <1>2, <1>3 DEF Arm, TypeOK

\* The typing invariant is inductive.
LEMMA TypeInductive ==
  ASSUME TypeOK, [Next]_vars
  PROVE  TypeOK'
<1> USE TimerBounds DEF TypeOK
<1>1. CASE Elapse
  <2>1. st' \in [Sta -> Timer]
    <3>1. ASSUME NEW s \in Sta PROVE st'[s] \in Timer
      <4>1. PICK r \in Timer : r = st[s]
        OBVIOUS
      <4>2. st'[s] = [r EXCEPT !.age = IF @ < Normal THEN @ + 1 ELSE @]
        BY <1>1, <4>1 DEF Elapse
      <4> HIDE DEF TypeOK
      <4> QED  BY <4>2
    <3> QED  BY <1>1, <3>1 DEF Elapse
  <2>2. heap' \subseteq Entry
    <3>1. ASSUME NEW e \in heap
          PROVE  [e EXCEPT !.left = IF @ > 0 THEN @ - 1 ELSE 0] \in Entry
      OBVIOUS
    <3> QED  BY <1>1, <3>1 DEF Elapse
  <2> QED  BY <1>1, <2>1, <2>2 DEF Elapse
<1>2. ASSUME NEW e \in heap, PopStale(e) PROVE TypeOK'
  BY <1>2 DEF PopStale
<1>3. ASSUME NEW e \in heap, PopRetry(e) PROVE TypeOK'
  <2> DEFINE q == Repeated(st[e.sta])
  <2>1. e \in Entry /\ st[e.sta] \in Timer
    OBVIOUS
  <2>2. q \in Timer
    BY <1>3, <2>1, UpdateTypes DEF PopRetry
  <2>3. [left |-> Normal, gen |-> e.gen + 1, sta |-> e.sta] \in Entry
    BY <2>1
  <2>4. st' = [st EXCEPT ![e.sta] = q]
    BY <1>3 DEF PopRetry
  <2> QED  BY <1>3, <2>1, <2>2, <2>3, <2>4 DEF PopRetry
<1>4. ASSUME NEW e \in heap, PopGiveUp(e) PROVE TypeOK'
  <2>1. e.sta \in Sta /\ NewTimer \in Timer
    OBVIOUS
  <2>2. st' = [st EXCEPT ![e.sta] = NewTimer] /\ heap' \subseteq Entry
    <3>1. heap' = heap \ {e} /\ heap \subseteq Entry
      BY <1>4 DEF PopGiveUp, Drop
    <3> QED  BY <1>4, <3>1 DEF PopGiveUp, Drop
  <2>3. dropped' \subseteq Sta /\ lives' = lives
    BY <1>4, <2>1 DEF PopGiveUp, Drop
  <2>4. st' \in [Sta -> Timer]
    BY <2>1, <2>2
  <2> QED  BY <2>2, <2>3, <2>4
<1>5. ASSUME NEW s \in Sta, Create(s) PROVE TypeOK'
  <2>0. st[s] \in Timer /\ TRUE \in BOOLEAN
    OBVIOUS
  <2>1. [st[s] EXCEPT !.known = TRUE] \in Timer
    <3> HIDE DEF TypeOK, Timer
    <3> QED  BY <2>0, FieldTypes
  <2>2. lives' \in [Sta -> 0..MaxLives]
    BY <1>5 DEF Create
  <2>3. st' \in [Sta -> Timer]
    BY <1>5, <2>1 DEF Create
  <2> QED  BY <1>5, <2>2, <2>3 DEF Create
<1>6. ASSUME NEW s \in Sta, NEW k \in Kind \ {"none"}, SendEapol(s, k) PROVE TypeOK'
  <2>1. Restarted(st[s], k) \in Timer
    BY UpdateTypes
  <2> QED  BY <1>6, <2>1, ArmTypes DEF SendEapol
<1>7. ASSUME NEW s \in Sta, ClearPending(s) PROVE TypeOK'
  BY <1>7 DEF ClearPending
<1>8. ASSUME NEW s \in Sta, NoteAcked(s) PROVE TypeOK'
  <2>1. st[s] \in Timer /\ Stretched(st[s]) \in Timer
    BY UpdateTypes
  <2> QED  BY <1>8, <2>1, ArmTypes DEF NoteAcked
<1>9. ASSUME NEW s \in Sta, NoteTransmitted(s) PROVE TypeOK'
  <2>1. Restarted(st[s], st[s].pending) \in Timer
    BY UpdateTypes
  <2> QED  BY <1>9, <2>1, ArmTypes DEF NoteTransmitted
<1>10. ASSUME NEW s \in Sta, NoteNotAcked(s) PROVE TypeOK'
  <2> DEFINE q == Cancelled(st[s])
  <2>1. q \in Timer
    BY UpdateTypes
  <2>2. st' = [st EXCEPT ![s] = q]
    BY <1>10 DEF NoteNotAcked
  <2> QED  BY <1>10, <2>1, <2>2 DEF NoteNotAcked
<1>11. ASSUME NEW s \in Sta, Remove(s) PROVE TypeOK'
  BY <1>11 DEF Remove
<1>12. CASE UNCHANGED vars
  BY <1>12 DEF vars
<1> QED
  BY <1>1, <1>2, <1>3, <1>4, <1>5, <1>6, <1>7, <1>8, <1>9, <1>10, <1>11, <1>12
  DEF Next, Pop
-----------------------------------------------------------------------------
(* An armed frame is scheduled *)

\* The same of one station, so that a step can be argued station by station.
Scheduled(s) == st[s].pending # "none" =>
  \E e \in heap : e.sta = s /\ e.gen = st[s].gen /\ e.left <= Left(st[s])

\* A step that leaves the record of s alone and takes no entry of its generation
\* out of the heap leaves s scheduled.
LEMMA ScheduledKept ==
  ASSUME NEW s \in Sta, Scheduled(s), st'[s] = st[s],
         \A e \in heap : e.sta = s /\ e.gen = st[s].gen => e \in heap'
  PROVE  Scheduled(s)'
BY DEF Scheduled, Left, Timeout

\* arm_eapol_timer leaves every armed frame scheduled.
LEMMA ArmSchedules ==
  ASSUME TypeOK, NEW s \in Sta, NEW r \in Timer, Arm(s, r),
         r.pending # "none" => r.known,
         \A t \in Sta : Scheduled(t) /\ (st[t].pending # "none" => st[t].known)
  PROVE  \A t \in Sta : Scheduled(t)' /\ (st'[t].pending # "none" => st'[t].known)
<1> TAKE t \in Sta
<1> DEFINE q == [r EXCEPT !.gen = @ + 1]
           e == [left |-> Left(r), gen |-> r.gen + 1, sta |-> s]
<1>1. st' = [st EXCEPT ![s] = q] /\ st \in [Sta -> Timer]
  BY DEF Arm, TypeOK
<1>2. CASE t # s
  <2>1. st'[t] = st[t] /\ heap \subseteq heap'
    BY <1>1, <1>2 DEF Arm
  <2> QED  BY <2>1, ScheduledKept
<1>3. CASE t = s
  <2>1. st'[t] = q /\ q.pending = r.pending /\ q.known = r.known /\ q.gen = r.gen + 1
    BY <1>1, <1>3
  <2>2. Left(q) = Left(r)
    BY DEF Left, Timeout
  <2>3. r.pending # "none" => e \in heap'
    BY DEF Arm
  <2>4. e.sta = s /\ e.gen = r.gen + 1 /\ e.left = Left(r) /\ Left(r) <= Left(r)
    BY LeftType
  <2>5. Left(st[t])' = Left(q)
    BY <2>1 DEF Left, Timeout
  <2> HIDE DEF q, e
  <2> QED  BY <1>3, <2>1, <2>2, <2>3, <2>4, <2>5 DEF Scheduled
<1> QED  BY <1>2, <1>3

\* What the record updates do to the fields the abstract timer sees.
LEMMA UpdateFields ==
  ASSUME NEW r \in Timer, NEW k \in Kind
  PROVE  /\ Restarted(r, k).pending = k /\ Restarted(r, k).known = r.known
         /\ Stretched(r).pending = r.pending /\ Stretched(r).known = r.known
         /\ Cancelled(r).pending = "none"
         /\ Repeated(r).pending = r.pending /\ Repeated(r).known = r.known
         /\ Repeated(r).gen = r.gen + 1
         /\ Repeated(r).age = 0 /\ Repeated(r).retries = r.retries + 1
BY DEF Restarted, Stretched, Cancelled, Repeated

\* That every armed frame is scheduled is inductive, relative to the types.
LEMMA ScheduledInductive ==
  ASSUME Inv, [Next]_vars
  PROVE  (ArmedIsKnown /\ ArmedIsScheduled)'
<1> DEFINE Good(t) == Scheduled(t) /\ (st[t].pending # "none" => st[t].known)
<1> USE TimerBounds
<1>0. TypeOK /\ \A t \in Sta : Good(t) /\ st[t] \in Timer
  BY DEF Inv, ArmedIsKnown, ArmedIsScheduled, Scheduled, TypeOK
<1>a. SUFFICES \A t \in Sta : Good(t)'
  BY DEF ArmedIsKnown, ArmedIsScheduled, Scheduled
<1>1. CASE Elapse
  <2> TAKE t \in Sta
  <2>1. st'[t] = [st[t] EXCEPT !.age = IF @ < Normal THEN @ + 1 ELSE @]
    BY <1>1 DEF Elapse
  <2>2. /\ st'[t].pending = st[t].pending /\ st'[t].known = st[t].known
        /\ st'[t].gen = st[t].gen /\ Timeout(st[t])' = Timeout(st[t])
    BY <1>0, <2>1 DEF Timeout
  <2>3. Left(st[t])' = IF Left(st[t]) > 0 THEN Left(st[t]) - 1 ELSE 0
    <3>1. st'[t].age = IF st[t].age < Normal THEN st[t].age + 1 ELSE st[t].age
      BY <1>0, <2>1
    <3>2. Timeout(st[t]) \in 1..Normal
      BY <1>0, LeftType
    <3> QED  BY <1>0, <2>2, <3>1, <3>2 DEF Left
  <2>4. ASSUME st[t].pending # "none"
        PROVE  \E e \in heap' : e.sta = t /\ e.gen = st[t].gen /\ e.left <= Left(st[t])'
    <3>1. PICK e \in heap : e.sta = t /\ e.gen = st[t].gen /\ e.left <= Left(st[t])
      BY <1>0, <2>4 DEF Scheduled
    <3> DEFINE d == [e EXCEPT !.left = IF @ > 0 THEN @ - 1 ELSE 0]
    <3>2. e \in Entry
      BY <1>0 DEF TypeOK
    <3>3. d \in heap'
      BY <1>1 DEF Elapse
    <3>4. d.sta = t /\ d.gen = st[t].gen /\ d.left = IF e.left > 0 THEN e.left - 1 ELSE 0
      BY <3>1, <3>2
    <3>5. d.left <= Left(st[t])'
      BY <1>0, <2>3, <3>1, <3>2, <3>4, LeftType
    <3> HIDE DEF d
    <3> QED  BY <3>3, <3>4, <3>5
  <2> QED  BY <1>0, <2>2, <2>4 DEF Scheduled
<1>2. ASSUME NEW e \in heap, PopStale(e) PROVE \A t \in Sta : Good(t)'
  <2> TAKE t \in Sta
  <2>1. CASE st[t].pending = "none"
    BY <1>2, <2>1 DEF PopStale, Scheduled
  <2>2. CASE st[t].pending # "none"
    <3>1. \A d \in heap : d.sta = t /\ d.gen = st[t].gen => d \in heap'
      BY <1>0, <1>2, <2>2 DEF PopStale, Counts
    <3> QED  BY <1>0, <1>2, <3>1, ScheduledKept DEF PopStale
  <2> QED  BY <2>1, <2>2
<1>3. ASSUME NEW e \in heap, PopRetry(e) PROVE \A t \in Sta : Good(t)'
  <2> TAKE t \in Sta
  <2> DEFINE d == [left |-> Normal, gen |-> e.gen + 1, sta |-> e.sta]
  <2>0. e \in Entry /\ st \in [Sta -> Timer]
    BY <1>0 DEF TypeOK
  <2>1. CASE t # e.sta
    <3>1. st'[t] = st[t] /\ \A c \in heap : c.sta = t => c \in heap'
      BY <1>3, <2>0, <2>1 DEF PopRetry
    <3> QED  BY <1>0, <3>1, ScheduledKept
  <2>2. CASE t = e.sta
    <3>1. st'[t] = Repeated(st[t])
      BY <1>3, <2>0, <2>2 DEF PopRetry
    <3>2. /\ st'[t].pending = st[t].pending /\ st'[t].known = st[t].known
          /\ st'[t].gen = e.gen + 1 /\ st'[t].age = 0 /\ st'[t].retries = st[t].retries + 1
      BY <1>0, <1>3, <2>2, <3>1, UpdateFields DEF PopRetry, Counts
    <3>3. Left(st[t])' = Normal
      BY <1>0, <3>2 DEF Left, Timeout
    <3>4. d \in heap' /\ d.sta = t /\ d.gen = e.gen + 1 /\ d.left = Normal
      BY <1>3, <2>2 DEF PopRetry
    <3> HIDE DEF d
    <3> QED  BY <1>0, <3>2, <3>3, <3>4 DEF Scheduled
  <2> QED  BY <2>1, <2>2
<1>4. ASSUME NEW e \in heap, PopGiveUp(e) PROVE \A t \in Sta : Good(t)'
  <2> TAKE t \in Sta
  <2>0. e \in Entry /\ st \in [Sta -> Timer]
    BY <1>0 DEF TypeOK
  <2>1. CASE t # e.sta
    <3>1. st'[t] = st[t] /\ \A c \in heap : c.sta = t => c \in heap'
      BY <1>4, <2>0, <2>1 DEF PopGiveUp, Drop
    <3> QED  BY <1>0, <3>1, ScheduledKept
  <2>2. CASE t = e.sta
    BY <1>4, <2>0, <2>2 DEF PopGiveUp, Drop, Scheduled
  <2> QED  BY <2>1, <2>2
<1>5. ASSUME NEW s \in Sta, Create(s) PROVE \A t \in Sta : Good(t)'
  <2> TAKE t \in Sta
  <2>1. CASE t # s
    BY <1>0, <1>5, <2>1, ScheduledKept DEF Create
  <2>2. CASE t = s
    BY <1>0, <1>5, <2>2 DEF Create, Scheduled, TypeOK
  <2> QED  BY <2>1, <2>2
<1>6. ASSUME NEW s \in Sta, NEW k \in Kind \ {"none"}, SendEapol(s, k)
      PROVE  \A t \in Sta : Good(t)'
  <2> DEFINE r == Restarted(st[s], k)
  <2>1. r \in Timer
    BY <1>0, UpdateTypes
  <2>2. r.known = st[s].known
    BY <1>0, UpdateFields
  <2>3. Arm(s, r) /\ st[s].known
    BY <1>6 DEF SendEapol
  <2> HIDE DEF r
  <2> QED  BY <1>0, <2>1, <2>2, <2>3, ArmSchedules
<1>7. ASSUME NEW s \in Sta, ClearPending(s) PROVE \A t \in Sta : Good(t)'
  <2> TAKE t \in Sta
  <2>1. CASE t # s
    BY <1>0, <1>7, <2>1, ScheduledKept DEF ClearPending
  <2>2. CASE t = s
    BY <1>0, <1>7, <2>2 DEF ClearPending, Scheduled, TypeOK
  <2> QED  BY <2>1, <2>2
<1>8. ASSUME NEW s \in Sta, NoteAcked(s) PROVE \A t \in Sta : Good(t)'
  <2>1. CASE Arm(s, st[s])
    BY <1>0, <2>1, ArmSchedules
  <2>2. CASE Arm(s, Stretched(st[s]))
    <3> DEFINE r == Stretched(st[s])
    <3>1. r \in Timer
      BY <1>0, UpdateTypes
    <3>2. r.known = st[s].known
      BY <1>0, UpdateFields
    <3>3. Arm(s, r) /\ st[s].known
      BY <1>8, <2>2 DEF NoteAcked
    <3> HIDE DEF r
    <3> QED  BY <1>0, <3>1, <3>2, <3>3, ArmSchedules
  <2> QED  BY <1>8, <2>1, <2>2 DEF NoteAcked
<1>9. ASSUME NEW s \in Sta, NoteTransmitted(s) PROVE \A t \in Sta : Good(t)'
  <2> DEFINE r == Restarted(st[s], st[s].pending)
  <2>1. r \in Timer
    BY <1>0, UpdateTypes
  <2>2. r.known = st[s].known
    BY <1>0, UpdateFields
  <2>3. Arm(s, r) /\ st[s].known
    BY <1>9 DEF NoteTransmitted
  <2> HIDE DEF r
  <2> QED  BY <1>0, <2>1, <2>2, <2>3, ArmSchedules
<1>10. ASSUME NEW s \in Sta, NoteNotAcked(s) PROVE \A t \in Sta : Good(t)'
  <2> TAKE t \in Sta
  <2>1. CASE t # s
    BY <1>0, <1>10, <2>1, ScheduledKept DEF NoteNotAcked
  <2>2. CASE t = s
    BY <1>0, <1>10, <2>2, UpdateFields DEF NoteNotAcked, Scheduled, TypeOK
  <2> QED  BY <2>1, <2>2
<1>11. ASSUME NEW s \in Sta, Remove(s) PROVE \A t \in Sta : Good(t)'
  <2> TAKE t \in Sta
  <2>1. CASE t # s
    BY <1>0, <1>11, <2>1, ScheduledKept DEF Remove
  <2>2. CASE t = s
    BY <1>0, <1>11, <2>2 DEF Remove, Scheduled, TypeOK
  <2> QED  BY <2>1, <2>2
<1>12. CASE UNCHANGED vars
  BY <1>0, <1>12 DEF vars, Scheduled, Left, Timeout
<1> QED
  BY <1>1, <1>2, <1>3, <1>4, <1>5, <1>6, <1>7, <1>8, <1>9, <1>10, <1>11, <1>12
  DEF Next, Pop

\* A dropped station stays without a record until it is admitted again.
LEMMA DroppedInductive ==
  ASSUME TypeOK, DroppedIsGone, [Next]_vars
  PROVE  DroppedIsGone'
<1> SUFFICES ASSUME NEW t \in dropped' PROVE ~st'[t].known
  BY DEF DroppedIsGone
<1>0. st \in [Sta -> Timer] /\ heap \subseteq Entry /\ \A s \in dropped : ~st[s].known
  BY DEF TypeOK, DroppedIsGone
<1>1. CASE Elapse
  BY <1>0, <1>1 DEF Elapse, TypeOK
<1>2. ASSUME NEW e \in heap, PopStale(e) \/ PopRetry(e) \/ PopGiveUp(e) PROVE ~st'[t].known
  BY <1>0, <1>2 DEF PopStale, PopRetry, PopGiveUp, Drop, Counts, Repeated, TypeOK
<1>3. ASSUME NEW s \in Sta, Create(s) PROVE ~st'[t].known
  BY <1>0, <1>3 DEF Create, TypeOK
<1>4. ASSUME NEW s \in Sta, st[s].known, dropped' = dropped,
             \A r \in Sta \ {s} : st'[r] = st[r]
      PROVE  ~st'[t].known
  BY <1>0, <1>4 DEF TypeOK
<1>5. ASSUME NEW s \in Sta, NEW k \in Kind \ {"none"},
             \/ SendEapol(s, k) \/ ClearPending(s) \/ NoteAcked(s)
             \/ NoteTransmitted(s) \/ NoteNotAcked(s) \/ Remove(s)
      PROVE  ~st'[t].known
  <2>1. st[s].known /\ dropped' = dropped /\ \A r \in Sta \ {s} : st'[r] = st[r]
    BY <1>0, <1>5 DEF SendEapol, ClearPending, NoteAcked, NoteTransmitted, NoteNotAcked,
                      Remove, Arm
  <2> QED  BY <1>4, <2>1
<1>6. CASE UNCHANGED vars
  BY <1>0, <1>6 DEF vars
<1> QED  BY <1>1, <1>2, <1>3, <1>5, <1>6 DEF Next, Pop

\* The inductive invariant holds in every reachable state.
LEMMA InvInvariant == Spec => []Inv
<1>1. Init => Inv
  BY TimerBounds DEF Init, Inv, TypeOK, ArmedIsKnown, ArmedIsScheduled, DroppedIsGone
<1>2. Inv /\ [Next]_vars => Inv'
  BY TypeInductive, ScheduledInductive, DroppedInductive DEF Inv
<1> QED  BY <1>1, <1>2, PTL DEF Spec

\* Types, for every number of stations, timeouts and generations: retries never
\* pass MAX_EAPOL_RETRIES and no deadline lies further than the normal timeout.
THEOREM TimerTypeCorrect == Spec => []TypeOK
<1>1. Inv => TypeOK
  BY DEF Inv
<1> QED
  BY <1>1, InvInvariant, PTL

\* Whatever mixture of sends, ACK reports, cancellations, removals and stale
\* entries came before, an armed frame has its own entry in the deadline heap.
THEOREM ArmedAlwaysScheduled == Spec => []ArmedIsScheduled
<1>1. Inv => ArmedIsScheduled
  BY DEF Inv
<1> QED  BY <1>1, InvInvariant, PTL
-----------------------------------------------------------------------------
(* The heap implements RetryTimer *)

\* The phase and the repetitions that RetryTimer sees.
AbsPhase == [s \in Sta |-> IF st[s].pending # "none" THEN "armed"
                          ELSE IF s \in dropped THEN "dropped" ELSE "idle"]
AbsRetries == [s \in Sta |-> IF st[s].pending # "none" THEN st[s].retries ELSE 0]

\* What a step does to one record decides which step of RetryTimer it is.
LEMMA OneRecord ==
  ASSUME Inv, NEW s \in Sta,
         \A t \in Sta \ {s} : /\ st'[t].pending = st[t].pending
                              /\ st'[t].retries = st[t].retries
                              /\ t \in dropped' <=> t \in dropped,
         \/ st[s].known /\ s \notin dropped' /\ st'[s].pending # "none" /\ st'[s].retries = 0
         \/ st[s].known /\ s \notin dropped' /\ st'[s].pending = "none"
         \/ /\ st[s].pending # "none" /\ st'[s].pending = "none"
            /\ st[s].retries = MaxRetries /\ s \in dropped'
         \/ /\ st[s].pending # "none" /\ st'[s].pending # "none"
            /\ st[s].retries < MaxRetries /\ st'[s].retries = st[s].retries + 1
         \/ st[s].pending = "none" /\ st'[s].pending = "none" /\ s \notin dropped'
         \/ /\ st'[s].pending = st[s].pending /\ st'[s].retries = st[s].retries
            /\ s \in dropped' <=> s \in dropped
  PROVE  [Abstract!Next]_<<AbsPhase, AbsRetries>>
<1> DEFINE a == AbsPhase  b == AbsRetries
<1>0. /\ a = [t \in Sta |-> a[t]] /\ a' = [t \in Sta |-> a'[t]]
      /\ b = [t \in Sta |-> b[t]] /\ b' = [t \in Sta |-> b'[t]]
      /\ \A t \in Sta \ {s} : a'[t] = a[t] /\ b'[t] = b[t]
  BY DEF AbsPhase, AbsRetries
<1>d. st[s].known => a[s] # "dropped"
  BY DEF Inv, DroppedIsGone, AbsPhase
<1>1. CASE st[s].known /\ s \notin dropped' /\ st'[s].pending # "none" /\ st'[s].retries = 0
  <2>1. a[s] # "dropped" /\ a'[s] = "armed" /\ b'[s] = 0
    BY <1>1, <1>d DEF AbsPhase, AbsRetries
  <2>2. a' = [a EXCEPT ![s] = "armed"] /\ b' = [b EXCEPT ![s] = 0]
    BY <1>0, <2>1
  <2> QED  BY <2>1, <2>2 DEF Abstract!Next, Abstract!Arm, AbsPhase, AbsRetries
<1>2. CASE /\ st[s].pending # "none"
           /\ st[s].known /\ s \notin dropped' /\ st'[s].pending = "none"
  <2>1. a[s] = "armed" /\ a'[s] = "idle" /\ b'[s] = 0
    BY <1>2 DEF AbsPhase, AbsRetries
  <2>2. a' = [a EXCEPT ![s] = "idle"] /\ b' = [b EXCEPT ![s] = 0]
    BY <1>0, <2>1
  <2> QED  BY <2>1, <2>2 DEF Abstract!Next, Abstract!Settle, AbsPhase, AbsRetries
<1>3. CASE /\ st[s].pending # "none" /\ st'[s].pending # "none"
           /\ st[s].retries < MaxRetries /\ st'[s].retries = st[s].retries + 1
  <2>1. a[s] = "armed" /\ a'[s] = a[s] /\ b[s] < MaxRetries /\ b'[s] = b[s] + 1
    BY <1>3 DEF AbsPhase, AbsRetries
  <2>2. a' = a /\ b' = [b EXCEPT ![s] = b[s] + 1]
    BY <1>0, <2>1
  <2> QED  BY <2>1, <2>2 DEF Abstract!Next, Abstract!Retry, AbsPhase, AbsRetries
<1>4. CASE /\ st[s].pending # "none" /\ st'[s].pending = "none"
           /\ st[s].retries = MaxRetries /\ s \in dropped'
  <2>1. a[s] = "armed" /\ a'[s] = "dropped" /\ b[s] = MaxRetries /\ b'[s] = 0
    BY <1>4 DEF AbsPhase, AbsRetries
  <2>2. a' = [a EXCEPT ![s] = "dropped"] /\ b' = [b EXCEPT ![s] = 0]
    BY <1>0, <2>1
  <2> QED  BY <2>1, <2>2 DEF Abstract!Next, Abstract!GiveUp, AbsPhase, AbsRetries
<1>5. CASE st[s].pending = "none" /\ st'[s].pending = "none" /\ s \notin dropped'
  <2>1. a'[s] = "idle" /\ b'[s] = b[s] /\ a[s] \in {"idle", "dropped"}
    BY <1>5 DEF AbsPhase, AbsRetries
  <2>2. a' = [a EXCEPT ![s] = "idle"] /\ b' = b
    BY <1>0, <2>1
  <2>3. CASE a[s] = "dropped"
    BY <2>2, <2>3 DEF Abstract!Next, Abstract!Admit, AbsPhase, AbsRetries
  <2>4. CASE a[s] = "idle"
    <3>1. a' = a
      BY <1>0, <2>2, <2>4
    <3> QED  BY <2>2, <3>1
  <2> QED  BY <2>1, <2>3, <2>4
<1>6. CASE /\ st'[s].pending = st[s].pending /\ st'[s].retries = st[s].retries
           /\ s \in dropped' <=> s \in dropped
  <2>1. a'[s] = a[s] /\ b'[s] = b[s]
    BY <1>6 DEF AbsPhase, AbsRetries
  <2>2. a' = a /\ b' = b
    BY <1>0, <2>1
  <2> QED  BY <2>2
<1> QED  BY <1>1, <1>2, <1>3, <1>4, <1>5, <1>6

\* What arm_eapol_timer does to the fields the abstract timer sees.
LEMMA ArmFields ==
  ASSUME TypeOK, NEW s \in Sta, NEW r \in Timer, Arm(s, r)
  PROVE  /\ st'[s].pending = r.pending /\ st'[s].retries = r.retries
         /\ \A t \in Sta \ {s} : st'[t] = st[t]
<1>1. st' = [st EXCEPT ![s] = [r EXCEPT !.gen = @ + 1]] /\ st \in [Sta -> Timer]
  BY DEF Arm, TypeOK
<1> QED  BY <1>1

\* Every step of the heap is a step of the abstract timer or leaves it alone.
LEMMA StepRefines ==
  ASSUME Inv, Inv', [Next]_vars
  PROVE  [Abstract!Next]_<<AbsPhase, AbsRetries>>
<1>0. TypeOK /\ TypeOK' /\ st \in [Sta -> Timer] /\ \A s \in Sta : st[s] \in Timer
  BY DEF Inv, TypeOK
<1>d. \A s \in Sta : st[s].known => s \notin dropped
  BY DEF Inv, DroppedIsGone
<1>k. \A s \in Sta : st[s].pending # "none" => st[s].known
  BY DEF Inv, ArmedIsKnown
<1>1. CASE Elapse
  <2>1. ASSUME NEW t \in Sta
        PROVE  st'[t].pending = st[t].pending /\ st'[t].retries = st[t].retries
    BY <1>0, <1>1 DEF Elapse
  <2>2. AbsPhase' = AbsPhase /\ AbsRetries' = AbsRetries
    BY <1>1, <2>1 DEF Elapse, AbsPhase, AbsRetries
  <2> QED  BY <2>2
<1>2. ASSUME NEW e \in heap, PopStale(e) PROVE [Abstract!Next]_<<AbsPhase, AbsRetries>>
  BY <1>2 DEF PopStale, AbsPhase, AbsRetries
<1>3. ASSUME NEW e \in heap, PopRetry(e) PROVE [Abstract!Next]_<<AbsPhase, AbsRetries>>
  <2>1. e.sta \in Sta /\ dropped' = dropped
    BY <1>0, <1>3 DEF TypeOK, PopRetry
  <2>2. st'[e.sta] = Repeated(st[e.sta]) /\ \A t \in Sta \ {e.sta} : st'[t] = st[t]
    BY <1>0, <1>3, <2>1 DEF PopRetry
  <2>3. /\ st[e.sta].pending # "none" /\ st'[e.sta].pending # "none"
        /\ st[e.sta].retries < MaxRetries /\ st'[e.sta].retries = st[e.sta].retries + 1
    BY <1>0, <1>3, <2>1, <2>2, UpdateFields DEF PopRetry, Counts
  <2> QED  BY <2>1, <2>2, <2>3, OneRecord
<1>4. ASSUME NEW e \in heap, PopGiveUp(e) PROVE [Abstract!Next]_<<AbsPhase, AbsRetries>>
  <2>1. e.sta \in Sta /\ dropped' = dropped \cup {e.sta}
    BY <1>0, <1>4 DEF TypeOK, PopGiveUp, Drop
  <2>2. st'[e.sta].pending = "none" /\ \A t \in Sta \ {e.sta} : st'[t] = st[t]
    BY <1>0, <1>4, <2>1 DEF PopGiveUp, Drop
  <2>3. st[e.sta].pending # "none" /\ st[e.sta].retries = MaxRetries
    BY <1>0, <1>4, <2>1, TimerBounds DEF PopGiveUp, Counts
  <2> QED  BY <2>1, <2>2, <2>3, OneRecord
<1>5. ASSUME NEW s \in Sta, Create(s) PROVE [Abstract!Next]_<<AbsPhase, AbsRetries>>
  <2>1. /\ st[s].pending = "none" /\ st'[s].pending = "none" /\ dropped' = dropped \ {s}
        /\ \A t \in Sta \ {s} : st'[t] = st[t]
    BY <1>0, <1>5, <1>k DEF Create
  <2> QED  BY <2>1, OneRecord
<1>6. ASSUME NEW s \in Sta, NEW k \in Kind \ {"none"}, SendEapol(s, k)
      PROVE  [Abstract!Next]_<<AbsPhase, AbsRetries>>
  <2> DEFINE r == Restarted(st[s], k)
  <2>1. r \in Timer
    BY <1>0, UpdateTypes
  <2>2. r.pending = k /\ r.retries = 0
    BY <1>0 DEF Restarted
  <2>3. Arm(s, r) /\ st[s].known /\ dropped' = dropped
    BY <1>6 DEF SendEapol
  <2> HIDE DEF r
  <2>4. /\ st'[s].pending # "none" /\ st'[s].retries = 0
        /\ \A t \in Sta \ {s} : st'[t] = st[t]
    BY <1>0, <2>1, <2>2, <2>3, ArmFields
  <2> QED  BY <1>d, <2>3, <2>4, OneRecord
<1>7. ASSUME NEW s \in Sta, ClearPending(s) PROVE [Abstract!Next]_<<AbsPhase, AbsRetries>>
  <2>1. /\ st[s].known /\ st'[s].pending = "none" /\ dropped' = dropped
        /\ \A t \in Sta \ {s} : st'[t] = st[t]
    BY <1>0, <1>7 DEF ClearPending
  <2> QED  BY <1>d, <2>1, OneRecord
<1>8. ASSUME NEW s \in Sta, NoteAcked(s) PROVE [Abstract!Next]_<<AbsPhase, AbsRetries>>
  <2> DEFINE r == Stretched(st[s])
  <2>1. r \in Timer
    BY <1>0, UpdateTypes
  <2>2. r.pending = st[s].pending /\ r.retries = st[s].retries
    BY <1>0 DEF Stretched
  <2>3. (Arm(s, r) \/ Arm(s, st[s])) /\ dropped' = dropped
    BY <1>8 DEF NoteAcked
  <2> HIDE DEF r
  <2>4. /\ st'[s].pending = st[s].pending /\ st'[s].retries = st[s].retries
        /\ \A t \in Sta \ {s} : st'[t] = st[t]
    BY <1>0, <2>1, <2>2, <2>3, ArmFields
  <2> QED  BY <2>3, <2>4, OneRecord
<1>9. ASSUME NEW s \in Sta, NoteTransmitted(s) PROVE [Abstract!Next]_<<AbsPhase, AbsRetries>>
  <2> DEFINE r == Restarted(st[s], st[s].pending)
  <2>1. r \in Timer
    BY <1>0, UpdateTypes
  <2>2. r.retries = 0
    BY <1>0 DEF Restarted
  <2>3. Arm(s, r) /\ st[s].known /\ dropped' = dropped
    BY <1>9 DEF NoteTransmitted
  <2> HIDE DEF r
  <2>4. st'[s].retries = 0 /\ \A t \in Sta \ {s} : st'[t] = st[t]
    BY <1>0, <2>1, <2>2, <2>3, ArmFields
  <2> QED  BY <1>d, <2>3, <2>4, OneRecord
<1>10. ASSUME NEW s \in Sta, NoteNotAcked(s) PROVE [Abstract!Next]_<<AbsPhase, AbsRetries>>
  <2>1. /\ st[s].known /\ st'[s].pending = "none" /\ dropped' = dropped
        /\ \A t \in Sta \ {s} : st'[t] = st[t]
    BY <1>0, <1>10, UpdateFields DEF NoteNotAcked
  <2> QED  BY <1>d, <2>1, OneRecord
<1>11. ASSUME NEW s \in Sta, Remove(s) PROVE [Abstract!Next]_<<AbsPhase, AbsRetries>>
  <2>1. /\ st[s].known /\ st'[s].pending = "none" /\ dropped' = dropped
        /\ \A t \in Sta \ {s} : st'[t] = st[t]
    BY <1>0, <1>11 DEF Remove
  <2> QED  BY <1>d, <2>1, OneRecord
<1>12. CASE UNCHANGED vars
  BY <1>12 DEF vars, AbsPhase, AbsRetries
<1> QED
  BY <1>1, <1>2, <1>3, <1>4, <1>5, <1>6, <1>7, <1>8, <1>9, <1>10, <1>11, <1>12
  DEF Next, Pop

\* The deadline heap, with generations and entries that are never removed, is an
\* implementation of the retry timer that Authenticator relies on: at most
\* MAX_EAPOL_RETRIES repetitions of a frame, and no station dropped before they are
\* used up, for every number of stations, timeouts, records and generations.
THEOREM HeapImplementsRetryTimer == Spec => ImplementsRetryTimer
<1>1. Init => Abstract!Init
  <2> SUFFICES ASSUME Init PROVE Abstract!Init
    OBVIOUS
  <2>1. \A s \in Sta : st[s].pending = "none" /\ s \notin dropped
    BY DEF Init
  <2>2. \A s \in Sta : (IF st[s].pending # "none" THEN "armed"
                        ELSE IF s \in dropped THEN "dropped" ELSE "idle") = "idle"
    BY <2>1
  <2>3. [s \in Sta |-> IF st[s].pending # "none" THEN "armed"
                       ELSE IF s \in dropped THEN "dropped" ELSE "idle"]
          = [s \in Sta |-> "idle"]
    BY <2>2
  <2>4. [s \in Sta |-> IF st[s].pending # "none" THEN st[s].retries ELSE 0]
          = [s \in Sta |-> 0]
    BY <2>1
  <2> QED  BY <2>3, <2>4 DEF Abstract!Init
<1>2. Inv /\ Inv' /\ [Next]_vars => [Abstract!Next]_<<AbsPhase, AbsRetries>>
  BY StepRefines
<1> QED
  BY <1>1, <1>2, InvInvariant, PTL
  DEF Spec, ImplementsRetryTimer, Abstract!Spec, AbsPhase, AbsRetries

-----------------------------------------------------------------------------
(* No early expiry in the first record of an address *)

\* An address without a record has no entry, and while it is in its first record no
\* entry is of a later generation, nor is one of the current generation due before
\* the pending frame is.
OnTime(s) ==
  /\ lives[s] = 0 => ~st[s].known /\ \A e \in heap : e.sta # s
  /\ lives[s] = 1 /\ st[s].known =>
       \A e \in heap : e.sta = s =>
         /\ e.gen <= st[s].gen
         /\ e.gen = st[s].gen /\ st[s].pending # "none" => Left(st[s]) <= e.left

\* A step that adds no entry for s keeps its record on time when it leaves the
\* record alone, stops its timer or removes it.
LEMMA OnTimeKept ==
  ASSUME NEW s \in Sta, OnTime(s), lives'[s] = lives[s],
         \A e \in heap' : e.sta = s => e \in heap,
         \/ st'[s] = st[s]
         \/ ~st'[s].known
         \/ /\ st[s].known /\ st'[s].pending = "none"
            /\ \A e \in heap : e.sta = s /\ e.gen <= st[s].gen => e.gen <= st'[s].gen
  PROVE  OnTime(s)'
<1>1. CASE st'[s] = st[s]
  BY <1>1 DEF OnTime, Left, Timeout
<1>2. CASE ~st'[s].known
  BY <1>2 DEF OnTime
<1>3. CASE /\ st[s].known /\ st'[s].pending = "none"
           /\ \A e \in heap : e.sta = s /\ e.gen <= st[s].gen => e.gen <= st'[s].gen
  BY <1>3 DEF OnTime
<1> QED  BY <1>1, <1>2, <1>3

\* A new generation outdates the entries of the earlier ones, and its own entry is
\* due when the frame is.
LEMMA NextGeneration ==
  ASSUME TypeOK, NEW s \in Sta, OnTime(s), lives'[s] = lives[s], st[s].known,
         st'[s] \in Timer, st'[s].gen = st[s].gen + 1,
         \A e \in heap' : \/ e.sta = s => e \in heap
                          \/ e.gen = st'[s].gen /\ Left(st[s])' <= e.left
  PROVE  OnTime(s)'
<1>1. st[s] \in Timer /\ \A e \in heap : e.gen \in Nat
  BY DEF TypeOK
<1>2. ASSUME NEW e \in heap', e.sta = s, lives[s] = 1
      PROVE  /\ e.gen <= st'[s].gen
             /\ e.gen = st'[s].gen => Left(st[s])' <= e.left
  <2>1. CASE e \in heap
    <3>1. e.gen <= st[s].gen
      BY <1>2, <2>1 DEF OnTime
    <3>2. e.gen < st'[s].gen
      BY <1>1, <2>1, <3>1
    <3> QED  BY <1>1, <2>1, <3>2
  <2>2. CASE e.gen = st'[s].gen /\ Left(st[s])' <= e.left
    BY <2>2
  <2> QED  BY <1>2, <2>1, <2>2
<1> QED  BY <1>2 DEF OnTime

\* arm_eapol_timer.
LEMMA ArmOnTime ==
  ASSUME TypeOK, TypeOK', NEW s \in Sta, NEW r \in Timer, Arm(s, r), r.gen = st[s].gen,
         st[s].known, lives' = lives, \A t \in Sta : OnTime(t)
  PROVE  \A t \in Sta : OnTime(t)'
<1> DEFINE q == [r EXCEPT !.gen = @ + 1]
           d == [left |-> Left(r), gen |-> r.gen + 1, sta |-> s]
<1>1. st' = [st EXCEPT ![s] = q] /\ st \in [Sta -> Timer]
  BY DEF Arm, TypeOK
<1>2. \A e \in heap' : e \in heap \/ e = d
  BY DEF Arm
<1>3. ASSUME NEW t \in Sta, t # s PROVE OnTime(t)'
  <2>1. st'[t] = st[t]
    BY <1>1, <1>3
  <2>2. \A e \in heap' : e.sta = t => e \in heap
    BY <1>2, <1>3
  <2> QED  BY <2>1, <2>2, OnTimeKept
<1>4. OnTime(s)'
  <2>1. st'[s] = q /\ q.gen = st[s].gen + 1 /\ q \in Timer
    BY <1>1
  <2>2. d.gen = st[s].gen + 1 /\ d.left = Left(r) /\ Left(r) <= Left(r)
    BY LeftType
  <2>3. Left(st[s])' = Left(r)
    BY <2>1 DEF Left, Timeout
  <2> HIDE DEF q, d
  <2> QED  BY <1>2, <2>1, <2>2, <2>3, NextGeneration
<1> QED  BY <1>3, <1>4

\* The generations that the record updates leave.
LEMMA UpdateGenerations ==
  ASSUME NEW r \in Timer, NEW k \in Kind
  PROVE  /\ Restarted(r, k).gen = r.gen /\ Stretched(r).gen = r.gen
         /\ Cancelled(r).gen = r.gen + 1 /\ Repeated(r).gen = r.gen + 1
BY DEF Restarted, Stretched, Cancelled, Repeated

\* That first records are on time is inductive, relative to the types.
LEMMA OnTimeInductive ==
  ASSUME TypeOK, TypeOK', \A t \in Sta : OnTime(t), [Next]_vars
  PROVE  \A t \in Sta : OnTime(t)'
<1> USE TimerBounds
<1>0. st \in [Sta -> Timer] /\ heap \subseteq Entry /\ \A t \in Sta : st[t] \in Timer
  BY DEF TypeOK
<1>1. CASE Elapse
  <2> TAKE t \in Sta
  <2>1. st'[t] = [st[t] EXCEPT !.age = IF @ < Normal THEN @ + 1 ELSE @]
    BY <1>1 DEF Elapse
  <2>2. /\ st'[t].pending = st[t].pending /\ st'[t].known = st[t].known
        /\ st'[t].gen = st[t].gen /\ Timeout(st[t])' = Timeout(st[t])
        /\ st'[t].age = IF st[t].age < Normal THEN st[t].age + 1 ELSE st[t].age
    BY <1>0, <2>1 DEF Timeout
  <2>3. Left(st[t])' = IF Left(st[t]) > 0 THEN Left(st[t]) - 1 ELSE 0
    <3>1. Timeout(st[t]) \in 1..Normal
      BY <1>0, LeftType
    <3> QED  BY <1>0, <2>2, <3>1 DEF Left
  <2>4. ASSUME NEW d \in heap'
        PROVE  \E e \in heap : /\ d.sta = e.sta /\ d.gen = e.gen
                               /\ d.left = IF e.left > 0 THEN e.left - 1 ELSE 0
    <3>1. PICK e \in heap : d = [e EXCEPT !.left = IF @ > 0 THEN @ - 1 ELSE 0]
      BY <1>1 DEF Elapse
    <3> QED  BY <1>0, <3>1
  <2>5. \A a, b \in Nat : a <= b => (IF a > 0 THEN a - 1 ELSE 0) <= (IF b > 0 THEN b - 1 ELSE 0)
    OBVIOUS
  <2>6. Left(st[t]) \in Nat /\ \A e \in heap : e.left \in Nat
    BY <1>0, LeftType
  <2>7. lives' = lives
    BY <1>1 DEF Elapse
  <2> QED  BY <2>2, <2>3, <2>4, <2>5, <2>6, <2>7 DEF OnTime
<1>2. ASSUME NEW e \in heap, PopStale(e) PROVE \A t \in Sta : OnTime(t)'
  BY <1>2, OnTimeKept DEF PopStale
<1>3. ASSUME NEW e \in heap, PopRetry(e) PROVE \A t \in Sta : OnTime(t)'
  <2> DEFINE d == [left |-> Normal, gen |-> e.gen + 1, sta |-> e.sta]
  <2>0. e \in Entry /\ e.sta \in Sta /\ lives' = lives
    BY <1>0, <1>3 DEF PopRetry
  <2>1. \A c \in heap' : c \in heap \/ c = d
    BY <1>3 DEF PopRetry
  <2>2. ASSUME NEW t \in Sta, t # e.sta PROVE OnTime(t)'
    <3>1. st'[t] = st[t]
      BY <1>0, <1>3, <2>2 DEF PopRetry
    <3>2. \A c \in heap' : c.sta = t => c \in heap
      BY <2>1, <2>2
    <3> QED  BY <2>0, <3>1, <3>2, OnTimeKept
  <2>3. OnTime(e.sta)'
    <3>s. PICK s \in Sta : s = e.sta
      BY <2>0
    <3>1. st'[s] = Repeated(st[s]) /\ st[s].known /\ e.gen = st[s].gen
      BY <1>0, <1>3, <3>s DEF PopRetry, Counts
    <3>2. st'[s].gen = st[s].gen + 1 /\ st'[s] \in Timer
      BY <1>0, <3>1, UpdateGenerations DEF TypeOK
    <3>3. Left(st[s])' \in 0..Normal
      BY <3>2, LeftType DEF Left, Timeout
    <3>4. d.gen = st'[s].gen /\ Left(st[s])' <= d.left
      BY <3>1, <3>2, <3>3
    <3> HIDE DEF d
    <3>5. OnTime(s)'
      BY <2>0, <2>1, <3>1, <3>2, <3>4, NextGeneration
    <3>6. s = e.sta
      BY <3>s
    <3> QED  BY <3>5, <3>6, <2>0
  <2> QED  BY <2>0, <2>2, <2>3
<1>4. ASSUME NEW e \in heap, PopGiveUp(e) PROVE \A t \in Sta : OnTime(t)'
  <2> TAKE t \in Sta
  <2>1. st'[t] = st[t] \/ ~st'[t].known
    BY <1>0, <1>4 DEF PopGiveUp, Drop
  <2> QED  BY <1>4, <2>1, OnTimeKept DEF PopGiveUp, Drop
<1>5. ASSUME NEW s \in Sta, Create(s) PROVE \A t \in Sta : OnTime(t)'
  <2> TAKE t \in Sta
  <2>0. lives \in [Sta -> 0..MaxLives] /\ heap' = heap
    BY <1>5 DEF Create, TypeOK
  <2>1. CASE t # s
    <3>1. st'[t] = st[t] /\ lives'[t] = lives[t]
      BY <1>0, <1>5, <2>0, <2>1 DEF Create
    <3> QED  BY <2>0, <3>1, OnTimeKept
  <2>2. CASE t = s
    <3>1. lives'[s] = lives[s] + 1 /\ lives[s] \in Nat
      BY <1>5, <2>0 DEF Create
    <3>2. lives'[s] # 0 /\ (lives'[s] = 1 => lives[s] = 0)
      BY <3>1
    <3>3. lives[s] = 0 => \A e \in heap : e.sta # s
      BY DEF OnTime
    <3> QED  BY <2>0, <2>2, <3>2, <3>3 DEF OnTime
  <2> QED  BY <2>1, <2>2
<1>6. ASSUME NEW s \in Sta, NEW k \in Kind, SendEapol(s, k) \/ NoteTransmitted(s)
      PROVE  \A t \in Sta : OnTime(t)'
  <2>1. PICK j \in Kind : Arm(s, Restarted(st[s], j)) /\ st[s].known /\ lives' = lives
    BY <1>0, <1>6 DEF SendEapol, NoteTransmitted
  <2>2. Restarted(st[s], j) \in Timer /\ Restarted(st[s], j).gen = st[s].gen
    BY <1>0, UpdateTypes, UpdateGenerations
  <2> QED  BY <2>1, <2>2, ArmOnTime
<1>7. ASSUME NEW s \in Sta, ClearPending(s) PROVE \A t \in Sta : OnTime(t)'
  <2> TAKE t \in Sta
  <2>1. \/ st'[t] = st[t]
        \/ st[t].known /\ st'[t].pending = "none" /\ st'[t].gen = st[t].gen
    BY <1>0, <1>7 DEF ClearPending
  <2> QED  BY <1>7, <2>1, OnTimeKept DEF ClearPending
<1>8. ASSUME NEW s \in Sta, NoteAcked(s) PROVE \A t \in Sta : OnTime(t)'
  <2>1. /\ Arm(s, st[s]) \/ Arm(s, Stretched(st[s]))
        /\ st[s].known /\ lives' = lives
    BY <1>8 DEF NoteAcked
  <2>2. Stretched(st[s]) \in Timer /\ Stretched(st[s]).gen = st[s].gen
    BY <1>0, UpdateTypes, UpdateGenerations
  <2> QED  BY <1>0, <2>1, <2>2, ArmOnTime
<1>9. ASSUME NEW s \in Sta, NoteNotAcked(s) PROVE \A t \in Sta : OnTime(t)'
  <2> TAKE t \in Sta
  <2>1. \/ st'[t] = st[t]
        \/ st[t].known /\ st'[t].pending = "none" /\ st'[t].gen = st[t].gen + 1
    BY <1>0, <1>9, UpdateFields, UpdateGenerations DEF NoteNotAcked
  <2>2. \A e \in heap : e.gen <= st[t].gen => e.gen <= st[t].gen + 1
    BY <1>0
  <2> QED  BY <1>9, <2>1, <2>2, OnTimeKept DEF NoteNotAcked
<1>10. ASSUME NEW s \in Sta, Remove(s) PROVE \A t \in Sta : OnTime(t)'
  <2> TAKE t \in Sta
  <2>1. st'[t] = st[t] \/ ~st'[t].known
    BY <1>0, <1>10 DEF Remove
  <2> QED  BY <1>10, <2>1, OnTimeKept DEF Remove
<1>11. CASE UNCHANGED vars
  BY <1>11, OnTimeKept DEF vars
<1> QED
  BY <1>1, <1>2, <1>3, <1>4, <1>5, <1>6, <1>7, <1>8, <1>9, <1>10, <1>11 DEF Next, Pop

\* While an address is in its first Station record, no retransmission and no give-up
\* comes before the timeout of the frame that is pending, whatever entries the heap
\* still holds from superseded frames, ACK reports and cancellations.
THEOREM FirstRecordNeverEarly == Spec => []FirstRecordOnTime
<1> DEFINE Each == \A s \in Sta : OnTime(s)
<1>1. Init => Each
  BY DEF Init, OnTime
<1>2. Inv /\ Inv' /\ Each /\ [Next]_vars => Each'
  BY OnTimeInductive DEF Inv
<1>3. Inv /\ Each => FirstRecordOnTime
  <2> SUFFICES ASSUME Inv, Each, NEW e \in heap, e.left = 0, Counts(e), lives[e.sta] = 1
               PROVE  st[e.sta].age >= Timeout(st[e.sta])
    BY DEF FirstRecordOnTime
  <2>1. e.sta \in Sta /\ st[e.sta] \in Timer
    BY DEF Inv, TypeOK
  <2>2. Left(st[e.sta]) <= 0
    BY <2>1 DEF OnTime, Counts
  <2> QED  BY <2>1, <2>2, LeftType, TimerBounds DEF Left
<1>4. Spec => []Each
  BY <1>1, <1>2, InvInvariant, PTL DEF Spec
<1> QED  BY <1>3, <1>4, InvInvariant, PTL
=============================================================================
