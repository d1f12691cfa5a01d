----------------------------- MODULE EapolTimer ------------------------------
(***************************************************************************)
(* The deadline heap behind EAPOL retransmission (src/ap/lifecycle.rs).    *)
(* An entry is never removed when its frame is superseded: it is told from *)
(* a live one by the generation it carries, and the generation lives in    *)
(* the Station record, which dies with the session while the entry stays.  *)
(*                                                                         *)
(* Time runs in units of EAPOL_FIRST_TIMEOUT.  An entry holds the time left *)
(* to its deadline and age the time since eapol_tx, both saturating, so    *)
(* that time itself needs no bound.                                        *)
(***************************************************************************)
EXTENDS Naturals, FiniteSets

CONSTANTS Sta,         \* station addresses
          First,       \* EAPOL_FIRST_TIMEOUT
          Normal,      \* EAPOL_TIMEOUT
          MaxRetries,  \* MAX_EAPOL_RETRIES
          MaxGen,      \* bound on eapol_timer_generation (not on the retries)
          MaxLives     \* bound on the Station records one address goes through

ASSUME TimerBounds ==
  /\ First \in Nat \ {0} /\ Normal \in Nat /\ First <= Normal
  /\ MaxRetries \in Nat /\ MaxGen \in Nat /\ MaxLives \in Nat

VARIABLES
  st,      \* the timer fields of Ap.stations
  heap,    \* Ap.eapol_deadlines
  lives,   \* Station records created per address
  dropped  \* addresses deauthenticated with reason 15 and not admitted since

vars == <<st, heap, lives, dropped>>
-----------------------------------------------------------------------------
Kind == {"none", "m1", "m3", "g1"}   \* pending_eapol, None for "none"

Timer == [known : BOOLEAN, pending : Kind, age : 0..Normal, retries : 0..MaxRetries,
          acked : BOOLEAN, gen : Nat]

\* Station::new
NewTimer == [known |-> FALSE, pending |-> "none", age |-> 0, retries |-> 0,
             acked |-> FALSE, gen |-> 0]

Entry == [left : 0..Normal, gen : Nat, sta : Sta]

Init == /\ st = [s \in Sta |-> NewTimer]
        /\ heap = {}
        /\ lives = [s \in Sta |-> 0]
        /\ dropped = {}

Timeout(r) == IF r.retries = 0 /\ ~r.acked THEN First ELSE Normal

Left(r) == IF r.age < Timeout(r) THEN Timeout(r) - r.age ELSE 0

ArmOldGeneration(s, r) ==
  /\ r.gen < MaxGen
  /\ st' = [st EXCEPT ![s] = [r EXCEPT !.gen = @ + 1]]
  /\ heap' = IF r.pending = "none" THEN heap
             ELSE heap \cup {[left |-> Left(r), gen |-> r.gen, sta |-> s]}

\* arm_eapol_timer, for a record whose other fields are already updated
Arm(s, r) ==
  /\ r.gen < MaxGen
  /\ st' = [st EXCEPT ![s] = [r EXCEPT !.gen = @ + 1]]
  /\ heap' = IF r.pending = "none" THEN heap
             ELSE heap \cup {[left |-> Left(r), gen |-> r.gen + 1, sta |-> s]}
-----------------------------------------------------------------------------
(* Who arms and disarms *)

\* handle_auth_req creates the record
Create(s) ==
  /\ ~st[s].known /\ lives[s] < MaxLives
  /\ st' = [st EXCEPT ![s].known = TRUE]
  /\ lives' = [lives EXCEPT ![s] = @ + 1]
  /\ dropped' = dropped \ {s}
  /\ UNCHANGED heap

Restarted(r, k) == [r EXCEPT !.pending = k, !.age = 0, !.retries = 0, !.acked = FALSE]

\* Message 1, message 3 (sent, or repeated for an association request) and group
\* message 1 replace the pending frame.
SendEapol(s, k) ==
  /\ st[s].known
  /\ Arm(s, Restarted(st[s], k))
  /\ UNCHANGED <<lives, dropped>>

\* Message 4, group message 2 and a fresh authentication clear the frame and
\* leave generation and heap alone.
ClearPending(s) ==
  /\ st[s].known /\ st[s].pending # "none"
  /\ st' = [st EXCEPT ![s].pending = "none"]
  /\ UNCHANGED <<heap, lives, dropped>>

Stretched(r) == [r EXCEPT !.acked = TRUE, !.age = 0]

\* note_eapol_acked: re-armed whatever the ACK was for; the longer timeout is for
\* message 1, unless awaiting_m4 or group_rekeying is left over from before it.
NoteAcked(s) ==
  /\ st[s].known
  /\ \/ Arm(s, st[s])
     \/ /\ st[s].pending \notin {"m3", "g1"}
        /\ Arm(s, Stretched(st[s]))
  /\ UNCHANGED <<lives, dropped>>

\* note_eapol_transmitted
NoteTransmitted(s) ==
  /\ st[s].known
  /\ Arm(s, Restarted(st[s], st[s].pending))
  /\ UNCHANGED <<lives, dropped>>

Cancelled(r) == [r EXCEPT !.pending = "none", !.retries = 0, !.acked = FALSE, !.gen = @ + 1]

\* note_assoc_response_not_acked, with cancel_eapol_timer
NoteNotAcked(s) ==
  /\ st[s].known /\ st[s].gen < MaxGen
  /\ st' = [st EXCEPT ![s] = Cancelled(@)]
  /\ UNCHANGED <<heap, lives, dropped>>

\* disconnect
Remove(s) ==
  /\ st[s].known
  /\ st' = [st EXCEPT ![s] = NewTimer]
  /\ UNCHANGED <<heap, lives, dropped>>
-----------------------------------------------------------------------------
(* tick *)

AnyGeneration(e) == st[e.sta].known /\ st[e.sta].pending # "none"

\* An entry counts when its generation is the current one and a frame is armed.
Counts(e) == /\ st[e.sta].known /\ st[e.sta].gen = e.gen
             /\ st[e.sta].pending # "none"

Elapse ==
  /\ st' = [s \in Sta |-> [st[s] EXCEPT !.age = IF @ < Normal THEN @ + 1 ELSE @]]
  /\ heap' = {[e EXCEPT !.left = IF @ > 0 THEN @ - 1 ELSE 0] : e \in heap}
  /\ UNCHANGED <<lives, dropped>>

PopStale(e) ==
  /\ e.left = 0 /\ ~Counts(e)
  /\ heap' = heap \ {e}
  /\ UNCHANGED <<st, lives, dropped>>

Repeated(r) == [r EXCEPT !.age = 0, !.retries = @ + 1, !.acked = FALSE, !.gen = @ + 1]

RetryPastLimit(e) ==
  /\ e.left = 0 /\ Counts(e) /\ st[e.sta].retries <= MaxRetries
  /\ st' = [st EXCEPT ![e.sta] = Repeated(@)]
  /\ heap' = (heap \ {e}) \cup {[left |-> Normal, gen |-> e.gen + 1, sta |-> e.sta]}
  /\ UNCHANGED <<lives, dropped>>

RetryUnscheduled(e) ==
  /\ e.left = 0 /\ Counts(e) /\ st[e.sta].retries < MaxRetries
  /\ st' = [st EXCEPT ![e.sta] = Repeated(@)]
  /\ heap' = heap \ {e}
  /\ UNCHANGED <<lives, dropped>>

PopRetry(e) ==
  /\ e.left = 0 /\ Counts(e) /\ st[e.sta].retries < MaxRetries
  /\ st' = [st EXCEPT ![e.sta] = Repeated(@)]
  /\ heap' = (heap \ {e}) \cup {[left |-> Normal, gen |-> e.gen + 1, sta |-> e.sta]}
  /\ UNCHANGED <<lives, dropped>>

\* An entry is popped and its station disconnected with reason 15.
Drop(e) ==
  /\ heap' = heap \ {e}
  /\ st' = [st EXCEPT ![e.sta] = NewTimer]
  /\ dropped' = dropped \cup {e.sta}
  /\ UNCHANGED lives

GiveUpEarly(e) ==
  e.left = 0 /\ Counts(e) /\ st[e.sta].retries + 1 >= MaxRetries /\ Drop(e)

PopGiveUp(e) ==
  e.left = 0 /\ Counts(e) /\ st[e.sta].retries >= MaxRetries /\ Drop(e)

Pop == \E e \in heap : PopStale(e) \/ PopRetry(e) \/ PopGiveUp(e)

Next == \/ Elapse
        \/ Pop
        \/ \E s \in Sta : \/ Create(s)
                          \/ \E k \in Kind \ {"none"} : SendEapol(s, k)
                          \/ ClearPending(s)
                          \/ NoteAcked(s)
                          \/ NoteTransmitted(s)
                          \/ NoteNotAcked(s)
                          \/ Remove(s)

Spec == Init /\ [][Next]_vars

\* Clocks advance, and the transport calls tick again and again, which pops until
\* no entry is due.
FairSpec == Spec /\ WF_vars(Elapse) /\ WF_vars(Pop)
-----------------------------------------------------------------------------
\* Every variable keeps its type; in particular a frame is never repeated more than
\* MAX_EAPOL_RETRIES times.
TypeOK == /\ st \in [Sta -> Timer]
          /\ heap \subseteq Entry
          /\ lives \in [Sta -> 0..MaxLives]
          /\ dropped \subseteq Sta

\* Every armed frame has its own entry in the heap, due when its timeout is over,
\* whatever mixture of sends, ACK reports, cancellations and removals came before:
\* no handshake is ever left without a timer (arm_eapol_timer).
ArmedIsScheduled ==
  \A s \in Sta : st[s].pending # "none" =>
    \E e \in heap : e.sta = s /\ e.gen = st[s].gen /\ e.left <= Left(st[s])

\* A retransmission or a give-up happens only when the timeout of the frame that
\* is pending has elapsed.  Ap.eapol_deadlines: "Stale entries are invalidated by
\* the station's generation counter".  Does not hold: a new Station record counts
\* its generations from 0 again (README, section 4).
NoEarlyExpiry ==
  \A e \in heap : e.left = 0 /\ Counts(e) => st[e.sta].age >= Timeout(st[e.sta])

\* The same while an address is in its first Station record: entries outlive the
\* frame, the ACK report and the cancellation they were pushed for, and none of
\* them ever counts against a later frame of the record (arm_eapol_timer).
FirstRecordOnTime ==
  \A e \in heap : e.left = 0 /\ Counts(e) /\ lives[e.sta] = 1
                    => st[e.sta].age >= Timeout(st[e.sta])

Abstract == INSTANCE RetryTimer WITH
  phase   <- [s \in Sta |-> IF st[s].pending # "none" THEN "armed"
                            ELSE IF s \in dropped THEN "dropped" ELSE "idle"],
  retries <- [s \in Sta |-> IF st[s].pending # "none" THEN st[s].retries ELSE 0]

\* The heap implements the abstract retry timer (tick): whatever stale entries it
\* holds, of this record or an earlier one, a frame is repeated at most
\* MAX_EAPOL_RETRIES times, one at a time, and the timer drops a station only when
\* the frame now pending has been repeated that often.
ImplementsRetryTimer == Abstract!Spec

\* The exchange of s starts over or its ACK moves the deadline.
Rearmed(s) == st'[s].pending # "none" /\ st'[s].age < st[s].age
                 /\ st'[s].retries <= st[s].retries

\* Unless its deadline is moved for ever, an armed frame is settled or given up.
EventuallySettled ==
  \A s \in Sta : <>[][~Rearmed(s)]_vars
    => (st[s].pending # "none" ~> st[s].pending = "none")
=============================================================================
