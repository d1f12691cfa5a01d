----------------------------- MODULE RetryTimer ------------------------------
(***************************************************************************)
(* What the EAPOL retry timer promises the handshakes, and all that        *)
(* Authenticator assumes of it: a frame that is armed is repeated at most  *)
(* MaxRetries times, its station is dropped by the timer only after that,  *)
(* and a dropped station has no frame repeated until it is admitted again. *)
(***************************************************************************)
EXTENDS Naturals

CONSTANTS Sta, MaxRetries

VARIABLES
  phase,    \* "idle", "armed" or "dropped" (by the timer), per station
  retries   \* repetitions of the armed frame so far

Init == phase = [s \in Sta |-> "idle"] /\ retries = [s \in Sta |-> 0]

\* A dropped station authenticates again.
Admit(s) == /\ phase[s] = "dropped"
            /\ phase' = [phase EXCEPT ![s] = "idle"]
            /\ UNCHANGED retries

\* A frame is sent for the first time, in place of one that is armed or of none.
Arm(s) == /\ phase[s] # "dropped"
          /\ phase' = [phase EXCEPT ![s] = "armed"]
          /\ retries' = [retries EXCEPT ![s] = 0]

\* The frame is answered or withdrawn, or its session ends for another reason.
Settle(s) == /\ phase[s] = "armed"
             /\ phase' = [phase EXCEPT ![s] = "idle"]
             /\ retries' = [retries EXCEPT ![s] = 0]

Retry(s) == /\ phase[s] = "armed" /\ retries[s] < MaxRetries
            /\ retries' = [retries EXCEPT ![s] = @ + 1]
            /\ UNCHANGED phase

GiveUp(s) == /\ phase[s] = "armed" /\ retries[s] = MaxRetries
             /\ phase' = [phase EXCEPT ![s] = "dropped"]
             /\ retries' = [retries EXCEPT ![s] = 0]

Next == \E s \in Sta : Admit(s) \/ Arm(s) \/ Settle(s) \/ Retry(s) \/ GiveUp(s)

Spec == Init /\ [][Next]_<<phase, retries>>
=============================================================================
