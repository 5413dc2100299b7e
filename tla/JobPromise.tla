----------------------------- MODULE JobPromise -----------------------------
(***************************************************************************)
(* What the job table promises about a one-shot job, with no pod, tick,    *)
(* lease or settlement in it: services/jobs/queue.ts as its callers know   *)
(* it.  A job is handed out again and again while it is open, leaves only  *)
(* after its work was done, and is parked only when it was handed out      *)
(* MAX_ATTEMPTS times; parked, it does not come back to the queue.         *)
(* JobQueue implements this (Promise there).                               *)
(***************************************************************************)
EXTENDS Integers

CONSTANTS
    Task,        \* the jobs
    MaxAttempts  \* MAX_ATTEMPTS

VARIABLES
    state,     \* where each job is in its life
    attempts,  \* how often it was handed out, up to MaxAttempts
    worked     \* the jobs whose work was done at least once

vars == <<state, attempts, worked>>

Init ==
    /\ state = [j \in Task |-> "new"]
    /\ attempts = [j \in Task |-> 0]
    /\ worked = {}

Submit(j) ==
    /\ state[j] = "new"
    /\ state' = [state EXCEPT ![j] = "open"]
    /\ UNCHANGED <<attempts, worked>>

\* Open jobs are handed out together.
HandOut(S) ==
    /\ \A j \in S : state[j] = "open"
    /\ attempts' = [j \in Task |-> IF j \in S /\ attempts[j] < MaxAttempts
                                   THEN attempts[j] + 1 ELSE attempts[j]]
    /\ UNCHANGED <<state, worked>>

\* At least once: the work may be done again, even after the job has left.
Work(j) ==
    /\ state[j] # "new"
    /\ worked' = worked \cup {j}
    /\ UNCHANGED <<state, attempts>>

\* A job leaves the table, with its count, only when its work is done: from the
\* queue, or from where it was parked, if an attempt that was given up for
\* lost succeeds after all.
Leave(j) ==
    /\ state[j] \in {"open", "parked"}
    /\ j \in worked
    /\ state' = [state EXCEPT ![j] = "gone"]
    /\ attempts' = [attempts EXCEPT ![j] = 0]
    /\ UNCHANGED worked

Park(j) ==
    /\ state[j] = "open"
    /\ attempts[j] = MaxAttempts
    /\ state' = [state EXCEPT ![j] = "parked"]
    /\ UNCHANGED <<attempts, worked>>

Next ==
    \/ \E j \in Task : Submit(j) \/ Work(j) \/ Leave(j) \/ Park(j)
    \/ \E S \in SUBSET Task : HandOut(S)

Spec == Init /\ [][Next]_vars
=============================================================================
