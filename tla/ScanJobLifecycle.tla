------------------------- MODULE ScanJobLifecycle -------------------------
(***************************************************************************)
(* What the ScanJob table promises to the users of the queue, whatever     *)
(* backend runs the scans: the life of a row, one scan at a time, and the  *)
(* retry budget.  It knows nothing of polls, requests or failures; a queue *)
(* backend is shown to implement it by a refinement mapping that is the    *)
(* identity on the two columns it mentions.                                *)
(***************************************************************************)
EXTENDS Naturals

CONSTANTS
    Jobs,        \* the ids of the ScanJob rows
    MaxAttempts  \* column maxAttempts, 3 by default

VARIABLES
    status,   \* status[j]: column status, or "ABSENT" before the row is created
    attempts  \* attempts[j]: column attempts

lifecycleVars == <<status, attempts>>

Statuses == {"ABSENT", "QUEUED", "PROCESSING", "COMPLETED", "FAILED", "CANCELLED"}

LifecycleInit ==
    /\ status = [j \in Jobs |-> "ABSENT"]
    /\ attempts = [j \in Jobs |-> 0]

(***************************************************************************)
(* Row j moves from one status to another; every other row is untouched.   *)
(***************************************************************************)
Move(j, from, to) ==
    /\ status[j] = from
    /\ status' = [status EXCEPT ![j] = to]

Create(j) == Move(j, "ABSENT", "QUEUED") /\ UNCHANGED attempts

Cancel(j) == Move(j, "QUEUED", "CANCELLED") /\ UNCHANGED attempts

Start(j) ==
    /\ \A i \in Jobs : status[i] # "PROCESSING"
    /\ attempts[j] < MaxAttempts
    /\ Move(j, "QUEUED", "PROCESSING")
    /\ attempts' = [attempts EXCEPT ![j] = @ + 1]

Complete(j) == Move(j, "PROCESSING", "COMPLETED") /\ UNCHANGED attempts

RetryLater(j) ==
    /\ attempts[j] < MaxAttempts
    /\ Move(j, "PROCESSING", "QUEUED")
    /\ UNCHANGED attempts

Fail(j) ==
    /\ attempts[j] = MaxAttempts
    /\ Move(j, "PROCESSING", "FAILED")
    /\ UNCHANGED attempts

Replay(j) ==
    /\ Move(j, "FAILED", "QUEUED")
    /\ attempts' = [attempts EXCEPT ![j] = 0]

LifecycleNext ==
    \E j \in Jobs :
        \/ Create(j) \/ Cancel(j) \/ Start(j) \/ Complete(j)
        \/ RetryLater(j) \/ Fail(j) \/ Replay(j)

LifecycleSpec == LifecycleInit /\ [][LifecycleNext]_lifecycleVars

=============================================================================
