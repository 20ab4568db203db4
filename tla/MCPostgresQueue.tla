-------------------------- MODULE MCPostgresQueue --------------------------
(* Instances of PostgresQueue small enough for TLC. *)
EXTENDS PostgresQueue, TLC

CONSTANTS j1, j2, j3, c1, a1

(* two jobs of one client that carry one auditRequestId *)
TwoJobsClient == [j \in Jobs |-> c1]
TwoJobsAudit == [j \in Jobs |-> a1]
(* the second job overtakes the first; a DTO may ask for a negative priority *)
TwoJobsPriority == (j1 :> -1) @@ (j2 :> 0)

SamePriority == [j \in Jobs |-> 0]

(* the invocations of processNextJob are interchangeable *)
PollSymmetry == Permutations(Polls)

(* so are the requests, and the jobs too when they agree on every constant *)
LifecycleSymmetry ==
    PollSymmetry \cup Permutations(Requests) \cup Permutations(Submitters)
                 \cup Permutations(Jobs)

=============================================================================
