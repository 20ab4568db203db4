-------------------------- MODULE MCCloudRunQueue --------------------------
(* Instances of CloudRunQueue small enough for TLC: two jobs of one client *)
(* and one audit, the second of higher priority.                           *)
EXTENDS CloudRunQueue, TLC

CONSTANTS j1, j2, a1, client

MCClientOf == [j \in Jobs |-> client]
MCPriorityOf == [j \in Jobs |-> IF j = j2 THEN 1 ELSE 0]
MCAuditOf == [j \in Jobs |-> a1]

WorkerSymmetry == Permutations(Workers) \cup Permutations(Executions)

=============================================================================
