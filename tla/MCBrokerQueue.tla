--------------------------- MODULE MCBrokerQueue ---------------------------
(* Instances of BrokerQueue small enough for TLC *)
EXTENDS BrokerQueue, TLC

CONSTANTS client

MCClientOf == [j \in Jobs |-> client]
MCPriorityOf == [j \in Jobs |-> 0]
MCAuditOf == [j \in Jobs |-> NoAudit]

=============================================================================
