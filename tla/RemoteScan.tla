---------------------------- MODULE RemoteScan ----------------------------
(***************************************************************************)
(* What a queue whose scans run on other machines promises of a row that   *)
(* they are asked for once: it is started at most once, only after it was  *)
(* found QUEUED; COMPLETED comes after the report, of which an audit has   *)
(* one; FAILED comes from a scan that broke; a cancel is written only for  *)
(* a row that was QUEUED when it was asked for, but then at any later      *)
(* moment; and a scan that is stopped leaves its row LOST.  It knows       *)
(* nothing of requests, instances and failed calls.  Of a row that is      *)
(* asked for again it promises only what the reports of others rest on.    *)
(***************************************************************************)
EXTENDS Naturals

CONSTANTS
    Jobs,     \* the ids of the ScanJob rows
    AuditOf,  \* AuditOf[j]: the audit row j belongs to
    NoAudit   \* the audit of a row created without one

VARIABLES
    row,      \* row[j]: column status, "ABSENT" before the row is created, "LOST" when it says
              \* PROCESSING and nobody scans it, "REPEATED" once a second scan was asked for
    scan,     \* scan[j]: "none", "found", "running", "saved" (its report is) or "failing"
    asked,    \* rows that a cancel request has found QUEUED and not written yet
    reports   \* audits that own a report

remoteVars == <<row, scan, asked, reports>>

RemoteInit ==
    /\ row = [j \in Jobs |-> "ABSENT"]
    /\ scan = [j \in Jobs |-> "none"]
    /\ asked = {}
    /\ reports = {}

WithReport(j) == reports \cup ({AuditOf[j]} \ {NoAudit})

Create(j) ==
    /\ row[j] = "ABSENT"
    /\ row' = [row EXCEPT ![j] = "QUEUED"]
    /\ UNCHANGED <<scan, asked, reports>>

-----------------------------------------------------------------------------
(***************************************************************************)
(* Cancel requests                                                         *)
(***************************************************************************)
AskCancel(j) ==
    /\ row[j] = "QUEUED"
    /\ asked' = asked \cup {j}
    /\ UNCHANGED <<row, scan, reports>>

Cancel(j) ==
    /\ j \in asked
    /\ row' = [row EXCEPT ![j] = "CANCELLED"]
    /\ asked' \in {asked, asked \ {j}}
    /\ UNCHANGED <<scan, reports>>

ForgetCancels ==
    /\ asked' \in SUBSET asked
    /\ UNCHANGED <<row, scan, reports>>

-----------------------------------------------------------------------------
(***************************************************************************)
(* The scan of a row                                                       *)
(***************************************************************************)
Find(j) ==
    /\ row[j] = "QUEUED"
    /\ scan[j] = "none"
    /\ scan' = [scan EXCEPT ![j] = "found"]
    /\ UNCHANGED <<row, asked, reports>>

(* a cancel may have come between *)
Start(j) ==
    /\ scan[j] = "found"
    /\ row[j] \in {"QUEUED", "CANCELLED"}
    /\ row' = [row EXCEPT ![j] = "PROCESSING"]
    /\ scan' = [scan EXCEPT ![j] = "running"]
    /\ UNCHANGED <<asked, reports>>

Save(j) ==
    /\ scan[j] = "running"
    /\ AuditOf[j] # NoAudit => AuditOf[j] \notin reports
    /\ scan' = [scan EXCEPT ![j] = "saved"]
    /\ reports' = WithReport(j)
    /\ UNCHANGED <<row, asked>>

(* before, after or in the middle of Save *)
Break(j) ==
    /\ scan[j] \in {"running", "saved"}
    /\ scan' = [scan EXCEPT ![j] = "failing"]
    /\ reports' \in {reports, WithReport(j)}
    /\ UNCHANGED <<row, asked>>

(* "failing": the write is taken for a failed one *)
Complete(j) ==
    /\ scan[j] = "saved"
    /\ row[j] \in {"PROCESSING", "CANCELLED"}
    /\ row' = [row EXCEPT ![j] = "COMPLETED"]
    /\ \E next \in {"none", "failing"} : scan' = [scan EXCEPT ![j] = next]
    /\ UNCHANGED <<asked, reports>>

Fail(j) ==
    /\ scan[j] = "failing"
    /\ row[j] \in {"PROCESSING", "CANCELLED", "COMPLETED"}
    /\ row' = [row EXCEPT ![j] = "FAILED"]
    /\ scan' = [scan EXCEPT ![j] = "none"]
    /\ UNCHANGED <<asked, reports>>

(* a machine ends, with all that it scans *)
Stop(S) ==
    /\ scan' = [j \in Jobs |-> IF j \in S THEN "none" ELSE scan[j]]
    /\ row' = [j \in Jobs |-> IF j \in S /\ row[j] = "PROCESSING" THEN "LOST" ELSE row[j]]
    /\ UNCHANGED <<asked, reports>>

(* the scan ends with the write that was to start it *)
StartInVain(j) ==
    /\ scan[j] = "found"
    /\ row[j] \in {"QUEUED", "CANCELLED"}
    /\ row' = [row EXCEPT ![j] = "LOST"]
    /\ scan' = [scan EXCEPT ![j] = "none"]
    /\ UNCHANGED <<asked, reports>>

-----------------------------------------------------------------------------
(***************************************************************************)
(* A second scan of the row is asked for: from now on only its report is   *)
(* of interest.                                                            *)
(***************************************************************************)
Repeat(j) ==
    /\ row[j] # "ABSENT"
    /\ row' = [row EXCEPT ![j] = "REPEATED"]
    /\ scan' = [scan EXCEPT ![j] = "none"]
    /\ asked' = asked \ {j}
    /\ UNCHANGED reports

SaveRepeated(j) ==
    /\ row[j] = "REPEATED"
    /\ reports' = WithReport(j)
    /\ UNCHANGED <<row, scan, asked>>

-----------------------------------------------------------------------------
RemoteNext ==
    \/ \E j \in Jobs :
        \/ Create(j) \/ AskCancel(j) \/ Cancel(j)
        \/ Find(j) \/ Start(j) \/ Save(j) \/ Break(j) \/ Complete(j) \/ Fail(j) \/ StartInVain(j)
        \/ Repeat(j) \/ SaveRepeated(j)
    \/ ForgetCancels
    \/ \E S \in SUBSET Jobs : Stop(S)

RemoteSpec == RemoteInit /\ [][RemoteNext]_remoteVars

=============================================================================
