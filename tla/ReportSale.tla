----------------------------- MODULE ReportSale -----------------------------
(***************************************************************************)
(* What the sale of full reports promises, whatever requests, webhooks and *)
(* verify calls it is made of: an order that a client can pay, of one      *)
(* report and at one price, is paid or expires; a launch slot is sold to   *)
(* one client; the books follow the money; and only money opens a report.  *)
(* It knows nothing of counters, rows, retries or faults.                  *)
(***************************************************************************)
CONSTANTS
    Sales,    \* the orders there may be
    Reports,  \* the reports for sale
    Regular   \* the regular price, which is no launch slot

VARIABLES
    sale,    \* sale[s]: "none" until a client can pay it; then "open", "paid" or "expired"
    report,  \* report[s]: the report it is for
    deal,    \* deal[s]: the launch slot it is sold at, or Regular
    books,   \* books[s]: "open", "completed" or "expired"
    access   \* the reports that are unlocked

saleVars == <<sale, report, deal, books, access>>

SaleInit ==
    /\ \A s \in Sales : sale[s] = "none" /\ books[s] = "open"
    /\ access = {}

(* The order is put to the client, when it is perhaps too late to pay it. *)
Offer(s) ==
    /\ sale[s] = "none"
    /\ \E st \in {"open", "expired"} : sale' = [sale EXCEPT ![s] = st]
    /\ report'[s] \in Reports
    /\ deal'[s] # Regular => \A t \in Sales \ {s} : deal'[t] # deal'[s]
    /\ \A t \in Sales \ {s} : report'[t] = report[t] /\ deal'[t] = deal[t]
    /\ UNCHANGED <<books, access>>

Settle(s) ==
    /\ sale[s] = "open"
    /\ \E st \in {"paid", "expired"} : sale' = [sale EXCEPT ![s] = st]
    /\ UNCHANGED <<report, deal, books, access>>

(* The books, the access, or both *)
Fulfil(s) ==
    /\ sale[s] = "paid"
    /\ books' \in {books, [books EXCEPT ![s] = "completed"]}
    /\ access' \in {access, access \cup {report[s]}}
    /\ UNCHANGED <<sale, report, deal>>

WriteOff(s) ==
    /\ sale[s] = "expired"
    /\ books' = [books EXCEPT ![s] = "expired"]
    /\ UNCHANGED <<sale, report, deal, access>>

SaleNext == \E s \in Sales : Offer(s) \/ Settle(s) \/ Fulfil(s) \/ WriteOff(s)

SaleSpec == SaleInit /\ [][SaleNext]_saleVars

=============================================================================
