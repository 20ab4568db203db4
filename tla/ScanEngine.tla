----------------------------- MODULE ScanEngine -----------------------------
(***************************************************************************)
(* ScannerService and BrowserManagerService: scanWebsite races executeScan *)
(* against a timer.  All calls share one browser, a lock around its launch *)
(* and the fields of four analyzers (trackers, mixed content, transfers,   *)
(* technologies); the trackers stand for the four, which are all cleared,  *)
(* filled by the request listeners and read in the same way.               *)
(*                                                                         *)
(* executeScan is split at its awaits.  A call that has timed out is over  *)
(* for its caller, the executeScan it started is not.                      *)
(***************************************************************************)
EXTENDS Naturals, FiniteSets

CONSTANTS
    Scans,       \* calls of scanWebsite; each is made once
    Trackers,    \* keys of detectedTrackers (the name of a tracker and its domain)
    MaxBrowsers, \* BOUND on the browsers launched
    MaxFaults    \* BOUND on crashes of a browser, failed launches and failed calls

ASSUME EngineAssumption == MaxBrowsers \in Nat /\ MaxFaults \in Nat

NoBrowser == 0
Browsers == 1..MaxBrowsers

VARIABLES
    pc,           \* pc[s]: where executeScan is
    outcome,      \* outcome[s]: what the caller of scanWebsite has got
    retryCount,
    used,         \* used[s]: the browser its context is in
    browser,      \* the field of BrowserManagerService
    browserLock,
    live,         \* browsers that run
    launched,     \* the number of browsers launched so far
    consentGiven, \* consentGiven[s]
    detected,     \* the field detectedTrackers: "none", "before" or "after" consent
    truth,        \* truth[s][t]: how the page of s has loaded t so far
    result,       \* result[s]: whether what s took from detected was its "own", or not
    faults,
    lost,         \* lost[s]: browsers in which s met an error it took for a crash
    cause,        \* cause[s]: why executeScan threw
    company       \* calls that were in flight while another one was; the last three and
                  \* truth are history variables

browserVars == <<used, browser, browserLock, live, launched>>
findingVars == <<consentGiven, detected, truth, result>>
historyVars == <<lost, cause, company>>
vars == <<pc, outcome, retryCount, browserVars, findingVars, faults, historyVars>>

Seen == {"none", "after", "before"}
Listening == {"before", "clicking", "rest", "crashed", "failing", "cleanup"}  \* the page is open
InTry == {"before", "clicking", "rest"}

TypeOK ==
    /\ pc \in [Scans -> {"new", "ensure", "reinit", "launching", "context", "done"} \cup Listening]
    /\ outcome \in [Scans -> {"none", "pending", "result", "error", "timeout"}]
    /\ retryCount \in [Scans -> 0..1]
    /\ used \in [Scans -> Browsers \cup {NoBrowser}]
    /\ browser \in Browsers \cup {NoBrowser}
    /\ browserLock \in BOOLEAN
    /\ launched \in 0..MaxBrowsers /\ live \subseteq 1..launched
    /\ consentGiven \in [Scans -> BOOLEAN]
    /\ detected \in [Trackers -> Seen]
    /\ truth \in [Scans -> [Trackers -> Seen]]
    /\ result \in [Scans -> {"none", "own", "other"}]
    /\ cause \in [Scans -> {"none", "launch", "context", "page", "crash"}]
    /\ company \in SUBSET Scans
    /\ lost \in [Scans -> SUBSET (Browsers \cup {NoBrowser})]
    /\ faults \in Nat

Init ==
    /\ pc = [s \in Scans |-> "new"]
    /\ outcome = [s \in Scans |-> "none"]
    /\ retryCount = [s \in Scans |-> 0]
    /\ used = [s \in Scans |-> NoBrowser]
    /\ browser = NoBrowser
    /\ browserLock = FALSE
    /\ live = {}
    /\ launched = 0
    /\ consentGiven = [s \in Scans |-> FALSE]
    /\ detected = [t \in Trackers |-> "none"]
    /\ truth = [s \in Scans |-> [t \in Trackers |-> "none"]]
    /\ result = [s \in Scans |-> "none"]
    /\ faults = 0
    /\ lost = [s \in Scans |-> {}]
    /\ cause = [s \in Scans |-> "none"]
    /\ company = {}

Goto(s, p) == pc' = [pc EXCEPT ![s] = p]
Pending == {s \in Scans : outcome[s] = "pending"}
Fault == faults < MaxFaults /\ faults' = faults + 1

(* executeScan has thrown or returned; the caller that has not timed out gets it *)
Settle(s, o) == outcome' = [outcome EXCEPT ![s] = IF @ = "pending" THEN o ELSE @]

(* scanWebsite *)
Call(s) ==
    /\ pc[s] = "new"
    /\ Goto(s, "ensure")
    /\ outcome' = [outcome EXCEPT ![s] = "pending"]
    /\ company' = IF Pending = {} THEN company ELSE company \cup Pending \cup {s}
    /\ UNCHANGED <<retryCount, browserVars, findingVars, faults, lost, cause>>

(* Promise.race: the timer wins, and executeScan goes on *)
TimeOut(s) ==
    /\ outcome[s] = "pending"
    /\ outcome' = [outcome EXCEPT ![s] = "timeout"]
    /\ UNCHANGED <<pc, retryCount, browserVars, findingVars, faults, historyVars>>

-----------------------------------------------------------------------------
(***************************************************************************)
(* ensureBrowser and createContext                                         *)
(***************************************************************************)
Connected == browser \in live

UseBrowser(s) ==
    /\ pc[s] = "ensure" /\ ~browserLock
    /\ Connected
    /\ used' = [used EXCEPT ![s] = browser]
    /\ Goto(s, "context")
    /\ UNCHANGED <<outcome, retryCount, browser, browserLock, live, launched, findingVars,
                   faults, historyVars>>

(* the field holds a browser that has gone: closeBrowser is awaited *)
CloseDisconnected(s) ==
    /\ pc[s] = "ensure" /\ ~browserLock
    /\ browser # NoBrowser /\ ~Connected
    /\ Goto(s, "reinit")
    /\ UNCHANGED <<outcome, retryCount, browserVars, findingVars, faults, historyVars>>

(* Here the lock is not looked at again. *)
BeginLaunch(s) ==
    /\ \/ pc[s] = "ensure" /\ ~browserLock /\ browser = NoBrowser /\ UNCHANGED browser
       \/ pc[s] = "reinit" /\ browser' = NoBrowser
    /\ browserLock' = TRUE
    /\ Goto(s, "launching")
    /\ UNCHANGED <<outcome, retryCount, used, live, launched, findingVars, faults, historyVars>>

(* Faulty variant: the new browser is not kept in the field. *)
LaunchedUnkept(s) ==
    /\ pc[s] = "launching"
    /\ launched < MaxBrowsers
    /\ launched' = launched + 1
    /\ live' = live \cup {launched'}
    /\ used' = [used EXCEPT ![s] = launched']
    /\ browserLock' = FALSE
    /\ Goto(s, "context")
    /\ UNCHANGED <<outcome, retryCount, browser, findingVars, faults, historyVars>>

Launched(s) ==
    /\ pc[s] = "launching"
    /\ launched < MaxBrowsers
    /\ launched' = launched + 1
    /\ live' = live \cup {launched'}
    /\ browser' = launched'
    /\ used' = [used EXCEPT ![s] = launched']
    /\ browserLock' = FALSE
    /\ Goto(s, "context")
    /\ UNCHANGED <<outcome, retryCount, findingVars, faults, historyVars>>

Throw(s, why) ==
    /\ cause' = [cause EXCEPT ![s] = why]
    /\ Settle(s, "error")
    /\ UNCHANGED <<lost, company>>

(* Faulty variant: the lock is not released in a finally block. *)
LaunchFailsLocked(s) ==
    /\ pc[s] = "launching"
    /\ Fault
    /\ Throw(s, "launch")
    /\ Goto(s, "done")
    /\ UNCHANGED <<retryCount, browserVars, findingVars>>

LaunchFails(s) ==
    /\ pc[s] = "launching"
    /\ Fault
    /\ browserLock' = FALSE
    /\ Throw(s, "launch")
    /\ Goto(s, "done")
    /\ UNCHANGED <<retryCount, used, browser, live, launched, findingVars>>

(* a call of Playwright: in a dead browser it throws, in a live one it may *)
CallThrows(s) ==
    \/ used[s] \notin live /\ UNCHANGED faults
    \/ used[s] \in live /\ Fault

(* newContext or newPage, before the try block: whatever the error says, a crash
   included, nothing is retried *)
ContextFails(s) ==
    /\ pc[s] = "context"
    /\ CallThrows(s)
    /\ Throw(s, "context")
    /\ Goto(s, "done")
    /\ UNCHANGED <<retryCount, browserVars, findingVars>>

(* Faulty variant: the analyzers are not reset. *)
OpenPageUnreset(s) ==
    /\ pc[s] = "context"
    /\ used[s] \in live
    /\ consentGiven' = [consentGiven EXCEPT ![s] = FALSE]
    /\ truth' = [truth EXCEPT ![s] = [t \in Trackers |-> "none"]]
    /\ Goto(s, "before")
    /\ UNCHANGED <<outcome, retryCount, browserVars, detected, result, faults, historyVars>>

(* the page, the resets and page.on('request') *)
OpenPage(s) ==
    /\ pc[s] = "context"
    /\ used[s] \in live
    /\ detected' = [t \in Trackers |-> "none"]
    /\ consentGiven' = [consentGiven EXCEPT ![s] = FALSE]
    /\ truth' = [truth EXCEPT ![s] = [t \in Trackers |-> "none"]]
    /\ Goto(s, "before")
    /\ UNCHANGED <<outcome, retryCount, browserVars, result, faults, historyVars>>

-----------------------------------------------------------------------------
(***************************************************************************)
(* The page and its phases                                                 *)
(***************************************************************************)
(* analyzeRequest: the last word is "before" *)
Found(old, beforeConsent) ==
    IF beforeConsent THEN "before" ELSE IF old = "none" THEN "after" ELSE old

(* the page of s requests something of tracker t *)
PageRequest(s, t) ==
    /\ pc[s] \in Listening
    /\ used[s] \in live
    /\ detected' = [detected EXCEPT ![t] = Found(@, ~consentGiven[s])]
    /\ truth' = [truth EXCEPT ![s][t] = Found(@, ~consentGiven[s])]
    /\ UNCHANGED <<pc, outcome, retryCount, browserVars, consentGiven, result, faults, historyVars>>

(* goto, cookies, banner and policy are done; a banner with a button is clicked,
   and the flag is set before the click *)
GiveConsent(s) ==
    /\ pc[s] = "before"
    /\ used[s] \in live
    /\ Goto(s, "clicking")
    /\ consentGiven' = [consentGiven EXCEPT ![s] = TRUE]
    /\ UNCHANGED <<outcome, retryCount, browserVars, detected, truth, result, faults, historyVars>>

(* The trackers are read once, with or without consent; what comes later is lost. *)
GetDetectedTrackers(s) ==
    /\ pc[s] \in {"before", "clicking"}
    /\ used[s] \in live
    /\ result' = [result EXCEPT ![s] = IF detected = truth[s] THEN "own" ELSE "other"]
    /\ Goto(s, "rest")
    /\ UNCHANGED <<outcome, retryCount, browserVars, consentGiven, detected, truth, faults,
                   historyVars>>

(* security, headers, certificate, forms, policy, technologies, issues, score *)
Return(s) ==
    /\ pc[s] = "rest"
    /\ used[s] \in live
    /\ Goto(s, "cleanup")
    /\ UNCHANGED <<outcome, retryCount, browserVars, findingVars, faults, historyVars>>

(* the finally block: until the context is closed the listener is on *)
CloseContext(s) ==
    /\ pc[s] = "cleanup"
    /\ Goto(s, "done")
    /\ Settle(s, IF cause[s] = "none" THEN "result" ELSE "error")
    /\ truth' = [truth EXCEPT ![s] = [t \in Trackers |-> "none"]]
    /\ consentGiven' = [consentGiven EXCEPT ![s] = FALSE]
    /\ UNCHANGED <<retryCount, browserVars, detected, result, faults, historyVars>>

(* goto, cookies or page.content throws an error with none of the words of
   isBrowserCrashError in it *)
PageFails(s) ==
    /\ pc[s] \in InTry
    /\ CallThrows(s)
    /\ cause' = [cause EXCEPT ![s] = "page"]
    /\ Goto(s, "cleanup")
    /\ UNCHANGED <<outcome, retryCount, browserVars, findingVars, lost, company>>

-----------------------------------------------------------------------------
(***************************************************************************)
(* Crashes                                                                 *)
(***************************************************************************)
BrowserCrashes(b) ==
    /\ b \in live
    /\ Fault
    /\ live' = live \ {b}
    /\ UNCHANGED <<pc, outcome, retryCount, used, browser, browserLock, launched, findingVars,
                   historyVars>>

(* Faulty variant: the browser is not closed before the retry. *)
CatchCrashUnclosed(s) ==
    /\ pc[s] \in InTry
    /\ CallThrows(s)
    /\ lost' = [lost EXCEPT ![s] = @ \cup {used[s]}]
    /\ Goto(s, "failing")
    /\ UNCHANGED <<outcome, retryCount, browserVars, findingVars, cause, company>>

(* isBrowserCrashError goes by the words of the error, which a closed page or a
   protocol error of a browser that lives has as well; closeBrowser then closes
   whatever browser the field holds, dead or alive, the one of s or not. *)
CatchCrash(s) ==
    /\ pc[s] \in InTry
    /\ CallThrows(s)
    /\ lost' = [lost EXCEPT ![s] = @ \cup {used[s]}]
    /\ live' = live \ {browser}
    /\ Goto(s, IF browser = NoBrowser THEN "failing" ELSE "crashed")
    /\ UNCHANGED <<outcome, retryCount, used, browser, browserLock, launched, findingVars,
                   cause, company>>

BrowserClosed(s) ==
    /\ pc[s] = "crashed"
    /\ browser' = NoBrowser
    /\ Goto(s, "failing")
    /\ UNCHANGED <<outcome, retryCount, used, browserLock, live, launched, findingVars,
                   faults, historyVars>>

(* Once: the retry calls scanWebsite again, with a timer of its own; the one that
   counts for the caller is the first. *)
Retry(s) ==
    /\ pc[s] = "failing"
    /\ IF retryCount[s] < 1
       THEN /\ retryCount' = [retryCount EXCEPT ![s] = @ + 1]
            /\ Goto(s, "ensure")
            /\ UNCHANGED cause
       ELSE /\ cause' = [cause EXCEPT ![s] = "crash"]
            /\ Goto(s, "cleanup")
            /\ UNCHANGED retryCount
    /\ UNCHANGED <<outcome, browserVars, findingVars, faults, lost, company>>

-----------------------------------------------------------------------------
ExecuteScan(s) ==
    \/ UseBrowser(s) \/ CloseDisconnected(s) \/ BeginLaunch(s) \/ Launched(s) \/ LaunchFails(s)
    \/ ContextFails(s) \/ OpenPage(s) \/ GiveConsent(s) \/ GetDetectedTrackers(s) \/ Return(s)
    \/ CloseContext(s) \/ PageFails(s) \/ CatchCrash(s) \/ BrowserClosed(s) \/ Retry(s)

Next ==
    \/ \E s \in Scans : Call(s) \/ TimeOut(s) \/ ExecuteScan(s)
    \/ \E s \in Scans, t \in Trackers : PageRequest(s, t)
    \/ \E b \in Browsers : BrowserCrashes(b)

Spec == Init /\ [][Next]_vars

-----------------------------------------------------------------------------
(***************************************************************************)
(* Properties                                                              *)
(***************************************************************************)
TimedOut == {s \in Scans : outcome[s] = "timeout"}

(* A scan reports the trackers of its own page and no others, each as loaded
   before consent exactly when it was, if no other call was in flight together
   with it and none has timed out: it takes one call at a time, and no time-out,
   to make up for analyzers all calls share. *)
TrackersAreOwn ==
    \A s \in Scans :
        s \notin company /\ TimedOut = {} => result[s] # "other"

(* No browser runs that nobody can close any more, unless two calls overlapped,
   for their callers or behind their backs: ensureBrowser tests its lock before
   it awaits the end of a dead browser and sets it after. *)
NoBrowserIsLeaked ==
    company = {} /\ TimedOut = {} =>
        \A b \in live : b = browser \/ \E s \in Scans : used[s] = b /\ pc[s] \notin {"new", "done"}

(* "Retry once if browser crashed": a scan gives up over an error it takes for a
   crash only when it has met one in each of two browsers: a retry is never made in
   the browser it is to get away from, though that one may still run, others close
   and launch browsers meanwhile, and callers have timed out.  It is about what the
   try block covers: an error while the context is made ends the scan at once. *)
GivesUpAfterTwoBrowsers ==
    \A s \in Scans : cause[s] = "crash" => \E b, c \in lost[s] : b # c

(* The lock never outlives its holder: whatever fails, no scan spins for ever on a
   lock nobody is going to release, also not behind the back of its caller. *)
LockHasHolder == browserLock => \E s \in Scans : pc[s] = "launching"

=============================================================================
