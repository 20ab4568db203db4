-------------------------- MODULE ScanEngineProofs --------------------------
(***************************************************************************)
(* What scans in one process keep, for any number of calls of scanWebsite, *)
(* browsers, trackers and faults.                                          *)
(***************************************************************************)
EXTENDS ScanEngine, TLAPS

LEMMA InitTypeOK == Init => TypeOK
  <1> SUFFICES ASSUME Init
               PROVE  TypeOK
    OBVIOUS
  <1>1. /\ live \subseteq 1..launched /\ launched \in 0..MaxBrowsers
        /\ faults \in Nat /\ lost \in [Scans -> SUBSET (Browsers \cup {NoBrowser})]
    BY EngineAssumption DEF Init
  <1>2. truth \in [Scans -> [Trackers -> Seen]] /\ detected \in [Trackers -> Seen]
    BY DEF Init, Seen
  <1>3. /\ retryCount \in [Scans -> 0..1]
        /\ used \in [Scans -> Browsers \cup {NoBrowser}]
        /\ browser \in Browsers \cup {NoBrowser}
    BY DEF Init
  <1>4. QED
    BY <1>1, <1>2, <1>3 DEF Init, TypeOK

LEMMA NextTypeOK ==
  ASSUME TypeOK, [Next]_vars
  PROVE  TypeOK'
  <1> USE EngineAssumption DEF CallThrows, InTry, TypeOK, Seen, Listening, NoBrowser,
      Browsers, browserVars, findingVars, historyVars, Goto, Fault, Settle, Throw
  <1>1. CASE UNCHANGED vars
    BY <1>1 DEF vars
  <1>2. ASSUME NEW s \in Scans, Call(s)
        PROVE  TypeOK'
    BY <1>2 DEF Call, Pending
  <1>3. ASSUME NEW s \in Scans, TimeOut(s)
        PROVE  TypeOK'
    BY <1>3 DEF TimeOut
  <1>4. ASSUME NEW s \in Scans, UseBrowser(s)
        PROVE  TypeOK'
    BY <1>4 DEF UseBrowser
  <1>5. ASSUME NEW s \in Scans, CloseDisconnected(s)
        PROVE  TypeOK'
    BY <1>5 DEF CloseDisconnected
  <1>6. ASSUME NEW s \in Scans, BeginLaunch(s)
        PROVE  TypeOK'
    BY <1>6 DEF BeginLaunch
  <1>7. ASSUME NEW s \in Scans, Launched(s)
        PROVE  TypeOK'
    <2>1. launched' \in 1..MaxBrowsers /\ launched' \in 0..MaxBrowsers /\ launched' = launched + 1
      BY <1>7 DEF Launched
    <2>2. live' \subseteq 1..launched'
      BY <1>7, <2>1 DEF Launched
    <2>3. used' \in [Scans -> Browsers \cup {NoBrowser}] /\ browser' \in Browsers
      BY <1>7, <2>1 DEF Launched
    <2>4. pc' = [pc EXCEPT ![s] = "context"] /\ browserLock' = FALSE
      BY <1>7 DEF Launched
    <2>5. UNCHANGED <<outcome, retryCount, consentGiven, detected, truth, result, faults, lost,
                      cause, company>>
      BY <1>7 DEF Launched
    <2>6. pc' \in [Scans -> {"new", "ensure", "reinit", "launching", "context", "done"}
                             \cup Listening]
      BY <2>4
    <2>7. QED
      BY <2>1, <2>2, <2>3, <2>4, <2>5, <2>6
  <1>8. ASSUME NEW s \in Scans, LaunchFails(s)
        PROVE  TypeOK'
    <2>1. /\ outcome' \in [Scans -> {"none", "pending", "result", "error", "timeout"}]
          /\ cause' = [cause EXCEPT ![s] = "launch"] /\ pc' = [pc EXCEPT ![s] = "done"]
          /\ browserLock' = FALSE /\ faults' = faults + 1
      BY <1>8 DEF LaunchFails
    <2>2. UNCHANGED <<retryCount, used, browser, live, launched, consentGiven, detected, truth,
                      result, lost, company>>
      BY <1>8 DEF LaunchFails
    <2>3. pc' \in [Scans -> {"new", "ensure", "reinit", "launching", "context", "done"}
                             \cup Listening]
      BY <2>1
    <2>4. cause' \in [Scans -> {"none", "launch", "context", "page", "crash"}]
      BY <2>1
    <2>5. live' \subseteq 1..launched' /\ launched' \in 0..MaxBrowsers /\ faults' \in Nat
      BY <2>1, <2>2
    <2>6. QED
      BY <2>1, <2>2, <2>3, <2>4, <2>5
  <1>9. ASSUME NEW s \in Scans, ContextFails(s)
        PROVE  TypeOK'
    BY <1>9 DEF ContextFails
  <1>10. ASSUME NEW s \in Scans, OpenPage(s)
        PROVE  TypeOK'
    BY <1>10 DEF OpenPage
  <1>11. ASSUME NEW s \in Scans, GiveConsent(s)
        PROVE  TypeOK'
    BY <1>11 DEF GiveConsent
  <1>12. ASSUME NEW s \in Scans, GetDetectedTrackers(s)
        PROVE  TypeOK'
    BY <1>12 DEF GetDetectedTrackers
  <1>13. ASSUME NEW s \in Scans, Return(s)
        PROVE  TypeOK'
    BY <1>13 DEF Return
  <1>14. ASSUME NEW s \in Scans, CloseContext(s)
        PROVE  TypeOK'
    BY <1>14 DEF CloseContext
  <1>15. ASSUME NEW s \in Scans, PageFails(s)
        PROVE  TypeOK'
    BY <1>15 DEF PageFails
  <1>16. ASSUME NEW s \in Scans, CatchCrash(s)
        PROVE  TypeOK'
    <2>1. lost' \in [Scans -> SUBSET (Browsers \cup {NoBrowser})]
      BY <1>16 DEF CatchCrash
    <2>2. pc' \in [Scans -> {"new", "ensure", "reinit", "launching", "context", "done"}
                             \cup Listening]
      BY <1>16 DEF CatchCrash
    <2>3. live' \subseteq 1..launched' /\ faults' \in Nat
      BY <1>16 DEF CatchCrash
    <2>4. UNCHANGED <<outcome, retryCount, used, browser, browserLock, launched, findingVars, cause,
                      company>>
      BY <1>16 DEF CatchCrash
    <2>5. QED
      BY <2>1, <2>2, <2>3, <2>4
  <1>17. ASSUME NEW s \in Scans, BrowserClosed(s)
        PROVE  TypeOK'
    BY <1>17 DEF BrowserClosed
  <1>18. ASSUME NEW s \in Scans, Retry(s)
        PROVE  TypeOK'
    <2>1. CASE retryCount[s] < 1
      <3>1. retryCount' = [retryCount EXCEPT ![s] = @ + 1] /\ retryCount[s] + 1 \in 0..1
        BY <1>18, <2>1, SMTT(30) DEF Retry
      <3>2. QED
        BY <1>18, <2>1, <3>1 DEF Retry
    <2>2. CASE ~(retryCount[s] < 1)
      BY <1>18, <2>2 DEF Retry
    <2>3. QED
      BY <2>1, <2>2
  <1>19. ASSUME NEW s \in Scans, NEW t \in Trackers, PageRequest(s, t)
        PROVE  TypeOK'
    BY <1>19 DEF PageRequest, Found
  <1>20. ASSUME NEW b \in Browsers, BrowserCrashes(b)
        PROVE  TypeOK'
    BY <1>20 DEF BrowserCrashes
  <1> HIDE DEF TypeOK
  <1>21. QED
    BY <1>1, <1>2, <1>3, <1>4, <1>5, <1>6, <1>7, <1>8, <1>9, <1>10, <1>11, <1>12, <1>13, <1>14,
       <1>15, <1>16, <1>17, <1>18, <1>19, <1>20
    DEF Next, ExecuteScan

(***************************************************************************)
(* Every reachable state is well typed.                                    *)
(***************************************************************************)
THEOREM TypeCorrect == Spec => []TypeOK
  BY InitTypeOK, NextTypeOK, PTL DEF Spec

-----------------------------------------------------------------------------
(***************************************************************************)
(* The lock.  Whoever leaves the launch takes the lock down.               *)
(***************************************************************************)
LEMMA LockStep ==
  ASSUME TypeOK, LockHasHolder, [Next]_vars
  PROVE  LockHasHolder'
  <1> USE EngineAssumption DEF CallThrows, InTry, TypeOK, LockHasHolder, browserVars,
      findingVars, historyVars, Goto, Fault, Settle, Throw
  <1>1. CASE UNCHANGED vars
    BY <1>1 DEF vars
  <1>2. ASSUME NEW s \in Scans, Call(s) \/ TimeOut(s)
        PROVE  LockHasHolder'
    BY <1>2 DEF Call, TimeOut
  <1>3. ASSUME NEW s \in Scans, UseBrowser(s) \/ CloseDisconnected(s)
        PROVE  LockHasHolder'
    BY <1>3 DEF UseBrowser, CloseDisconnected
  <1>4. ASSUME NEW s \in Scans, BeginLaunch(s)
        PROVE  LockHasHolder'
    BY <1>4 DEF BeginLaunch
  <1>5. ASSUME NEW s \in Scans, Launched(s) \/ LaunchFails(s)
        PROVE  LockHasHolder'
    BY <1>5 DEF Launched, LaunchFails
  <1>6. ASSUME NEW s \in Scans, ContextFails(s) \/ OpenPage(s)
        PROVE  LockHasHolder'
    BY <1>6 DEF ContextFails, OpenPage
  <1>7. ASSUME NEW s \in Scans, GiveConsent(s) \/ GetDetectedTrackers(s)
        PROVE  LockHasHolder'
    BY <1>7 DEF GiveConsent, GetDetectedTrackers
  <1>8. ASSUME NEW s \in Scans, Return(s) \/ CloseContext(s)
        PROVE  LockHasHolder'
    BY <1>8 DEF Return, CloseContext
  <1>9. ASSUME NEW s \in Scans, PageFails(s)
        PROVE  LockHasHolder'
    BY <1>9 DEF PageFails
  <1>10. ASSUME NEW s \in Scans, CatchCrash(s) \/ BrowserClosed(s)
        PROVE  LockHasHolder'
    BY <1>10 DEF CatchCrash, BrowserClosed
  <1>11. ASSUME NEW s \in Scans, Retry(s)
        PROVE  LockHasHolder'
    BY <1>11 DEF Retry
  <1>12. ASSUME NEW s \in Scans, NEW t \in Trackers, PageRequest(s, t)
        PROVE  LockHasHolder'
    BY <1>12 DEF PageRequest
  <1>13. ASSUME NEW b \in Browsers, BrowserCrashes(b)
        PROVE  LockHasHolder'
    BY <1>13 DEF BrowserCrashes
  <1> HIDE DEF TypeOK, LockHasHolder
  <1>14. QED
    BY <1>1, <1>2, <1>3, <1>4, <1>5, <1>6, <1>7, <1>8, <1>9, <1>10, <1>11, <1>12, <1>13
    DEF Next, ExecuteScan

(***************************************************************************)
(* No scan waits for a lock that nobody is going to release, whatever      *)
(* fails, times out or overlaps.                                           *)
(***************************************************************************)
THEOREM LockAlwaysHasHolder == Spec => []LockHasHolder
  <1>1. Init => LockHasHolder
    BY DEF Init, LockHasHolder
  <1>2. QED
    BY <1>1, LockStep, TypeCorrect, PTL DEF Spec

-----------------------------------------------------------------------------
(***************************************************************************)
(* Company.  A scan goes on only while its caller waits or has been timed  *)
(* out, so that until a time-out a scan that never had company is the only *)
(* one that goes on.                                                       *)
(***************************************************************************)
Active(s) == pc[s] \notin {"new", "done"}

AloneInv ==
    /\ \A s \in Scans : Active(s) => outcome[s] \in {"pending", "timeout"}
    /\ \A s \in Scans : pc[s] = "new" => outcome[s] = "none"
    /\ TimedOut = {} =>
          \A s, t \in Scans : Active(s) /\ Active(t) /\ s \notin company => s = t

LEMMA AloneStep ==
  ASSUME TypeOK, AloneInv, [Next]_vars
  PROVE  AloneInv'
  <1> USE EngineAssumption DEF CallThrows, InTry, TypeOK, AloneInv, Active, TimedOut,
      Listening, browserVars, findingVars, historyVars, Goto, Fault, Settle, Throw
  <1>1. CASE UNCHANGED vars
    BY <1>1 DEF vars
  <1>2. ASSUME NEW s \in Scans, Call(s)
        PROVE  AloneInv'
    BY <1>2 DEF Call, Pending
  <1>3. ASSUME NEW s \in Scans, TimeOut(s)
        PROVE  AloneInv'
    BY <1>3 DEF TimeOut
  <1>4. ASSUME NEW s \in Scans, UseBrowser(s)
        PROVE  AloneInv'
    BY <1>4 DEF UseBrowser
  <1>5. ASSUME NEW s \in Scans, CloseDisconnected(s)
        PROVE  AloneInv'
    BY <1>5 DEF CloseDisconnected
  <1>6. ASSUME NEW s \in Scans, BeginLaunch(s)
        PROVE  AloneInv'
    BY <1>6 DEF BeginLaunch
  <1>7. ASSUME NEW s \in Scans, Launched(s)
        PROVE  AloneInv'
    BY <1>7 DEF Launched
  <1>8. ASSUME NEW s \in Scans, LaunchFails(s)
        PROVE  AloneInv'
    BY <1>8 DEF LaunchFails
  <1>9. ASSUME NEW s \in Scans, ContextFails(s)
        PROVE  AloneInv'
    BY <1>9 DEF ContextFails
  <1>10. ASSUME NEW s \in Scans, OpenPage(s)
        PROVE  AloneInv'
    BY <1>10 DEF OpenPage
  <1>11. ASSUME NEW s \in Scans, GiveConsent(s)
        PROVE  AloneInv'
    BY <1>11 DEF GiveConsent
  <1>12. ASSUME NEW s \in Scans, GetDetectedTrackers(s)
        PROVE  AloneInv'
    BY <1>12 DEF GetDetectedTrackers
  <1>13. ASSUME NEW s \in Scans, Return(s)
        PROVE  AloneInv'
    BY <1>13 DEF Return
  <1>14. ASSUME NEW s \in Scans, CloseContext(s)
        PROVE  AloneInv'
    BY <1>14 DEF CloseContext
  <1>15. ASSUME NEW s \in Scans, PageFails(s)
        PROVE  AloneInv'
    BY <1>15 DEF PageFails
  <1>16. ASSUME NEW s \in Scans, CatchCrash(s)
        PROVE  AloneInv'
    BY <1>16 DEF CatchCrash
  <1>17. ASSUME NEW s \in Scans, BrowserClosed(s)
        PROVE  AloneInv'
    BY <1>17 DEF BrowserClosed
  <1>18. ASSUME NEW s \in Scans, Retry(s)
        PROVE  AloneInv'
    <2>1. /\ Active(s) /\ UNCHANGED <<outcome, company>>
          /\ \E p \in {"ensure", "cleanup"} : pc' = [pc EXCEPT ![s] = p]
      BY <1>18 DEF Retry
    <2>2. \A r \in Scans : Active(r)' <=> Active(r)
      BY <2>1
    <2>3. \A r \in Scans : pc'[r] = "new" <=> pc[r] = "new"
      BY <2>1
    <2>4. QED
      BY <2>1, <2>2, <2>3
  <1>19. ASSUME NEW s \in Scans, NEW t \in Trackers, PageRequest(s, t)
        PROVE  AloneInv'
    BY <1>19 DEF PageRequest
  <1>20. ASSUME NEW b \in Browsers, BrowserCrashes(b)
        PROVE  AloneInv'
    BY <1>20 DEF BrowserCrashes
  <1> HIDE DEF TypeOK, AloneInv
  <1>21. QED
    BY <1>1, <1>2, <1>3, <1>4, <1>5, <1>6, <1>7, <1>8, <1>9, <1>10, <1>11, <1>12, <1>13, <1>14,
       <1>15, <1>16, <1>17, <1>18, <1>19, <1>20
    DEF Next, ExecuteScan

LEMMA AloneInvHolds == Spec => []AloneInv
  <1>1. Init => AloneInv
    BY DEF Init, AloneInv, Active, TimedOut
  <1>2. QED
    BY <1>1, AloneStep, TypeCorrect, PTL DEF Spec

-----------------------------------------------------------------------------
(***************************************************************************)
(* Trackers.  Until they are read, the shared trackers are those of the    *)
(* only scan that goes on.                                                 *)
(***************************************************************************)
OwnInv ==
    TimedOut = {} =>
        \A s \in Scans \ company :
            /\ pc[s] \in {"before", "clicking"} => detected = truth[s]
            /\ result[s] # "other"

LEMMA OwnStep ==
  ASSUME TypeOK, AloneInv, OwnInv, [Next]_vars
  PROVE  OwnInv'
  <1> USE EngineAssumption DEF CallThrows, InTry, TypeOK, AloneInv, OwnInv, Active,
      TimedOut, Listening, browserVars, findingVars, historyVars, Goto, Fault, Settle, Throw
  <1>1. CASE UNCHANGED vars
    BY <1>1 DEF vars
  <1>2. ASSUME NEW s \in Scans, Call(s)
        PROVE  OwnInv'
    BY <1>2 DEF Call, Pending
  <1>3. ASSUME NEW s \in Scans, TimeOut(s)
        PROVE  OwnInv'
    BY <1>3 DEF TimeOut
  <1>4. ASSUME NEW s \in Scans, UseBrowser(s)
        PROVE  OwnInv'
    BY <1>4 DEF UseBrowser
  <1>5. ASSUME NEW s \in Scans, CloseDisconnected(s)
        PROVE  OwnInv'
    BY <1>5 DEF CloseDisconnected
  <1>6. ASSUME NEW s \in Scans, BeginLaunch(s)
        PROVE  OwnInv'
    BY <1>6 DEF BeginLaunch
  <1>7. ASSUME NEW s \in Scans, Launched(s)
        PROVE  OwnInv'
    BY <1>7 DEF Launched
  <1>8. ASSUME NEW s \in Scans, LaunchFails(s)
        PROVE  OwnInv'
    BY <1>8 DEF LaunchFails
  <1>9. ASSUME NEW s \in Scans, ContextFails(s)
        PROVE  OwnInv'
    BY <1>9 DEF ContextFails
  <1>10. ASSUME NEW s \in Scans, OpenPage(s)
        PROVE  OwnInv'
    BY <1>10, SMTT(30) DEF OpenPage
  <1>11. ASSUME NEW s \in Scans, GiveConsent(s)
        PROVE  OwnInv'
    BY <1>11 DEF GiveConsent
  <1>12. ASSUME NEW s \in Scans, GetDetectedTrackers(s)
        PROVE  OwnInv'
    BY <1>12 DEF GetDetectedTrackers
  <1>13. ASSUME NEW s \in Scans, Return(s)
        PROVE  OwnInv'
    BY <1>13 DEF Return
  <1>14. ASSUME NEW s \in Scans, CloseContext(s)
        PROVE  OwnInv'
    BY <1>14 DEF CloseContext
  <1>15. ASSUME NEW s \in Scans, PageFails(s)
        PROVE  OwnInv'
    BY <1>15 DEF PageFails
  <1>16. ASSUME NEW s \in Scans, CatchCrash(s)
        PROVE  OwnInv'
    BY <1>16 DEF CatchCrash
  <1>17. ASSUME NEW s \in Scans, BrowserClosed(s)
        PROVE  OwnInv'
    BY <1>17 DEF BrowserClosed
  <1>18. ASSUME NEW s \in Scans, Retry(s)
        PROVE  OwnInv'
    BY <1>18 DEF Retry
  <1>19. ASSUME NEW s \in Scans, NEW t \in Trackers, PageRequest(s, t)
        PROVE  OwnInv'
    <2>1. UNCHANGED <<pc, outcome, company, result>> /\ Active(s)
      BY <1>19 DEF PageRequest
    <2> SUFFICES ASSUME TimedOut = {}, NEW r \in Scans \ company,
                        pc[r] \in {"before", "clicking"}
                 PROVE  detected' = truth'[r]
      BY <2>1
    <2>2. r = s /\ detected = truth[s]
      BY <2>1
    <2>3. /\ detected' = [detected EXCEPT ![t] = Found(detected[t], ~consentGiven[s])]
          /\ truth'[s] = [truth[s] EXCEPT ![t] = Found(truth[s][t], ~consentGiven[s])]
      BY <1>19 DEF PageRequest
    <2>4. QED
      BY <2>2, <2>3
  <1>20. ASSUME NEW b \in Browsers, BrowserCrashes(b)
        PROVE  OwnInv'
    BY <1>20 DEF BrowserCrashes
  <1> HIDE DEF TypeOK, OwnInv
  <1>21. QED
    BY <1>1, <1>2, <1>3, <1>4, <1>5, <1>6, <1>7, <1>8, <1>9, <1>10, <1>11, <1>12, <1>13, <1>14,
       <1>15, <1>16, <1>17, <1>18, <1>19, <1>20
    DEF Next, ExecuteScan

(***************************************************************************)
(* A scan that has the process to itself reports the trackers of its own   *)
(* page, through crashes, retries and page errors.                         *)
(***************************************************************************)
THEOREM TrackersAreAlwaysOwn == Spec => []TrackersAreOwn
  <1>1. Init => OwnInv
    BY DEF Init, OwnInv
  <1>2. OwnInv => TrackersAreOwn
    BY DEF OwnInv, TrackersAreOwn
  <1>3. QED
    BY <1>1, <1>2, OwnStep, AloneInvHolds, TypeCorrect, PTL DEF Spec

-----------------------------------------------------------------------------
(***************************************************************************)
(* Browsers.  Without company no browser runs but the one of the field,    *)
(* and none runs when it is being replaced.                                *)
(***************************************************************************)
BrowserInv ==
    company = {} /\ TimedOut = {} =>
        /\ live \subseteq {browser}
        /\ \A s \in Scans :
              /\ pc[s] \in {"reinit", "crashed"} => browser \notin live
              /\ pc[s] = "launching" => live = {}

LEMMA BrowserStep ==
  ASSUME TypeOK, AloneInv, BrowserInv, [Next]_vars
  PROVE  BrowserInv'
  <1> USE EngineAssumption DEF CallThrows, InTry, TypeOK, AloneInv, BrowserInv, Active,
      TimedOut, Listening, Connected, NoBrowser, Browsers, browserVars, findingVars,
      historyVars, Goto, Fault, Settle, Throw
  <1>1. CASE UNCHANGED vars
    BY <1>1 DEF vars
  <1>2. ASSUME NEW s \in Scans, Call(s)
        PROVE  BrowserInv'
    BY <1>2 DEF Call, Pending
  <1>3. ASSUME NEW s \in Scans, TimeOut(s)
        PROVE  BrowserInv'
    BY <1>3 DEF TimeOut
  <1>4. ASSUME NEW s \in Scans, UseBrowser(s)
        PROVE  BrowserInv'
    BY <1>4 DEF UseBrowser
  <1>5. ASSUME NEW s \in Scans, CloseDisconnected(s)
        PROVE  BrowserInv'
    BY <1>5 DEF CloseDisconnected
  <1>6. ASSUME NEW s \in Scans, BeginLaunch(s)
        PROVE  BrowserInv'
    BY <1>6 DEF BeginLaunch
  <1>7. ASSUME NEW s \in Scans, Launched(s)
        PROVE  BrowserInv'
    <2>1. /\ live' = live \cup {launched'} /\ browser' = launched'
          /\ pc[s] = "launching" /\ pc' = [pc EXCEPT ![s] = "context"]
          /\ UNCHANGED <<outcome, company>>
      BY <1>7 DEF Launched
    <2>2. SUFFICES ASSUME company = {}, TimedOut = {}
                   PROVE  /\ live' \subseteq {browser'}
                          /\ \A r \in Scans : pc'[r] \notin {"reinit", "crashed", "launching"}
      BY <2>1
    <2>3. \A r \in Scans \ {s} : ~Active(r)
      BY <2>1, <2>2
    <2>4. live = {}
      BY <2>1, <2>2
    <2>5. QED
      BY <2>1, <2>3, <2>4, SMTT(30)
  <1>8. ASSUME NEW s \in Scans, LaunchFails(s)
        PROVE  BrowserInv'
    BY <1>8 DEF LaunchFails
  <1>9. ASSUME NEW s \in Scans, ContextFails(s)
        PROVE  BrowserInv'
    BY <1>9 DEF ContextFails
  <1>10. ASSUME NEW s \in Scans, OpenPage(s)
        PROVE  BrowserInv'
    BY <1>10 DEF OpenPage
  <1>11. ASSUME NEW s \in Scans, GiveConsent(s)
        PROVE  BrowserInv'
    BY <1>11 DEF GiveConsent
  <1>12. ASSUME NEW s \in Scans, GetDetectedTrackers(s)
        PROVE  BrowserInv'
    BY <1>12 DEF GetDetectedTrackers
  <1>13. ASSUME NEW s \in Scans, Return(s)
        PROVE  BrowserInv'
    BY <1>13 DEF Return
  <1>14. ASSUME NEW s \in Scans, CloseContext(s)
        PROVE  BrowserInv'
    BY <1>14 DEF CloseContext
  <1>15. ASSUME NEW s \in Scans, PageFails(s)
        PROVE  BrowserInv'
    BY <1>15 DEF PageFails
  <1>16. ASSUME NEW s \in Scans, CatchCrash(s)
        PROVE  BrowserInv'
    BY <1>16 DEF CatchCrash
  <1>17. ASSUME NEW s \in Scans, BrowserClosed(s)
        PROVE  BrowserInv'
    BY <1>17 DEF BrowserClosed
  <1>18. ASSUME NEW s \in Scans, Retry(s)
        PROVE  BrowserInv'
    BY <1>18 DEF Retry
  <1>19. ASSUME NEW s \in Scans, NEW t \in Trackers, PageRequest(s, t)
        PROVE  BrowserInv'
    BY <1>19 DEF PageRequest
  <1>20. ASSUME NEW b \in Browsers, BrowserCrashes(b)
        PROVE  BrowserInv'
    BY <1>20 DEF BrowserCrashes
  <1> HIDE DEF TypeOK, BrowserInv
  <1>21. QED
    BY <1>1, <1>2, <1>3, <1>4, <1>5, <1>6, <1>7, <1>8, <1>9, <1>10, <1>11, <1>12, <1>13, <1>14,
       <1>15, <1>16, <1>17, <1>18, <1>19, <1>20
    DEF Next, ExecuteScan

LEMMA BrowserInvHolds == Spec => []BrowserInv
  <1>1. Init => BrowserInv
    BY DEF Init, BrowserInv
  <1>2. QED
    BY <1>1, BrowserStep, AloneInvHolds, TypeCorrect, PTL DEF Spec

(***************************************************************************)
(* While calls do not overlap no browser is left running out of reach.     *)
(***************************************************************************)
THEOREM NoBrowserIsEverLeaked == Spec => []NoBrowserIsLeaked
  <1>1. BrowserInv => NoBrowserIsLeaked
    BY DEF BrowserInv, NoBrowserIsLeaked
  <1>2. QED
    BY <1>1, BrowserInvHolds, PTL

-----------------------------------------------------------------------------
(***************************************************************************)
(* Retries.  A browser in which a scan has met what it took for a crash is *)
(* dead or has left the field for good, so that the scan never gets it     *)
(* again; this needs no assumption about company or time-outs.             *)
(***************************************************************************)
TwoLost(s) == \E b, c \in lost[s] : b # c

LostInv ==
    \A s \in Scans :
        /\ lost[s] \subseteq 1..launched
        /\ \A b \in lost[s] : b # browser \/ b \notin live
        /\ pc[s] \in InTry \cup {"context"} => used[s] \in 1..launched /\ used[s] \notin lost[s]
        /\ retryCount[s] = 1 => lost[s] # {}
        /\ pc[s] \in {"crashed", "failing"} =>
              lost[s] # {} /\ (retryCount[s] = 1 => TwoLost(s))
        /\ cause[s] = "crash" => TwoLost(s)

LEMMA LostStep ==
  ASSUME TypeOK, LostInv, [Next]_vars
  PROVE  LostInv'
  <1> USE EngineAssumption DEF CallThrows, InTry, TypeOK, LostInv, TwoLost, Listening,
      Connected, NoBrowser, Browsers, browserVars, findingVars, historyVars, Goto, Fault,
      Settle, Throw
  <1>1. CASE UNCHANGED vars
    BY <1>1 DEF vars
  <1>2. ASSUME NEW s \in Scans, Call(s)
        PROVE  LostInv'
    BY <1>2 DEF Call, Pending
  <1>3. ASSUME NEW s \in Scans, TimeOut(s)
        PROVE  LostInv'
    BY <1>3 DEF TimeOut
  <1>4. ASSUME NEW s \in Scans, UseBrowser(s)
        PROVE  LostInv'
    BY <1>4 DEF UseBrowser
  <1>5. ASSUME NEW s \in Scans, CloseDisconnected(s)
        PROVE  LostInv'
    BY <1>5 DEF CloseDisconnected
  <1>6. ASSUME NEW s \in Scans, BeginLaunch(s)
        PROVE  LostInv'
    BY <1>6 DEF BeginLaunch
  <1>7. ASSUME NEW s \in Scans, Launched(s)
        PROVE  LostInv'
    BY <1>7 DEF Launched
  <1>8. ASSUME NEW s \in Scans, LaunchFails(s)
        PROVE  LostInv'
    BY <1>8 DEF LaunchFails
  <1>9. ASSUME NEW s \in Scans, ContextFails(s)
        PROVE  LostInv'
    BY <1>9 DEF ContextFails
  <1>10. ASSUME NEW s \in Scans, OpenPage(s)
        PROVE  LostInv'
    BY <1>10 DEF OpenPage
  <1>11. ASSUME NEW s \in Scans, GiveConsent(s)
        PROVE  LostInv'
    BY <1>11 DEF GiveConsent
  <1>12. ASSUME NEW s \in Scans, GetDetectedTrackers(s)
        PROVE  LostInv'
    BY <1>12 DEF GetDetectedTrackers
  <1>13. ASSUME NEW s \in Scans, Return(s)
        PROVE  LostInv'
    BY <1>13 DEF Return
  <1>14. ASSUME NEW s \in Scans, CloseContext(s)
        PROVE  LostInv'
    BY <1>14 DEF CloseContext
  <1>15. ASSUME NEW s \in Scans, PageFails(s)
        PROVE  LostInv'
    BY <1>15 DEF PageFails
  <1>16. ASSUME NEW s \in Scans, CatchCrash(s)
        PROVE  LostInv'
    BY <1>16 DEF CatchCrash
  <1>17. ASSUME NEW s \in Scans, BrowserClosed(s)
        PROVE  LostInv'
    BY <1>17 DEF BrowserClosed
  <1>18. ASSUME NEW s \in Scans, Retry(s)
        PROVE  LostInv'
    BY <1>18 DEF Retry
  <1>19. ASSUME NEW s \in Scans, NEW t \in Trackers, PageRequest(s, t)
        PROVE  LostInv'
    BY <1>19 DEF PageRequest
  <1>20. ASSUME NEW b \in Browsers, BrowserCrashes(b)
        PROVE  LostInv'
    BY <1>20 DEF BrowserCrashes
  <1> HIDE DEF TypeOK, LostInv
  <1>21. QED
    BY <1>1, <1>2, <1>3, <1>4, <1>5, <1>6, <1>7, <1>8, <1>9, <1>10, <1>11, <1>12, <1>13, <1>14,
       <1>15, <1>16, <1>17, <1>18, <1>19, <1>20
    DEF Next, ExecuteScan

(***************************************************************************)
(* A scan gives up over what it takes for a crash only after two browsers, *)
(* for any number of calls, browsers, overlaps and time-outs.              *)
(***************************************************************************)
THEOREM AlwaysGivesUpAfterTwoBrowsers == Spec => []GivesUpAfterTwoBrowsers
  <1>1. Init => LostInv
    BY DEF Init, LostInv, InTry
  <1>2. LostInv => GivesUpAfterTwoBrowsers
    BY DEF LostInv, GivesUpAfterTwoBrowsers, TwoLost
  <1>3. QED
    BY <1>1, <1>2, LostStep, TypeCorrect, PTL DEF Spec

=============================================================================
