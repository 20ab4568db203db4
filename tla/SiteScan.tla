------------------------------ MODULE SiteScan ------------------------------
(***************************************************************************)
(* executeScan on one web site, from the first navigation to the issues:   *)
(* the phases of ScannerService with the analyzers they call.  One browser *)
(* page goes through all of them, so what a phase sees depends on where    *)
(* the earlier ones have left it, on what they have clicked, and on the    *)
(* requests the site makes meanwhile.  Every call of the browser or of the *)
(* network may fail, and most of the failures are swallowed; ScanEngine    *)
(* has the crashes, the time-out and the overlap with other scans.         *)
(*                                                                         *)
(* The site is external: a record of what a visitor would find, the same   *)
(* at every visit.  Selectors and keywords are taken to find what they are *)
(* meant to find, unless their call fails.                                 *)
(***************************************************************************)
EXTENDS Verdict

CONSTANTS
    Sites,        \* the web sites a scan may be asked for
    FormPages,    \* pages that the sitemap or a link offers as a place for forms
    MaxFormPages, \* the 5 of analyzeForms and getFormPageUrls
    USServices,   \* hosts in US_SERVICES
    HighRisk,     \* those of them whose category is advertising or analytics
    Trackers,     \* hosts that match TRACKER_PATTERNS
    Signatures,   \* hosts whose scripts match one of TECH_SIGNATURES
    MaxFaults,    \* BOUND on phases in which calls fail
    MaxRequests   \* BOUND on the requests counted, before a late one is counted too

ASSUME SiteAssumption ==
    /\ MaxFormPages \in Nat /\ MaxFaults \in Nat /\ MaxRequests \in Nat
    /\ HighRisk \subseteq USServices
    /\ IsFiniteSet(USServices) /\ IsFiniteSet(Trackers)

(* What a site is: any list of cookies, hosts and forms, of any length.  Of a page it says which hosts
   are asked when the page is loaded, and by how many requests in all; the "sitemap" page is all that is
   loaded in search of a sitemap, pages that do not exist included.  sitemap and robots may offer URLs
   that are no place for forms.  A cookie whose very name is in
   KNOWN_COOKIES is what the table says of it; the wording of a form's consent and of its link is one
   that both ways of looking at forms know, one that only the first knows, or none. *)
ASSUME WebSitesAssumption == \A s \in Sites :
    /\ IsFiniteSet(s.cookies)
    /\ \A c \in s.cookies :
          /\ c.before \in BOOLEAN
          /\ c.necessary => c.exact \in {"none", "necessary"}
    /\ "home" \in DOMAIN s.loads
    /\ \A p \in DOMAIN s.loads :
          s.loads[p].hosts \subseteq USServices \cup Trackers /\ s.loads[p].count \in Nat
    /\ s.late \cup s.consented \subseteq USServices \cup Trackers
    /\ s.links \subseteq FormPages
    /\ \A p \in DOMAIN s.forms :
          /\ IsFiniteSet(s.forms[p])
          /\ \A x \in s.forms[p] :
                /\ x.consent \in {"agree", "accept", "none"}
                /\ x.link \in {"privacy", "datenschutz", "none"}

VARIABLES
    site,
    phase,         \* the call that is awaited
    at,            \* where the page is
    modal,         \* the preferences of the banner are open
    jar,           \* cookies of the browser context
    consentGiven,
    accepted,      \* the site has been given consent
    tracked,       \* detectedTrackers: "none", "before" or "after", by host
    thirdParty,    \* the length of thirdPartyRequests, of those that say beforeConsent
    requested,     \* hosts of requests so far, for detectedServices
    insecure,      \* mixedContentResources is not empty
    cookiesBefore, \* cookiesBeforeConsent
    found,         \* what the phases have returned
    early,         \* trackers that were requested before consent
    firstVisit,    \* third-party requests before consent, until the page is left or reloaded
    faults, lost   \* how often calls have failed, and for what; early, firstVisit and lost are
                   \* history variables

browserVars == <<at, modal, jar, accepted>>
requestVars == <<tracked, thirdParty, requested, insecure, early, firstVisit>>
listenerVars == <<consentGiven, requestVars>>
vars == <<site, phase, browserVars, listenerVars, cookiesBefore, found, faults, lost>>

Pages == {"home", "sitemap", "policy"} \cup FormPages
Hosts == USServices \cup Trackers
Phases == {"goto", "cookies", "banner", "preferences", "policyLink", "consent", "click",
           "cookiesAfter", "headers", "ssl", "homeForms", "discover", "crawl", "formPages",
           "policyContent", "transfers", "technologies", "done", "failed"}
Ended == {"done", "failed"}

(* what is awaited between the first navigation and the second *)
FirstVisit == {"cookies", "banner", "preferences", "policyLink", "consent", "click", "cookiesAfter",
               "headers"}

Nothing ==
    [cookies |-> {}, trackers |-> {}, thirdParty |-> 0, https |-> FALSE, mixed |-> FALSE,
     banner |-> [found |-> FALSE, accept |-> FALSE],
     policy |-> [found |-> FALSE, analyzed |-> FALSE, elements |-> {}],
     headers |-> [present |-> {}, unsafeCsp |-> FALSE, shortHsts |-> FALSE],
     ssl |-> [skipped |-> TRUE], forms |-> {}, links |-> {}, formPages |-> {}, services |-> {},
     technologies |-> {}]

TypeOK ==
    /\ site \in Sites
    /\ phase \in Phases
    /\ at \in Pages \cup {"blank", "half", "error"}
    /\ modal \in BOOLEAN /\ consentGiven \in BOOLEAN /\ accepted \in BOOLEAN
    /\ jar \subseteq site.cookies
    /\ tracked \in [Trackers -> {"none", "before", "after"}]
    /\ thirdParty \in Nat /\ firstVisit \in Nat
    /\ requested \subseteq Hosts /\ early \subseteq Trackers
    /\ insecure \in BOOLEAN
    /\ DOMAIN found = DOMAIN Nothing
    /\ found.formPages \cup found.links \subseteq FormPages
    /\ faults \in 0..MaxFaults

Init ==
    /\ site \in Sites
    /\ phase = "goto"
    /\ at = "blank" /\ modal = FALSE /\ jar = {} /\ accepted = FALSE
    /\ consentGiven = FALSE
    /\ tracked = [t \in Trackers |-> "none"]
    /\ thirdParty = 0 /\ requested = {} /\ early = {} /\ firstVisit = 0
    /\ insecure = FALSE
    /\ cookiesBefore = {}
    /\ found = Nothing
    /\ faults = 0 /\ lost = {}

Await(from, to) == phase = from /\ phase' = to
Learn(field, value) == found' = [found EXCEPT ![field] = value]
NoFault == UNCHANGED <<faults, lost>>
Fails(calls) == faults < MaxFaults /\ faults' = faults + 1 /\ lost' = lost \cup calls

(* the tables TRACKER_PATTERNS and US_SERVICES; high risk are the categories advertising and analytics *)
isTracker(h) == h \in Trackers
isUSService(h) == h \in USServices
isHighRisk(h) == isUSService(h) /\ h \in HighRisk

-----------------------------------------------------------------------------
(***************************************************************************)
(* The request listener                                                    *)
(***************************************************************************)
(* Faulty variant: the last request of a tracker decides. *)
TrackLast(hosts) ==
    tracked' = [t \in Trackers |->
        IF t \notin hosts THEN tracked[t] ELSE IF consentGiven THEN "after" ELSE "before"]

(* TrackerAnalyzer: the first request decides, unless a later one is before consent *)
Track(hosts) ==
    tracked' = [t \in Trackers |->
        IF t \notin hosts \/ (tracked[t] # "none" /\ consentGiven) THEN tracked[t]
        ELSE IF consentGiven THEN "after" ELSE "before"]

(* n requests to these hosts: every one is pushed, whichever visit of whichever page it belongs to *)
Requests(hosts, n) ==
    /\ Track(hosts)
    /\ thirdParty' = IF consentGiven THEN thirdParty ELSE thirdParty + n
    /\ firstVisit' = IF phase' \in FirstVisit /\ ~accepted THEN firstVisit + n ELSE firstVisit
    /\ requested' = requested \cup hosts
    /\ early' = IF accepted THEN early ELSE early \cup {h \in hosts : isTracker(h)}

LoadOf(p) == IF p \in DOMAIN site.loads THEN site.loads[p] ELSE [hosts |-> {}, count |-> 0]

(* mixed content is looked for when the URL of the scan is https *)
HasMixedContent(p) == p = "home" /\ site.mixed /\ site.scheme = "https"

(* goto and reload wait for the requests the page makes at once *)
Load(p) ==
    /\ at' = p
    /\ modal' = FALSE
    /\ Requests(LoadOf(p).hosts, LoadOf(p).count)
    /\ insecure' = (insecure \/ HasMixedContent(p))

(* A navigation that fails has not begun, or ends at the error page of the browser, or leaves the page
   half loaded; the requests made by then are made. *)
LoadFails(p) ==
    /\ at' \in {at, IF p = "home" THEN "half" ELSE p, "error"}
    /\ modal' \in {FALSE, modal /\ at' = at}
    /\ \E hosts \in SUBSET LoadOf(p).hosts, n \in 0..LoadOf(p).count : Requests(hosts, n)
    /\ insecure' \in {insecure, insecure \/ HasMixedContent(p)}

(* what is there to be seen of what the home page has *)
OnHome(all) ==
    CASE at = "home" -> {all}
      [] at = "half" -> SUBSET all
      [] OTHER -> {{}}

(* at any time the page loads what it loads late, what it has got consent for, or what it had not yet
   loaded *)
LateRequest ==
    /\ phase \notin Ended /\ at \in {"home", "half"}
    /\ UNCHANGED <<site, phase, browserVars, consentGiven, insecure, cookiesBefore, found>> /\ NoFault
    /\ \E h \in site.late \cup (IF accepted THEN site.consented ELSE {})
                          \cup (IF at = "half" THEN LoadOf("home").hosts ELSE {}) :
        /\ Requests({h}, 1)
        /\ thirdParty' # thirdParty => thirdParty < MaxRequests
        /\ firstVisit' # firstVisit => firstVisit < MaxRequests

-----------------------------------------------------------------------------
(***************************************************************************)
(* Phases 1 and 2: before and after consent                                *)
(***************************************************************************)
GotoSite ==
    /\ Await("goto", "cookies")
    /\ Load("home")
    /\ jar' = {c \in site.cookies : c.before}
    /\ UNCHANGED <<site, accepted, consentGiven, cookiesBefore, found>> /\ NoFault

(* What throws outside any try ends the scan: goto, cookies(), content() and waitForTimeout.  ScanEngine
   decides whether it is done once more. *)
ScanFails ==
    /\ phase \in {"goto", "cookies", "banner", "click", "cookiesAfter", "technologies"}
    /\ phase' = "failed"
    /\ Fails({"scan"})
    /\ UNCHANGED <<site, browserVars, listenerVars, cookiesBefore, found>>

(* KNOWN_COOKIES: a name that is in the table has its entry, any other the first entry it starts with *)
findKnownCookie(c) == IF c.exact # "none" THEN c.exact ELSE c.prefix

(* COOKIE_CATEGORY_PATTERNS: the first category with a pattern for the name, or "unknown" *)
guessCategory(c) == c.pattern

(* the patterns are only tried on a name that starts with no known one *)
mapCookie(c) ==
    [name |-> c.name, before |-> c.before, secure |-> c.secure, sameSite |-> c.sameSite, long |-> c.long,
     category |-> IF findKnownCookie(c) # "none" THEN findKnownCookie(c) ELSE guessCategory(c)]

CookiesBefore ==
    /\ Await("cookies", "banner")
    /\ cookiesBefore' = {mapCookie(c) : c \in jar}
    /\ UNCHANGED <<site, browserVars, listenerVars, found>> /\ NoFault

(* The banner and its parts: seen are those whose selectors have found them. *)
Shows(x) == x \in site.banner

detectPreCheckedBoxes(seen) == "preChecked" \in seen

(* the sizes are compared if both are known *)
EqualProminence(seen) ==
    IF "reject" \in seen THEN ~({"accept", "smallReject"} \subseteq seen) ELSE "accept" \notin seen

CookieWall(seen) == "blocking" \in seen /\ seen \cap {"reject", "settings"} = {}

(* analyzeConsentBanner up to the categories *)
LookAtBanner(seen) ==
    /\ Await("banner", IF "banner" \in seen THEN "preferences" ELSE "policyLink")
    /\ Learn("banner",
         IF "banner" \notin seen THEN Nothing.banner
         ELSE [found |-> TRUE, accept |-> "accept" \in seen, reject |-> "reject" \in seen,
               preChecked |-> detectPreCheckedBoxes(seen), equalProminence |-> EqualProminence(seen),
               cookieWall |-> CookieWall(seen),
               granular |-> FALSE])
    /\ UNCHANGED <<site, browserVars, listenerVars, cookiesBefore>>

FindBanner == LookAtBanner(site.banner) /\ NoFault

(* a selector that throws has found nothing *)
FindBannerFails ==
    \E missed \in SUBSET (site.banner \ {"modalHidesAccept", "categories", "categoriesInModal"}) :
        LookAtBanner(site.banner \ missed) /\ Fails(missed)

(* with the preferences open or not *)
Granular(open) == Shows("categories") \/ (open /\ Shows("categoriesInModal"))

(* detectGranularConsent clicks the settings button before it counts the categories *)
CountCategories ==
    /\ Await("preferences", "policyLink")
    /\ modal' = Shows("settings")
    /\ Learn("banner", [found.banner EXCEPT !.granular = Granular(modal')])
    /\ UNCHANGED <<site, at, jar, accepted, listenerVars, cookiesBefore>> /\ NoFault

(* the click or the count throws, and what was not counted is not there *)
CountCategoriesFails ==
    /\ Await("preferences", "policyLink")
    /\ Fails({"categories"})
    /\ modal' \in {FALSE, Shows("settings")}
    /\ \E granular \in {FALSE, Granular(modal')} :
        Learn("banner", [found.banner EXCEPT !.granular = granular])
    /\ UNCHANGED <<site, at, jar, accepted, listenerVars, cookiesBefore>>

FindPolicyLink ==
    /\ Await("policyLink", "consent")
    /\ Learn("policy", [found.policy EXCEPT !.found = site.policy.linked])
    /\ UNCHANGED <<site, browserVars, listenerVars, cookiesBefore>> /\ NoFault

FindPolicyLinkFails ==
    /\ Await("policyLink", "consent")
    /\ Fails({"policyLink"})
    /\ UNCHANGED <<site, browserVars, listenerVars, cookiesBefore, found>>

(* Faulty variant: consentGiven stays FALSE. *)
BelieveConsentNever ==
    /\ Await("consent", IF found.banner.accept THEN "click" ELSE "cookiesAfter")
    /\ UNCHANGED consentGiven
    /\ UNCHANGED <<site, browserVars, requestVars, cookiesBefore, found>> /\ NoFault

(* consentGiven is set before the button is looked for, and whatever comes of it *)
BelieveConsent ==
    /\ Await("consent", IF found.banner.accept THEN "click" ELSE "cookiesAfter")
    /\ consentGiven' = found.banner.accept
    /\ UNCHANGED <<site, browserVars, requestVars, cookiesBefore, found>> /\ NoFault

Click(consented) ==
    /\ accepted' = consented
    /\ jar' = IF consented THEN site.cookies ELSE jar
    /\ UNCHANGED <<site, at, modal, listenerVars, cookiesBefore, found>>

ButtonInReach == ~(modal /\ Shows("modalHidesAccept"))

ClickAccept == Await("click", "cookiesAfter") /\ Click(ButtonInReach) /\ NoFault

(* clickAcceptButton swallows what each selector throws, also after the click *)
ClickAcceptFails ==
    /\ Await("click", "cookiesAfter")
    /\ Fails({"click"})
    /\ \E consented \in {FALSE, ButtonInReach} : Click(consented)

(* a cookie of both lists keeps the earlier version *)
mergeCookies(before, after) == {[c EXCEPT !.before = c \in before] : c \in before \cup after}

(* after the last cookies, the trackers, HTTPS and mixed content are taken with nothing awaited *)
AnalyzeAfterConsent ==
    /\ Await("cookiesAfter", "headers")
    /\ found' = [found EXCEPT
         !.cookies = mergeCookies(cookiesBefore, {mapCookie(c) : c \in jar}),
         !.trackers = {[host |-> t, before |-> tracked[t] = "before"] :
                           t \in {u \in Trackers : tracked[u] # "none"}},
         !.https = site.scheme # "http",
         !.mixed = insecure]
    /\ UNCHANGED <<site, browserVars, listenerVars, cookiesBefore>> /\ NoFault

-----------------------------------------------------------------------------
(***************************************************************************)
(* Phases 3 to 7                                                           *)
(***************************************************************************)
(* getMainResponse reloads the page, which is still the home page *)
AnalyzeHeaders ==
    /\ Await("headers", "ssl")
    /\ Load("home")
    /\ Learn("headers", site.headers)
    /\ UNCHANGED <<site, jar, accepted, consentGiven, cookiesBefore>> /\ NoFault

(* no response: every header counts as missing *)
AnalyzeHeadersFails ==
    /\ Await("headers", "ssl")
    /\ Fails({"headers"})
    /\ LoadFails("home")
    /\ Learn("headers", Nothing.headers)
    /\ UNCHANGED <<site, jar, accepted, consentGiven, cookiesBefore>>

(* An expired certificate is not authorized.  days is rounded down: "none" is a last day that is not over. *)
Authorized(cert) == cert.trusted /\ cert.days # "past"

AnalyzeSsl ==
    /\ Await("ssl", "homeForms")
    /\ Learn("ssl",
         IF site.scheme # "https" THEN [skipped |-> TRUE]
         ELSE LET cert == site.cert IN
              [skipped |-> FALSE, days |-> cert.days, weakProtocol |-> cert.weakProtocol,
               valid |-> Authorized(cert) /\ cert.days # "none",
               selfSigned |-> ~Authorized(cert) /\ cert.ownIssuer,
               error |-> ~Authorized(cert)])
    /\ UNCHANGED <<site, browserVars, listenerVars, cookiesBefore>> /\ NoFault

(* a connection that times out or breaks resolves to an error and no certificate *)
AnalyzeSslFails ==
    /\ Await("ssl", "homeForms")
    /\ site.scheme = "https"
    /\ Fails({"ssl"})
    /\ Learn("ssl", [skipped |-> FALSE, days |-> "null", weakProtocol |-> FALSE, valid |-> FALSE,
                     selfSigned |-> FALSE, error |-> TRUE])
    /\ UNCHANGED <<site, browserVars, listenerVars, cookiesBefore>>

Info(x, consents, links) ==
    [email |-> x.email, name |-> x.name, phone |-> x.phone, preChecked |-> x.preChecked,
     consent |-> x.consent \in consents, link |-> x.link \in links]
analyzeForm(x) == Info(x, {"agree", "accept"}, {"privacy", "datenschutz"})

(* fewer words count as consent and as a link outside a <form> *)
detectJSRenderedForm(x) == Info(x, {"agree"}, {"privacy"})

(* search forms are left out *)
FormsAt(p) == IF p \in DOMAIN site.forms THEN {x \in site.forms[p] : ~x.search} ELSE {}

(* without any form, inputs for an e-mail address outside a <form> are looked at *)
analyzeFormsOnPage(shown) ==
    LET forms == {x \in shown : x.inForm}
    IN IF forms # {} THEN {analyzeForm(x) : x \in forms}
       ELSE {detectJSRenderedForm(x) : x \in {y \in shown : ~y.inForm /\ y.email}}

(* "Analyze forms on current page FIRST (before any navigation)", and findFormPages *)
AnalyzeHomeForms ==
    /\ Await("homeForms", "discover")
    /\ \E shown \in OnHome(FormsAt("home")), links \in OnHome(site.links) :
        found' = [found EXCEPT !.forms = analyzeFormsOnPage(shown), !.links = links]
    /\ UNCHANGED <<site, browserVars, listenerVars, cookiesBefore>> /\ NoFault

(* a form that cannot be read is no form, links that cannot be read are no links *)
AnalyzeHomeFormsFails ==
    /\ Await("homeForms", "discover")
    /\ Fails({"forms"})
    /\ \E shown \in OnHome(FormsAt("home")), links \in {{}} \cup OnHome(site.links) :
        \E read \in SUBSET shown :
            found' = [found EXCEPT !.forms = analyzeFormsOnPage(read), !.links = links]
    /\ UNCHANGED <<site, browserVars, listenerVars, cookiesBefore>>

getFormPageUrls(urls) == urls \cap FormPages

(* the first MaxFormPages of the pages discovered and then of the links *)
FormPageChoices(offered) ==
    LET size == IF Cardinality(offered \cup found.links) < MaxFormPages
                THEN Cardinality(offered \cup found.links) ELSE MaxFormPages
    IN {S \in SUBSET (offered \cup found.links) :
           Cardinality(S) = size /\ (offered \subseteq S \/ S \subseteq offered)}

ChooseFormPages(urls) == \E S \in FormPageChoices(getFormPageUrls(urls)) : Learn("formPages", S)

(* the home page is crawled only when no URL at all has been found, form page or not *)
Discover(urls) ==
    \/ urls # {} /\ Await("discover", "formPages") /\ ChooseFormPages(urls)
    \/ urls = {} /\ Await("discover", "crawl") /\ UNCHANGED found

(* discoverPages: sitemap.xml, else the paths robots.txt allows *)
DiscoverPages ==
    /\ Discover(IF site.sitemap # {} THEN site.sitemap ELSE site.robots)
    /\ at # "error"
    /\ Load("sitemap")
    /\ UNCHANGED <<site, jar, accepted, consentGiven, cookiesBefore>> /\ NoFault

(* some of the files are out of reach *)
DiscoverPagesFails ==
    /\ \E urls \in SUBSET (site.sitemap \cup site.robots) :
        /\ Discover(urls)
        /\ at # "error"
        /\ LoadFails("sitemap")
        /\ urls # {} => at' \in {"sitemap", "error"}
    /\ Fails({"sitemap"})
    /\ UNCHANGED <<site, jar, accepted, consentGiven, cookiesBefore>>

(* the URL of the browser's error page has no origin to go to: nothing is discovered *)
DiscoverNothing ==
    /\ Await("discover", "formPages")
    /\ at = "error"
    /\ ChooseFormPages({})
    /\ UNCHANGED <<site, browserVars, listenerVars, cookiesBefore>> /\ NoFault

crawlHomepageLinks ==
    /\ Await("crawl", "formPages")
    /\ Load("home")
    /\ ChooseFormPages(site.links)
    /\ UNCHANGED <<site, jar, accepted, consentGiven, cookiesBefore>> /\ NoFault

crawlHomepageLinksFails ==
    /\ Await("crawl", "formPages")
    /\ Fails({"crawl"})
    /\ Load("home") \/ LoadFails("home")
    /\ ChooseFormPages({})
    /\ UNCHANGED <<site, jar, accepted, consentGiven, cookiesBefore>>

VisitFormPage ==
    /\ Await("formPages", "formPages")
    /\ \E p \in found.formPages :
        /\ Load(p)
        /\ found' = [found EXCEPT !.forms = @ \cup analyzeFormsOnPage(FormsAt(p)), !.formPages = @ \ {p}]
    /\ UNCHANGED <<site, jar, accepted, consentGiven, cookiesBefore>> /\ NoFault

(* the page is skipped, or forms on it are *)
VisitFormPageFails ==
    /\ Await("formPages", "formPages")
    /\ Fails({"formPage"})
    /\ \E p \in found.formPages : \E read \in SUBSET FormsAt(p) :
        /\ Load(p) \/ (LoadFails(p) /\ read = {})
        /\ found' = [found EXCEPT !.forms = @ \cup analyzeFormsOnPage(read), !.formPages = @ \ {p}]
    /\ UNCHANGED <<site, jar, accepted, consentGiven, cookiesBefore>>

FormsDone ==
    /\ Await("formPages", IF found.policy.found THEN "policyContent" ELSE "transfers")
    /\ found.formPages = {}
    /\ UNCHANGED <<site, browserVars, listenerVars, cookiesBefore, found>> /\ NoFault

(* a text of less than 100 characters is not analyzed *)
ReadPolicy ==
    /\ Await("policyContent", "transfers")
    /\ Load("policy")
    /\ Learn("policy", [found.policy EXCEPT !.analyzed = site.policy.readable,
                                            !.elements = site.policy.elements])
    /\ UNCHANGED <<site, jar, accepted, consentGiven, cookiesBefore>> /\ NoFault

ReadPolicyFails ==
    /\ Await("policyContent", "transfers")
    /\ Fails({"policy"})
    /\ Load("policy") \/ LoadFails("policy")
    /\ UNCHANGED <<site, jar, accepted, consentGiven, cookiesBefore, found>>

(* getDataTransferInfo, of the whole scan *)
AssessTransfers ==
    /\ Await("transfers", "technologies")
    /\ Learn("services", {[host |-> h, highRisk |-> isHighRisk(h)] : h \in {u \in requested : isUSService(u)}})
    /\ UNCHANGED <<site, browserVars, listenerVars, cookiesBefore>> /\ NoFault

(* scripts are known from the whole scan, markup and globals only from the page it ends on *)
matchesTechnology(t, markup) == t \in requested \cap site.scripts \cap Signatures \/ t \in markup

(* mark-up is named for the signature it matches *)
TECH_SIGNATURES == Signatures \cup UNION {s.markup : s \in Sites}

(* Then the third-party requests so far are counted. *)
AnalyzeTechnologies ==
    /\ Await("technologies", "done")
    /\ \E markup \in OnHome(site.markup) :
        found' = [found EXCEPT
            !.technologies = {t \in TECH_SIGNATURES : matchesTechnology(t, markup)},
            !.thirdParty = thirdParty]
    /\ UNCHANGED <<site, browserVars, listenerVars, cookiesBefore>> /\ NoFault

Step ==
    \/ GotoSite \/ CookiesBefore \/ FindBanner \/ CountCategories \/ FindPolicyLink
    \/ BelieveConsent \/ ClickAccept \/ AnalyzeAfterConsent
    \/ AnalyzeHeaders \/ AnalyzeSsl
    \/ AnalyzeHomeForms \/ DiscoverPages \/ DiscoverNothing \/ crawlHomepageLinks
    \/ VisitFormPage \/ FormsDone
    \/ ReadPolicy \/ AssessTransfers \/ AnalyzeTechnologies

CallFails ==
    \/ ScanFails \/ FindBannerFails \/ CountCategoriesFails \/ FindPolicyLinkFails
    \/ ClickAcceptFails \/ AnalyzeHeadersFails \/ AnalyzeSslFails
    \/ AnalyzeHomeFormsFails \/ DiscoverPagesFails \/ crawlHomepageLinksFails
    \/ VisitFormPageFails \/ ReadPolicyFails

Next == Step \/ CallFails \/ LateRequest

Spec == Init /\ [][Next]_vars

-----------------------------------------------------------------------------
(***************************************************************************)
(* Properties                                                              *)
(***************************************************************************)
issues == generateIssues(found)
AllForms == UNION {site.forms[p] : p \in DOMAIN site.forms}
Personal(x) == x.email \/ x.name \/ x.phone
Contacts == site.late \cup site.consented \cup UNION {site.loads[p].hosts : p \in DOMAIN site.loads}

(* What the owner of the site has to admit to, by the titles of the issues and not by the way they are
   found.  early knows when consent was really given, and firstVisit what one visit has cost. *)
Admits(code) ==
    CASE code = "COOKIES_BEFORE_CONSENT" -> \E c \in site.cookies : c.before /\ ~c.necessary
      [] code = "TRACKERS_BEFORE_CONSENT" -> early # {}
      [] code = "NO_CONSENT_BANNER" -> ~Shows("banner")
      [] code = "NO_REJECT_OPTION" -> ~Shows("reject")
      [] code = "PRE_CHECKED_BOXES" -> Shows("preChecked")
      [] code = "UNEQUAL_BUTTON_PROMINENCE" ->
             Shows("accept") /\ (~Shows("reject") \/ Shows("smallReject"))
      [] code = "COOKIE_WALL" -> Shows("blocking") /\ site.banner \cap {"reject", "settings"} = {}
      [] code = "NO_GRANULAR_CONSENT" ->
             ~Shows("categories") /\ ~(Shows("settings") /\ Shows("categoriesInModal"))
      [] code = "NO_PRIVACY_POLICY" -> ~site.policy.linked
      [] code = "PRIVACY_POLICY_INCOMPLETE" -> ~(RequiredElements \subseteq site.policy.elements)
      [] code = "NO_DATA_RETENTION_INFO" -> "retention" \notin site.policy.elements
      [] code = "NO_COMPLAINT_RIGHT_INFO" -> "complaint" \notin site.policy.elements
      [] code = "NO_HTTPS" -> site.scheme = "http"
      [] code = "MIXED_CONTENT" -> site.mixed
      [] code = "COOKIE_EXCESSIVE_EXPIRATION" -> \E c \in site.cookies : c.long
      [] code = "COOKIES_WITHOUT_SECURE" -> \E c \in site.cookies : ~c.secure
      [] code = "COOKIES_WITHOUT_SAMESITE" ->
             Cardinality({c \in site.cookies : ~c.sameSite}) > SameSiteLimit
      [] code = "FORMS_WITHOUT_CONSENT" -> \E x \in AllForms : Personal(x) /\ x.consent = "none"
      [] code = "FORMS_PRECHECKED_MARKETING" -> \E x \in AllForms : x.preChecked
      [] code = "FORMS_NO_PRIVACY_LINK" -> \E x \in AllForms : Personal(x) /\ x.link = "none"
      [] code = "US_DATA_TRANSFERS" -> Contacts \cap HighRisk # {}
      [] code = "EXCESSIVE_US_SERVICES" -> Cardinality(Contacts \cap USServices) > USServiceLimit
      [] code = "EXCESSIVE_THIRD_PARTY" -> firstVisit > ThirdPartyLimit
      [] code = "NO_SECURITY_HEADERS" -> Cardinality(Headers \ site.headers.present) >= 5
      [] code = "WEAK_CSP" -> site.headers.unsafeCsp
      [] code = "WEAK_HSTS" -> site.headers.shortHsts
      [] code \in {MissingCode[h] : h \in Headers} ->
             \E h \in Headers : code = MissingCode[h] /\ h \notin site.headers.present
      [] code = "SSL_SELF_SIGNED" -> site.cert.ownIssuer
      [] code = "SSL_INVALID" -> ~Authorized(site.cert)
      [] code = "SSL_EXPIRED" -> site.cert.days = "past"
      [] code = "SSL_EXPIRING_SOON" -> site.cert.days = "upTo30"
      [] code = "SSL_WEAK_PROTOCOL" -> site.cert.weakProtocol

(* Accusations the code makes without cause, each for a reason that is written here.  What a failed call
   would have found counts as missing.  Without an accept button nothing is after consent, so that the
   requests of the reload, of the crawl and of every other page are added to those of the first visit.
   A telephone number alone hides the link next to it, outside a <form> the link and the consent must be
   worded in one way, a certificate counts as expired on its last day, and a cookie counts as what the
   first known cookie is that its name starts with. *)
Misjudged ==
    (IF "banner" \in lost THEN {"NO_CONSENT_BANNER"} ELSE {}) \cup
    (IF "reject" \in lost THEN {"NO_REJECT_OPTION", "UNEQUAL_BUTTON_PROMINENCE", "COOKIE_WALL"} ELSE {}) \cup
    (IF "settings" \in lost THEN {"COOKIE_WALL"} ELSE {}) \cup
    (IF "categories" \in lost THEN {"NO_GRANULAR_CONSENT"} ELSE {}) \cup
    (IF "policyLink" \in lost THEN {"NO_PRIVACY_POLICY"} ELSE {}) \cup
    (IF "headers" \in lost THEN {"NO_SECURITY_HEADERS"} ELSE {}) \cup
    (IF "ssl" \in lost THEN {"SSL_INVALID"} ELSE {}) \cup
    (IF ~found.banner.accept THEN {"EXCESSIVE_THIRD_PARTY"} ELSE {}) \cup
    (IF \E x \in AllForms : x.phone /\ ~AsksWhoYouAre(x) THEN {"FORMS_NO_PRIVACY_LINK"} ELSE {}) \cup
    (IF \E x \in AllForms : ~x.inForm /\ x.link = "datenschutz" THEN {"FORMS_NO_PRIVACY_LINK"} ELSE {}) \cup
    (IF \E x \in AllForms : ~x.inForm /\ x.consent = "accept" THEN {"FORMS_WITHOUT_CONSENT"} ELSE {}) \cup
    (IF site.cert.days = "none" THEN {"SSL_EXPIRED"} ELSE {}) \cup
    (IF \E c \in site.cookies : c.necessary /\ c.exact = "none" /\ mapCookie(c).category # "necessary"
     THEN {"COOKIES_BEFORE_CONSENT"} ELSE {})

(* Whatever the report lists as evidence is a thing the site does, or a necessary cookie that was taken
   for another, and there is evidence wherever it is listed; an incomplete policy is explained by four
   elements, one of which is not required, while the purpose of processing is not among them. *)
EvidenceIsTrue ==
    /\ Evidence("COOKIES_BEFORE_CONSENT", found) \subseteq
           {c.name : c \in {d \in site.cookies : d.before /\ (~d.necessary \/ d.exact = "none")}}
    /\ Evidence("TRACKERS_BEFORE_CONSENT", found) \subseteq early
    /\ Evidence("US_DATA_TRANSFERS", found) \subseteq Contacts \cap HighRisk
    /\ "PRIVACY_POLICY_INCOMPLETE" \in issues =>
           \/ RequiredElements \ site.policy.elements = {"purpose"}
           \/ Evidence("PRIVACY_POLICY_INCOMPLETE", found) \ site.policy.elements # {}
    /\ \A code \in {"COOKIES_BEFORE_CONSENT", "TRACKERS_BEFORE_CONSENT", "US_DATA_TRANSFERS"} :
           code \in issues <=> Evidence(code, found) # {}

(* A finished scan accuses a site of nothing it need not admit to, wherever the page has been and
   whatever was requested meanwhile, but for the cases above, and its evidence is true. *)
AccusationsAreTrue ==
    phase = "done" => EvidenceIsTrue /\ \A i \in issues : Admits(i) \/ i \in Misjudged

(* The offences of a banner that a call which failed would have shown. *)
Overlooked ==
    (IF "banner" \in lost THEN {"NO_REJECT_OPTION", "PRE_CHECKED_BOXES", "UNEQUAL_BUTTON_PROMINENCE",
                               "COOKIE_WALL"} ELSE {}) \cup
    (IF "preChecked" \in lost THEN {"PRE_CHECKED_BOXES"} ELSE {}) \cup
    (IF lost \cap {"accept", "smallReject"} # {} THEN {"UNEQUAL_BUTTON_PROMINENCE"} ELSE {}) \cup
    (IF "blocking" \in lost THEN {"COOKIE_WALL"} ELSE {})

(* Of a finished scan, whatever came before or after on other pages: it reports a cookie set before
   consent whose name is not like that of a necessary one; a missing banner, policy link or HTTPS; what a
   banner does about rejecting, pre-checked boxes, prominence and cookie walls; a tracker or a high-risk
   US service the home page loads at once; a form of the home page that asks for an e-mail address or a
   name and shows no consent of the wording looked for; every missing header; a certificate past its
   date, which alone makes the risk CRITICAL.  It names the technologies whose scripts the home page
   loads at once, and scores 100 only what has no issue.  Excepted is, for each, what a call that failed
   would have shown.  Not claimed are the flags of cookies, granular consent, what the policy says, mixed
   content, late requests, counts of services and requests, links and marketing boxes of forms, forms of
   other pages and those that ask for a telephone number alone, weak headers and other certificate
   faults. *)
OffencesAreReported ==
    phase = "done" =>
        /\ (\E c \in site.cookies : c.before /\ ~c.necessary /\ "necessary" \notin {c.exact, c.prefix, c.pattern})
           => "COOKIES_BEFORE_CONSENT" \in issues
        /\ \A c \in {"NO_CONSENT_BANNER", "NO_PRIVACY_POLICY", "NO_HTTPS"} :
               Admits(c) => c \in issues
        /\ Shows("banner") =>
               \A c \in {"NO_REJECT_OPTION", "PRE_CHECKED_BOXES", "UNEQUAL_BUTTON_PROMINENCE",
                         "COOKIE_WALL"} : Admits(c) => c \in issues \cup Overlooked
        /\ LoadOf("home").hosts \cap Trackers # {} => "TRACKERS_BEFORE_CONSENT" \in issues
        /\ LoadOf("home").hosts \cap HighRisk # {} => "US_DATA_TRANSFERS" \in issues
        /\ LoadOf("home").hosts \cap site.scripts \cap Signatures \subseteq found.technologies
        /\ (\E x \in analyzeFormsOnPage(FormsAt("home")) : AsksWhoYouAre(x) /\ ~x.consent)
           => "FORMS_WITHOUT_CONSENT" \in issues \/ lost \cap {"headers", "forms"} # {}
        /\ "headers" \notin lost => \A h \in Headers \ site.headers.present :
               {MissingCode[h], "NO_SECURITY_HEADERS"} \cap issues # {}
        /\ "ssl" \notin lost /\ site.scheme = "https" /\ site.cert.days = "past" =>
               calculateOverallRisk(issues) = "CRITICAL"
        /\ calculateScore(issues) = 100 => issues = {}

=============================================================================
