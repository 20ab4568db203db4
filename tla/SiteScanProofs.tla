--------------------------- MODULE SiteScanProofs ---------------------------
(***************************************************************************)
(* Theorems about Verdict and SiteScan: for every list of sites, of any    *)
(* cookies, hosts, pages and forms, every table of trackers and services,  *)
(* every limit and every number of calls that fail.                        *)
(***************************************************************************)
EXTENDS SiteScan, FiniteSetTheorems, TLAPS

(***************************************************************************)
(* The inductive invariant, one part for each thing the issues are about:  *)
(* what is known of it before, and what once the phase that looks at it    *)
(* is over.                                                                *)
(***************************************************************************)
Undecided == {"goto", "cookies", "banner", "preferences", "policyLink", "consent"}
Loaded == Phases \ {"goto", "failed"}
Judged == Loaded \ (Undecided \cup {"click", "cookiesAfter"})

(* Until the reload the page stays on the home page, and only a reload that failed takes it away before
   its forms are looked at; nothing is consented to before consentGiven is set. *)
PageInv ==
    /\ phase = "goto" => at = "blank"
    /\ phase \in FirstVisit => at = "home"
    /\ phase \in {"ssl", "homeForms"} => at = "home" \/ "headers" \in lost
    /\ phase \in Undecided => ~consentGiven
    /\ phase = "click" => consentGiven
    /\ accepted => consentGiven

EarlyCookies == {c \in site.cookies : c.before}

CookieInv ==
    /\ phase \in Loaded => EarlyCookies \subseteq jar
    /\ phase = "cookies" => jar = EarlyCookies
    /\ phase \in Loaded \ {"cookies"} => cookiesBefore = {mapCookie(c) : c \in EarlyCookies}
    /\ phase \in Judged =>
          /\ {mapCookie(c) : c \in EarlyCookies} \subseteq found.cookies
          /\ found.cookies \subseteq {mapCookie(c) : c \in site.cookies}

HomeHosts == LoadOf("home").hosts

TrackerInv ==
    /\ \A t \in Trackers : tracked[t] = "before" => t \in early
    /\ phase \in Loaded => \A t \in HomeHosts \cap Trackers : tracked[t] = "before"
    /\ phase \in Judged =>
          /\ \A k \in found.trackers : k.before => k.host \in early
          /\ \A t \in HomeHosts \cap Trackers : [host |-> t, before |-> TRUE] \in found.trackers

Service(h) == [host |-> h, highRisk |-> isHighRisk(h)]

RequestInv ==
    /\ requested \subseteq Contacts
    /\ phase \in Loaded => HomeHosts \subseteq requested
    /\ phase \in {"technologies", "done"} =>
          /\ {Service(h) : h \in HomeHosts \cap USServices} \subseteq found.services
          /\ found.services \subseteq {Service(h) : h \in Contacts \cap USServices}
    /\ phase = "done" => HomeHosts \cap site.scripts \cap Signatures \subseteq found.technologies

(* Until consent every request is one of the first visit, and once consentGiven is set none is added. *)
CountInv ==
    /\ phase \in Undecided => thirdParty = firstVisit
    /\ consentGiven => thirdParty <= firstVisit
    /\ phase \in Loaded \ Undecided => consentGiven = found.banner.accept
    /\ phase = "done" => found.thirdParty = thirdParty

TransportInv ==
    /\ insecure => site.mixed
    /\ phase \in Judged => found.https = (site.scheme # "http") /\ (found.mixed => site.mixed)

BannerSeen(b, seen) ==
    /\ {"granular", "accept"} \subseteq DOMAIN b
    /\ b.found = TRUE /\ b.accept = ("accept" \in seen) /\ b.reject = ("reject" \in seen)
    /\ b.preChecked = ("preChecked" \in seen) /\ b.equalProminence = EqualProminence(seen)
    /\ b.cookieWall = CookieWall(seen)

(* what may be seen of a banner, given the calls that have failed *)
Views == {seen \in SUBSET site.banner : site.banner \ seen \subseteq lost}

BannerInv ==
    /\ phase \in Undecided \ {"policyLink", "consent", "preferences"} => found.banner = Nothing.banner
    /\ phase = "preferences" => \E seen \in Views : "banner" \in seen /\ BannerSeen(found.banner, seen)
    /\ phase \in Loaded \ {"cookies", "banner", "preferences"} =>
          \E seen \in Views :
             IF "banner" \in seen
             THEN /\ BannerSeen(found.banner, seen)
                  /\ found.banner.granular = Granular(Shows("settings")) \/ "categories" \in lost
             ELSE found.banner = Nothing.banner

PolicyInv ==
    /\ DOMAIN found.policy = {"found", "analyzed", "elements"}
    /\ found.policy.found => site.policy.linked
    /\ phase \in Loaded \ {"cookies", "banner", "preferences", "policyLink"} =>
          (site.policy.linked => found.policy.found \/ "policyLink" \in lost)
    /\ found.policy.analyzed => found.policy.elements = site.policy.elements

CertificateSeen ==
    IF site.scheme # "https" THEN [skipped |-> TRUE]
    ELSE [skipped |-> FALSE, days |-> site.cert.days, weakProtocol |-> site.cert.weakProtocol,
          valid |-> Authorized(site.cert) /\ site.cert.days # "none",
          selfSigned |-> ~Authorized(site.cert) /\ site.cert.ownIssuer,
          error |-> ~Authorized(site.cert)]
NoCertificate ==
    [skipped |-> FALSE, days |-> "null", weakProtocol |-> FALSE, valid |-> FALSE,
     selfSigned |-> FALSE, error |-> TRUE]

ServerInv ==
    /\ phase \in Judged \ {"headers"} =>
          found.headers = site.headers \/ ("headers" \in lost /\ found.headers = Nothing.headers)
    /\ phase \in Judged \ {"headers", "ssl"} =>
          found.ssl = CertificateSeen \/ ("ssl" \in lost /\ found.ssl = NoCertificate)

(* what a form may have been taken for *)
SeenAs(k, x) == ~x.search /\ (k = analyzeForm(x) \/ (~x.inForm /\ k = detectJSRenderedForm(x)))

HomeForms == analyzeFormsOnPage(FormsAt("home"))

FormInv ==
    phase \in Judged \ {"headers", "ssl", "homeForms"} =>
        /\ IsFiniteSet(found.forms)
        /\ lost \cap {"headers", "forms"} = {} => HomeForms \subseteq found.forms
        /\ \A k \in found.forms : \E x \in AllForms : SeenAs(k, x)

SiteInv ==
    TypeOK /\ PageInv /\ CookieInv /\ TrackerInv /\ RequestInv /\ CountInv /\ TransportInv
    /\ BannerInv /\ PolicyInv /\ ServerInv /\ FormInv

-----------------------------------------------------------------------------
(***************************************************************************)
(* What a step does to the phase and to the findings.                      *)
(***************************************************************************)
Moves == {
    <<"goto", "cookies">>, <<"cookies", "banner">>,
    <<"banner", "preferences">>, <<"banner", "policyLink">>, <<"preferences", "policyLink">>,
    <<"policyLink", "consent">>, <<"consent", "click">>, <<"consent", "cookiesAfter">>,
    <<"click", "cookiesAfter">>, <<"cookiesAfter", "headers">>, <<"headers", "ssl">>,
    <<"ssl", "homeForms">>, <<"homeForms", "discover">>, <<"discover", "formPages">>,
    <<"discover", "crawl">>, <<"crawl", "formPages">>,
    <<"formPages", "formPages">>, <<"formPages", "policyContent">>, <<"formPages", "transfers">>,
    <<"policyContent", "transfers">>, <<"transfers", "technologies">>,
    <<"technologies", "done">>}

(* Each phase has its own steps. *)
LEMMA Acting ==
  ASSUME Next
  PROVE  \/ LateRequest
         \/ ScanFails
         \/ phase = "goto" /\ GotoSite
         \/ phase = "cookies" /\ CookiesBefore
         \/ phase = "banner" /\ (FindBanner \/ FindBannerFails)
         \/ phase = "preferences" /\ (CountCategories \/ CountCategoriesFails)
         \/ phase = "policyLink" /\ (FindPolicyLink \/ FindPolicyLinkFails)
         \/ phase = "consent" /\ BelieveConsent
         \/ phase = "click" /\ (ClickAccept \/ ClickAcceptFails)
         \/ phase = "cookiesAfter" /\ AnalyzeAfterConsent
         \/ phase = "headers" /\ (AnalyzeHeaders \/ AnalyzeHeadersFails)
         \/ phase = "ssl" /\ (AnalyzeSsl \/ AnalyzeSslFails)
         \/ phase = "homeForms" /\ (AnalyzeHomeForms \/ AnalyzeHomeFormsFails)
         \/ phase = "discover" /\ (DiscoverPages \/ DiscoverPagesFails \/ DiscoverNothing)
         \/ phase = "crawl" /\ (crawlHomepageLinks \/ crawlHomepageLinksFails)
         \/ phase = "formPages" /\ (VisitFormPage \/ VisitFormPageFails \/ FormsDone)
         \/ phase = "policyContent" /\ (ReadPolicy \/ ReadPolicyFails)
         \/ phase = "transfers" /\ AssessTransfers
         \/ phase = "technologies" /\ AnalyzeTechnologies
  <1>1. /\ GotoSite => phase = "goto"
        /\ CookiesBefore => phase = "cookies"
        /\ FindBanner \/ FindBannerFails => phase = "banner"
        /\ CountCategories \/ CountCategoriesFails => phase = "preferences"
        /\ FindPolicyLink \/ FindPolicyLinkFails => phase = "policyLink"
        /\ BelieveConsent => phase = "consent"
        /\ ClickAccept \/ ClickAcceptFails => phase = "click"
        /\ AnalyzeAfterConsent => phase = "cookiesAfter"
    BY DEF GotoSite, CookiesBefore, FindBanner, FindBannerFails, LookAtBanner, CountCategories,
       CountCategoriesFails, FindPolicyLink, FindPolicyLinkFails, BelieveConsent, ClickAccept,
       ClickAcceptFails, AnalyzeAfterConsent, Await
  <1>2. /\ AnalyzeHeaders \/ AnalyzeHeadersFails => phase = "headers"
        /\ AnalyzeSsl \/ AnalyzeSslFails => phase = "ssl"
        /\ AnalyzeHomeForms \/ AnalyzeHomeFormsFails => phase = "homeForms"
        /\ DiscoverPages \/ DiscoverPagesFails \/ DiscoverNothing => phase = "discover"
        /\ crawlHomepageLinks \/ crawlHomepageLinksFails => phase = "crawl"
    BY DEF AnalyzeHeaders, AnalyzeHeadersFails, AnalyzeSsl, AnalyzeSslFails, AnalyzeHomeForms,
       AnalyzeHomeFormsFails, DiscoverPages, DiscoverPagesFails, DiscoverNothing, Discover,
       crawlHomepageLinks, crawlHomepageLinksFails, Await
  <1>3. /\ VisitFormPage \/ VisitFormPageFails \/ FormsDone => phase = "formPages"
        /\ ReadPolicy \/ ReadPolicyFails => phase = "policyContent"
        /\ AssessTransfers => phase = "transfers"
        /\ AnalyzeTechnologies => phase = "technologies"
    BY DEF VisitFormPage, VisitFormPageFails, FormsDone, ReadPolicy,
       ReadPolicyFails, AssessTransfers, AnalyzeTechnologies, Await
  <1>4. QED
    BY <1>1, <1>2, <1>3 DEF Next, Step, CallFails

LEMMA PhaseStep ==
  ASSUME Next
  PROVE  /\ site' = site
         /\ lost \subseteq lost'
         /\ \/ LateRequest /\ phase' = phase
            \/ ScanFails /\ phase' = "failed"
            \/ <<phase, phase'>> \in Moves
  <1> USE DEF Moves, Await, Fails, NoFault
  <1>1. CASE \/ GotoSite \/ CookiesBefore \/ FindBanner \/ CountCategories \/ FindPolicyLink
             \/ BelieveConsent \/ ClickAccept \/ AnalyzeAfterConsent
    BY <1>1 DEF GotoSite, CookiesBefore, FindBanner, LookAtBanner, CountCategories, FindPolicyLink,
       BelieveConsent, ClickAccept, Click, AnalyzeAfterConsent
  <1>2. CASE \/ AnalyzeHeaders \/ AnalyzeSsl \/ AnalyzeHomeForms \/ DiscoverPages \/ DiscoverNothing
             \/ crawlHomepageLinks
    BY <1>2 DEF AnalyzeHeaders, AnalyzeSsl, AnalyzeHomeForms, DiscoverPages, DiscoverNothing,
       crawlHomepageLinks, Discover
  <1>3. CASE VisitFormPage \/ FormsDone \/ ReadPolicy \/ AssessTransfers \/ AnalyzeTechnologies
    BY <1>3 DEF VisitFormPage, FormsDone, ReadPolicy, AssessTransfers, AnalyzeTechnologies
  <1>4. CASE \/ FindBannerFails \/ CountCategoriesFails \/ FindPolicyLinkFails
             \/ ClickAcceptFails \/ AnalyzeHeadersFails \/ AnalyzeSslFails
    BY <1>4 DEF FindBannerFails, LookAtBanner, CountCategoriesFails, FindPolicyLinkFails,
       ClickAcceptFails, Click, AnalyzeHeadersFails, AnalyzeSslFails
  <1>5. CASE \/ AnalyzeHomeFormsFails \/ DiscoverPagesFails \/ crawlHomepageLinksFails
             \/ VisitFormPageFails \/ ReadPolicyFails
    BY <1>5 DEF AnalyzeHomeFormsFails, DiscoverPagesFails, Discover, crawlHomepageLinksFails,
       VisitFormPageFails, ReadPolicyFails
  <1>6. CASE LateRequest
    BY <1>6 DEF LateRequest
  <1>7. CASE ScanFails
    BY <1>7 DEF ScanFails
  <1>8. QED
    BY <1>1, <1>2, <1>3, <1>4, <1>5, <1>6, <1>7 DEF Next, Step, CallFails

(* Each finding is written in the phase that looks for it and in no other. *)
LEMMA FoundStep ==
  ASSUME Next, DOMAIN found = DOMAIN Nothing
  PROVE  /\ DOMAIN found' = DOMAIN Nothing
         /\ phase # "cookiesAfter" =>
               /\ found'.cookies = found.cookies /\ found'.trackers = found.trackers
               /\ found'.https = found.https /\ found'.mixed = found.mixed
         /\ phase \notin {"banner", "preferences"} => found'.banner = found.banner
         /\ phase \notin {"policyLink", "policyContent"} => found'.policy = found.policy
         /\ phase # "headers" => found'.headers = found.headers
         /\ phase # "ssl" => found'.ssl = found.ssl
         /\ phase \notin {"homeForms", "formPages"} => found'.forms = found.forms
         /\ phase # "transfers" => found'.services = found.services
         /\ phase # "technologies" =>
               found'.thirdParty = found.thirdParty /\ found'.technologies = found.technologies
         /\ phase \notin {"discover", "crawl", "formPages"} => found'.formPages = found.formPages
         /\ phase # "homeForms" => found'.links = found.links
  <1> USE DEF Await, Learn, Nothing
  <1>1. CASE \/ GotoSite \/ ScanFails \/ CookiesBefore \/ BelieveConsent \/ ClickAccept
             \/ ClickAcceptFails \/ FormsDone \/ ReadPolicyFails \/ FindPolicyLinkFails
             \/ LateRequest
    BY <1>1 DEF GotoSite, ScanFails, CookiesBefore, BelieveConsent, ClickAccept, Click,
       ClickAcceptFails, FormsDone, ReadPolicyFails, FindPolicyLinkFails, LateRequest
  <1>2. CASE FindBanner \/ FindBannerFails
    BY <1>2 DEF FindBanner, FindBannerFails, LookAtBanner
  <1>3. CASE CountCategories \/ CountCategoriesFails
    BY <1>3 DEF CountCategories, CountCategoriesFails
  <1>4. CASE FindPolicyLink
    BY <1>4 DEF FindPolicyLink
  <1>5. CASE AnalyzeAfterConsent
    BY <1>5 DEF AnalyzeAfterConsent
  <1>6. CASE AnalyzeHeaders \/ AnalyzeHeadersFails
    BY <1>6 DEF AnalyzeHeaders, AnalyzeHeadersFails
  <1>7. CASE AnalyzeSsl
    BY <1>7 DEF AnalyzeSsl
  <1>8. CASE AnalyzeSslFails
    BY <1>8 DEF AnalyzeSslFails
  <1>9. CASE AnalyzeHomeForms \/ AnalyzeHomeFormsFails
    BY <1>9 DEF AnalyzeHomeForms, AnalyzeHomeFormsFails
  <1>10. CASE \/ DiscoverPages \/ DiscoverPagesFails \/ DiscoverNothing
              \/ crawlHomepageLinks \/ crawlHomepageLinksFails
    <2>1. phase \in {"discover", "crawl"} /\ (found' = found \/ \E S : Learn("formPages", S))
      BY <1>10 DEF DiscoverPages, DiscoverPagesFails, DiscoverNothing, crawlHomepageLinks,
         crawlHomepageLinksFails, Discover, ChooseFormPages
    <2>2. QED
      BY <2>1
  <1>11. CASE VisitFormPage \/ VisitFormPageFails
    BY <1>11 DEF VisitFormPage, VisitFormPageFails
  <1>12. CASE ReadPolicy
    BY <1>12 DEF ReadPolicy
  <1>13. CASE AssessTransfers
    BY <1>13 DEF AssessTransfers
  <1>14. CASE AnalyzeTechnologies
    BY <1>14 DEF AnalyzeTechnologies
  <1>15. QED
    BY <1>1, <1>2, <1>3, <1>4, <1>5, <1>6, <1>7, <1>8, <1>9, <1>10, <1>11, <1>12, <1>13, <1>14
    DEF Next, Step, CallFails

-----------------------------------------------------------------------------
(***************************************************************************)
(* What the request listener has seen only grows, what it has seen before  *)
(* consent was really given it says was before consent, and what it counts *)
(* it counts for the first visit until there is consent.                   *)
(***************************************************************************)
ListenerKept ==
    /\ tracked' \in [Trackers -> {"none", "before", "after"}]
    /\ requested' \subseteq Hosts /\ requested \subseteq requested'
    /\ requested \subseteq Contacts => requested' \subseteq Contacts
    /\ early' \subseteq Trackers /\ early \subseteq early'
    /\ \A t \in Trackers : tracked[t] = "before" => tracked'[t] = "before"
    /\ \A t \in Trackers : tracked'[t] = "before" => t \in early'
    /\ thirdParty' \in Nat /\ firstVisit' \in Nat /\ firstVisit <= firstVisit'
    /\ consentGiven => thirdParty' = thirdParty
    /\ phase \in Undecided /\ phase' \in FirstVisit =>
          thirdParty' - thirdParty = firstVisit' - firstVisit
    /\ insecure' \in BOOLEAN
    /\ insecure' => insecure \/ site.mixed

LEMMA RequestsEffect ==
  ASSUME TypeOK, PageInv, TrackerInv, NEW hosts \in SUBSET Hosts, hosts \subseteq Contacts,
         NEW n \in Nat, Requests(hosts, n),
         insecure' \in BOOLEAN, insecure' => insecure \/ site.mixed
  PROVE  /\ ListenerKept
         /\ hosts \subseteq requested'
         /\ ~consentGiven => \A t \in hosts \cap Trackers : tracked'[t] = "before"
  <1>1. /\ tracked' \in [Trackers -> {"none", "before", "after"}]
        /\ \A t \in Trackers : tracked[t] = "before" => tracked'[t] = "before"
        /\ ~consentGiven => \A t \in hosts \cap Trackers : tracked'[t] = "before"
    BY DEF Requests, Track, TypeOK
  <1>2. /\ requested' \subseteq Hosts /\ requested \subseteq requested' /\ hosts \subseteq requested'
        /\ requested \subseteq Contacts => requested' \subseteq Contacts
        /\ early' \subseteq Trackers /\ early \subseteq early'
    BY DEF Requests, TypeOK, isTracker
  <1>3. \A t \in Trackers : tracked'[t] = "before" => t \in early'
    BY DEF Requests, Track, TypeOK, PageInv, TrackerInv, isTracker
  <1>4. /\ thirdParty' \in Nat /\ firstVisit' \in Nat /\ firstVisit <= firstVisit'
        /\ consentGiven => thirdParty' = thirdParty
    BY DEF Requests, TypeOK
  <1>5. ASSUME phase \in Undecided, phase' \in FirstVisit
        PROVE  thirdParty' - thirdParty = firstVisit' - firstVisit
    <2>1. ~consentGiven /\ ~accepted
      BY <1>5 DEF PageInv
    <2>2. thirdParty' = thirdParty + n /\ firstVisit' = firstVisit + n
      BY <1>5, <2>1 DEF Requests
    <2>3. QED
      BY <2>2 DEF TypeOK
  <1>6. QED
    BY <1>1, <1>2, <1>3, <1>4, <1>5 DEF ListenerKept

LEMMA SiteLoads ==
  ASSUME TypeOK, NEW p
  PROVE  LoadOf(p).hosts \subseteq Hosts /\ LoadOf(p).hosts \subseteq Contacts /\ LoadOf(p).count \in Nat
  <1>1. CASE p \in DOMAIN site.loads
    <2>1. LoadOf(p) = site.loads[p]
      BY <1>1 DEF LoadOf
    <2>2. site.loads[p].hosts \subseteq Hosts /\ site.loads[p].count \in Nat
      <3>1. site \in Sites
        BY DEF TypeOK
      <3>2. QED
        BY <1>1, <3>1, WebSitesAssumption, Zenon DEF Hosts
    <2>3. site.loads[p].hosts \subseteq Contacts
      BY <1>1 DEF Contacts
    <2>4. QED
      BY <2>1, <2>2, <2>3
  <1>2. CASE p \notin DOMAIN site.loads
    <2>1. LoadOf(p) = [hosts |-> {}, count |-> 0]
      BY <1>2 DEF LoadOf
    <2>2. QED
      BY <2>1
  <1>3. QED
    BY <1>1, <1>2

LEMMA LoadEffect ==
  ASSUME TypeOK, PageInv, TrackerInv, NEW p \in Pages, Load(p)
  PROVE  /\ at' = p /\ modal' \in BOOLEAN
         /\ ListenerKept
         /\ LoadOf(p).hosts \subseteq requested'
         /\ ~consentGiven => \A t \in LoadOf(p).hosts \cap Trackers : tracked'[t] = "before"
  <1>1. at' = p /\ modal' = FALSE /\ Requests(LoadOf(p).hosts, LoadOf(p).count)
    BY DEF Load
  <1>2. insecure' \in BOOLEAN /\ (insecure' => insecure \/ site.mixed)
    BY DEF Load, HasMixedContent, TypeOK
  <1>3. QED
    BY <1>1, <1>2, SiteLoads, RequestsEffect

LEMMA LoadFailsEffect ==
  ASSUME TypeOK, PageInv, TrackerInv, NEW p \in Pages, LoadFails(p)
  PROVE  /\ at' \in Pages \cup {at, "half", "error"} /\ modal' \in BOOLEAN
         /\ ListenerKept
  <1>1. /\ at' \in Pages \cup {at, "half", "error"}
        /\ \E hosts \in SUBSET LoadOf(p).hosts, n \in 0..LoadOf(p).count : Requests(hosts, n)
    BY DEF LoadFails
  <1>2. modal' \in BOOLEAN
    BY DEF LoadFails, TypeOK
  <1>3. insecure' \in BOOLEAN /\ (insecure' => insecure \/ site.mixed)
    BY DEF LoadFails, HasMixedContent, TypeOK
  <1>4. PICK hosts \in SUBSET LoadOf(p).hosts, n \in 0..LoadOf(p).count : Requests(hosts, n)
    BY <1>1
  <1>5. hosts \in SUBSET Hosts /\ hosts \subseteq Contacts /\ n \in Nat
    BY SiteLoads
  <1>6. ListenerKept
    BY <1>3, <1>4, <1>5, RequestsEffect
  <1>7. QED
    BY <1>1, <1>2, <1>6

LEMMA NothingRequested ==
  ASSUME TypeOK, TrackerInv, UNCHANGED requestVars
  PROVE  ListenerKept
  BY DEF TypeOK, TrackerInv, ListenerKept, requestVars

LEMMA SitePages ==
  ASSUME TypeOK
  PROVE  /\ site.late \cup site.consented \subseteq Hosts \cap Contacts
         /\ site.links \subseteq FormPages
         /\ \A p \in DOMAIN site.forms : IsFiniteSet(site.forms[p])
         /\ IsFiniteSet(site.cookies)
  <1>1. site \in Sites
    BY DEF TypeOK
  <1>2. site.late \cup site.consented \subseteq Hosts
    BY <1>1, WebSitesAssumption, Zenon DEF Hosts
  <1>3. site.late \cup site.consented \subseteq Contacts
    BY DEF Contacts
  <1>4. site.links \subseteq FormPages /\ IsFiniteSet(site.cookies)
    BY <1>1, WebSitesAssumption, Zenon
  <1>5. \A p \in DOMAIN site.forms : IsFiniteSet(site.forms[p])
    BY <1>1, WebSitesAssumption, Zenon
  <1>6. QED
    BY <1>2, <1>3, <1>4, <1>5

LEMMA SiteCookies ==
  ASSUME TypeOK
  PROVE  \A c \in site.cookies : c.before \in BOOLEAN /\ (c.necessary => c.exact \in {"none", "necessary"})
  <1>1. site \in Sites
    BY DEF TypeOK
  <1>2. ASSUME NEW c \in site.cookies
        PROVE  c.before \in BOOLEAN
    BY <1>1, WebSitesAssumption, Zenon
  <1>3. ASSUME NEW c \in site.cookies, c.necessary
        PROVE  c.exact \in {"none", "necessary"}
    BY <1>1, <1>3, WebSitesAssumption, Zenon
  <1>4. QED
    BY <1>2, <1>3

LEMMA SiteForms ==
  ASSUME TypeOK
  PROVE  \A p \in DOMAIN site.forms : \A x \in site.forms[p] :
            x.consent \in {"agree", "accept", "none"} /\ x.link \in {"privacy", "datenschutz", "none"}
  <1>1. site \in Sites
    BY DEF TypeOK
  <1>2. QED
    BY <1>1, WebSitesAssumption, Zenon

(* The steps that go to a page, with the page they go to. *)
LEMMA Navigation ==
  ASSUME SiteInv, Next
  PROVE  \/ phase = "goto" /\ phase' = "cookies" /\ GotoSite /\ Load("home")
         \/ phase = "headers" /\ AnalyzeHeaders /\ Load("home")
         \/ phase = "headers" /\ AnalyzeHeadersFails /\ LoadFails("home") /\ "headers" \in lost'
         \/ /\ phase \in {"discover", "crawl", "formPages", "policyContent"}
            /\ \E p \in Pages : Load(p) \/ LoadFails(p)
         \/ LateRequest
         \/ UNCHANGED <<at, requestVars>>
  <1> USE DEF browserVars, listenerVars
  <1>1. CASE GotoSite \/ AnalyzeHeaders \/ AnalyzeHeadersFails \/ LateRequest
    BY <1>1 DEF GotoSite, AnalyzeHeaders, AnalyzeHeadersFails, Await, Fails
  <1>2. CASE \/ CookiesBefore \/ FindBanner \/ FindBannerFails \/ CountCategories
             \/ CountCategoriesFails \/ FindPolicyLink \/ FindPolicyLinkFails \/ BelieveConsent
             \/ ClickAccept \/ ClickAcceptFails \/ AnalyzeAfterConsent \/ ScanFails
    BY <1>2 DEF CookiesBefore, FindBanner, FindBannerFails, LookAtBanner, CountCategories,
       CountCategoriesFails, FindPolicyLink, FindPolicyLinkFails, BelieveConsent, ClickAccept,
       ClickAcceptFails, Click, AnalyzeAfterConsent, ScanFails
  <1>3. CASE \/ AnalyzeSsl \/ AnalyzeSslFails \/ AnalyzeHomeForms \/ AnalyzeHomeFormsFails
             \/ DiscoverNothing \/ FormsDone \/ AssessTransfers \/ AnalyzeTechnologies
    BY <1>3 DEF AnalyzeSsl, AnalyzeSslFails, AnalyzeHomeForms, AnalyzeHomeFormsFails,
       DiscoverNothing, FormsDone, AssessTransfers, AnalyzeTechnologies
  <1>4. CASE DiscoverPages \/ DiscoverPagesFails \/ crawlHomepageLinks \/ crawlHomepageLinksFails
    <2>1. phase \in {"discover", "crawl"}
      BY <1>4 DEF DiscoverPages, DiscoverPagesFails, crawlHomepageLinks, crawlHomepageLinksFails,
         Discover, Await
    <2>2. Load("sitemap") \/ LoadFails("sitemap") \/ Load("home") \/ LoadFails("home")
      BY <1>4 DEF DiscoverPages, DiscoverPagesFails, crawlHomepageLinks, crawlHomepageLinksFails
    <2>3. QED
      BY <2>1, <2>2 DEF Pages
  <1>5. CASE VisitFormPage \/ VisitFormPageFails
    <2>1. PICK p \in found.formPages : Load(p) \/ LoadFails(p)
      BY <1>5 DEF VisitFormPage, VisitFormPageFails
    <2>2. p \in Pages /\ phase = "formPages"
      BY <1>5 DEF VisitFormPage, VisitFormPageFails, Await, SiteInv, TypeOK, Pages
    <2>3. QED
      BY <2>1, <2>2
  <1>6. CASE ReadPolicy \/ ReadPolicyFails
    BY <1>6 DEF ReadPolicy, ReadPolicyFails, Await, Pages
  <1>7. QED
    BY <1>1, <1>2, <1>3, <1>4, <1>5, <1>6 DEF Next, Step, CallFails

LEMMA ListenerStep ==
  ASSUME SiteInv, Next
  PROVE  /\ ListenerKept
         /\ at' \in Pages \cup {"blank", "half", "error"}
         /\ phase = "goto" /\ phase' = "cookies" =>
               /\ HomeHosts \subseteq requested'
               /\ \A t \in HomeHosts \cap Trackers : tracked'[t] = "before"
  <1> USE DEF SiteInv, HomeHosts
  <1>0. "home" \in Pages /\ at \in Pages \cup {"blank", "half", "error"}
    BY DEF Pages, TypeOK
  <1>1. CASE phase = "goto" /\ Load("home")
    <2>1. ~consentGiven
      BY <1>1 DEF PageInv, Undecided
    <2>2. QED
      BY <1>0, <1>1, <2>1, LoadEffect
  <1>2. CASE phase # "goto" /\ \E p \in Pages : Load(p) \/ LoadFails(p)
    BY <1>0, <1>2, LoadEffect, LoadFailsEffect
  <1>3. CASE LateRequest
    <2>1. /\ at \in {"home", "half"} /\ at' = at
          /\ UNCHANGED <<phase, insecure>>
          /\ \E h \in Hosts \cap Contacts : Requests({h}, 1)
      BY <1>3, SitePages, SiteLoads DEF LateRequest, browserVars
    <2>2. ListenerKept
      BY <2>1, RequestsEffect DEF TypeOK
    <2>3. phase # "goto"
      BY <2>1 DEF PageInv
    <2>4. QED
      BY <1>0, <2>1, <2>2, <2>3
  <1>4. CASE UNCHANGED <<at, requestVars>> /\ ~(phase = "goto" /\ phase' = "cookies")
    BY <1>0, <1>4, NothingRequested
  <1>5. phase = "goto" /\ phase' = "cookies" => GotoSite \/ LateRequest
    BY Acting DEF ScanFails
  <1>6. GotoSite => Load("home") /\ phase = "goto"
    BY DEF GotoSite, Await
  <1>7. QED
    BY <1>0, <1>1, <1>2, <1>3, <1>4, <1>5, <1>6, Navigation

-----------------------------------------------------------------------------
(***************************************************************************)
(* Where the page is, and what has been consented to.                      *)
(***************************************************************************)
LEMMA BrowserStep ==
  ASSUME Next
  PROVE  /\ consentGiven' = consentGiven \/ BelieveConsent
         /\ \/ accepted' = accepted /\ jar' = jar
            \/ phase = "goto" /\ phase' = "cookies" /\ accepted' = accepted /\ jar' = EarlyCookies
            \/ phase = "click" /\ phase' = "cookiesAfter" /\ \E c \in BOOLEAN : Click(c)
         /\ cookiesBefore' = cookiesBefore \/ CookiesBefore
  <1> USE DEF browserVars, listenerVars
  <1>1. CASE GotoSite
    BY <1>1 DEF GotoSite, Await, EarlyCookies
  <1>2. CASE ClickAccept \/ ClickAcceptFails
    <2>1. phase = "click" /\ phase' = "cookiesAfter" /\ \E c \in {FALSE, ButtonInReach} : Click(c)
      BY <1>2 DEF ClickAccept, ClickAcceptFails, Await
    <2>2. PICK c \in {FALSE, ButtonInReach} : Click(c)
      BY <2>1
    <2>3. c \in BOOLEAN
      BY DEF ButtonInReach
    <2>4. consentGiven' = consentGiven /\ cookiesBefore' = cookiesBefore
      BY <2>2 DEF Click
    <2>5. QED
      BY <2>1, <2>2, <2>3, <2>4
  <1>3. CASE \/ CookiesBefore \/ FindBanner \/ CountCategories \/ FindPolicyLink
             \/ BelieveConsent \/ AnalyzeAfterConsent \/ ScanFails
    BY <1>3 DEF CookiesBefore, FindBanner, LookAtBanner, CountCategories, FindPolicyLink,
       BelieveConsent, AnalyzeAfterConsent, ScanFails
  <1>4. CASE \/ AnalyzeHeaders \/ AnalyzeSsl \/ AnalyzeHomeForms \/ DiscoverPages \/ DiscoverNothing
             \/ crawlHomepageLinks
    BY <1>4 DEF AnalyzeHeaders, AnalyzeSsl, AnalyzeHomeForms, DiscoverPages, DiscoverNothing,
       crawlHomepageLinks
  <1>5. CASE VisitFormPage \/ FormsDone \/ ReadPolicy \/ AssessTransfers \/ AnalyzeTechnologies
    BY <1>5 DEF VisitFormPage, FormsDone, ReadPolicy, AssessTransfers, AnalyzeTechnologies
  <1>6. CASE \/ FindBannerFails \/ CountCategoriesFails \/ FindPolicyLinkFails
             \/ AnalyzeHeadersFails \/ AnalyzeSslFails
    BY <1>6 DEF FindBannerFails, LookAtBanner, CountCategoriesFails, FindPolicyLinkFails,
       AnalyzeHeadersFails, AnalyzeSslFails
  <1>7. CASE \/ AnalyzeHomeFormsFails \/ DiscoverPagesFails \/ crawlHomepageLinksFails
             \/ VisitFormPageFails \/ ReadPolicyFails
    BY <1>7 DEF AnalyzeHomeFormsFails, DiscoverPagesFails, crawlHomepageLinksFails,
       VisitFormPageFails, ReadPolicyFails
  <1>8. CASE LateRequest
    BY <1>8 DEF LateRequest
  <1>9. QED
    BY <1>1, <1>2, <1>3, <1>4, <1>5, <1>6, <1>7, <1>8 DEF Next, Step, CallFails

(* the preferences are opened by a click and closed by a navigation *)
LEMMA ModalStep ==
  ASSUME SiteInv, Next
  PROVE  modal' \in BOOLEAN
  <1> USE DEF SiteInv, browserVars
  <1>0. modal \in BOOLEAN /\ Shows("settings") \in BOOLEAN
    BY DEF TypeOK, Shows
  <1>1. ASSUME NEW p, Load(p) \/ LoadFails(p)
        PROVE  modal' \in BOOLEAN
    BY <1>0, <1>1 DEF Load, LoadFails
  <1>2. CASE \/ GotoSite \/ AnalyzeHeaders \/ AnalyzeHeadersFails \/ DiscoverPages
             \/ DiscoverPagesFails \/ crawlHomepageLinks \/ crawlHomepageLinksFails
             \/ VisitFormPage \/ VisitFormPageFails \/ ReadPolicy \/ ReadPolicyFails
    BY <1>1, <1>2 DEF GotoSite, AnalyzeHeaders, AnalyzeHeadersFails, DiscoverPages,
       DiscoverPagesFails, crawlHomepageLinks, crawlHomepageLinksFails, VisitFormPage,
       VisitFormPageFails, ReadPolicy, ReadPolicyFails
  <1>3. CASE CountCategories \/ CountCategoriesFails
    BY <1>0, <1>3 DEF CountCategories, CountCategoriesFails
  <1>4. CASE \/ CookiesBefore \/ FindBanner \/ FindBannerFails \/ FindPolicyLink
             \/ FindPolicyLinkFails \/ BelieveConsent \/ ClickAccept \/ ClickAcceptFails
             \/ AnalyzeAfterConsent \/ ScanFails \/ LateRequest
    BY <1>0, <1>4 DEF CookiesBefore, FindBanner, FindBannerFails, LookAtBanner, FindPolicyLink,
       FindPolicyLinkFails, BelieveConsent, ClickAccept, ClickAcceptFails, Click,
       AnalyzeAfterConsent, ScanFails, LateRequest
  <1>5. CASE \/ AnalyzeSsl \/ AnalyzeSslFails \/ AnalyzeHomeForms \/ AnalyzeHomeFormsFails
             \/ DiscoverNothing \/ FormsDone \/ AssessTransfers \/ AnalyzeTechnologies
    BY <1>0, <1>5 DEF AnalyzeSsl, AnalyzeSslFails, AnalyzeHomeForms, AnalyzeHomeFormsFails,
       DiscoverNothing, FormsDone, AssessTransfers, AnalyzeTechnologies
  <1>6. QED
    BY <1>2, <1>3, <1>4, <1>5 DEF Next, Step, CallFails

LEMMA PageStep ==
  ASSUME SiteInv, Next
  PROVE  PageInv'
  <1> USE DEF SiteInv, PageInv, FirstVisit, Undecided, Moves
  <1>1. /\ phase' \in FirstVisit => at' = "home"
        /\ phase' \in {"ssl", "homeForms"} => at' = "home" \/ "headers" \in lost'
    <2>1. CASE Load("home")
      BY <2>1 DEF Load
    <2>2. CASE phase = "headers" /\ AnalyzeHeadersFails /\ "headers" \in lost'
      BY <2>2, PhaseStep DEF AnalyzeHeadersFails, Await
    <2>3. CASE phase \in {"discover", "crawl", "formPages", "policyContent"}
      BY <2>3, PhaseStep DEF LateRequest
    <2>4. CASE at' = at
      <3>1. phase = "goto" /\ phase' = "cookies" => Load("home")
        BY Acting DEF ScanFails, LateRequest, GotoSite
      <3>2. phase = "headers" /\ phase' = "ssl" => Load("home") \/ "headers" \in lost'
        BY Acting DEF ScanFails, LateRequest, AnalyzeHeaders, AnalyzeHeadersFails, Fails
      <3>3. Load("home") => at' = "home"
        BY DEF Load
      <3>4. CASE phase' = phase
        BY <2>4, <3>4, PhaseStep
      <3>5. CASE <<phase, phase'>> \in Moves
        BY <2>4, <3>1, <3>2, <3>3, <3>5, PhaseStep
      <3>6. QED
        BY <3>4, <3>5, PhaseStep
    <2>5. LateRequest => at' = at
      BY DEF LateRequest, browserVars
    <2>6. QED
      BY <2>1, <2>2, <2>3, <2>4, <2>5, Navigation
  <1>2. phase' = "goto" => at' = "blank"
    BY PhaseStep DEF LateRequest
  <1>3. (phase' \in Undecided => ~consentGiven') /\ (phase' = "click" => consentGiven')
    <2>1. CASE BelieveConsent
      BY <2>1 DEF BelieveConsent, Await
    <2>2. CASE consentGiven' = consentGiven /\ ~BelieveConsent
      <3>1. phase = "consent" => phase' = phase
        BY <2>2, Acting DEF LateRequest, ScanFails
      <3>2. QED
        BY <2>2, <3>1, PhaseStep
    <2>3. QED
      BY <2>1, <2>2, BrowserStep
  <1>4. accepted' => consentGiven'
    <2>1. CASE BelieveConsent
      BY <2>1 DEF BelieveConsent, Await, browserVars
    <2>2. CASE ~BelieveConsent
      BY <2>2, BrowserStep
    <2>3. QED
      BY <2>1, <2>2
  <1>5. QED
    BY <1>1, <1>2, <1>3, <1>4

LEMMA TypeStep ==
  ASSUME SiteInv, Next
  PROVE  TypeOK'
  <1> USE DEF SiteInv, TypeOK
  <1>1. site' \in Sites /\ phase' \in Phases
    BY PhaseStep DEF Moves, Phases
  <1>2. consentGiven' \in BOOLEAN
    <2>1. CASE BelieveConsent
      <3>1. phase \in Loaded \ {"cookies", "banner", "preferences"}
        BY <2>1 DEF BelieveConsent, Await, Loaded, Phases
      <3>2. PICK seen \in Views : BannerSeen(found.banner, seen) \/ found.banner = Nothing.banner
        BY <3>1 DEF BannerInv
      <3>3. Nothing.banner.accept \in BOOLEAN
        BY DEF Nothing
      <3>4. found.banner.accept \in BOOLEAN
        <4>1. CASE BannerSeen(found.banner, seen)
          <5>1. found.banner.accept = ("accept" \in seen)
            BY <4>1 DEF BannerSeen
          <5>2. ("accept" \in seen) \in BOOLEAN
            OBVIOUS
          <5>3. QED
            BY <5>1, <5>2
        <4>2. CASE found.banner = Nothing.banner
          BY <3>3, <4>2
        <4>3. QED
          BY <3>2, <4>1, <4>2
      <3>5. QED
        BY <2>1, <3>4 DEF BelieveConsent
    <2>2. QED
      BY <2>1, BrowserStep
  <1>3. accepted' \in BOOLEAN /\ jar' \subseteq site'.cookies
    BY PhaseStep, BrowserStep DEF Click, EarlyCookies
  <1>4. modal' \in BOOLEAN
    BY ModalStep
  <1>5. DOMAIN found' = DOMAIN Nothing
    BY FoundStep
  <1>6. found'.formPages \cup found'.links \subseteq FormPages
    <2>1. ASSUME NEW urls, ChooseFormPages(urls)
          PROVE  found'.formPages \subseteq FormPages /\ found'.links = found.links
      <3>1. PICK S \in FormPageChoices(getFormPageUrls(urls)) : Learn("formPages", S)
        BY <2>1 DEF ChooseFormPages
      <3>2. S \subseteq FormPages
        BY <3>1 DEF FormPageChoices, getFormPageUrls
      <3>3. QED
        BY <3>1, <3>2 DEF Learn, Nothing
    <2>2. CASE \/ DiscoverPages \/ DiscoverPagesFails \/ DiscoverNothing
               \/ crawlHomepageLinks \/ crawlHomepageLinksFails
      <3>1. found' = found \/ \E urls : ChooseFormPages(urls)
        BY <2>2 DEF DiscoverPages, DiscoverPagesFails, DiscoverNothing, crawlHomepageLinks,
           crawlHomepageLinksFails, Discover
      <3>2. QED
        BY <2>1, <3>1
    <2>3. CASE VisitFormPage \/ VisitFormPageFails
      <3>1. \E p, forms : found' = [found EXCEPT !.forms = forms, !.formPages = @ \ {p}]
        BY <2>3 DEF VisitFormPage, VisitFormPageFails
      <3>2. QED
        BY <3>1 DEF Nothing
    <2>4. CASE AnalyzeHomeForms \/ AnalyzeHomeFormsFails
      <3>1. \A links \in {{}} \cup OnHome(site.links) : links \subseteq FormPages
        BY SitePages DEF OnHome
      <3>2. PICK links \in {{}} \cup OnHome(site.links) : \E forms :
               found' = [found EXCEPT !.forms = forms, !.links = links]
        BY <2>4 DEF AnalyzeHomeForms, AnalyzeHomeFormsFails
      <3>3. found'.links = links /\ found'.formPages = found.formPages
        BY <3>2 DEF Nothing
      <3>4. QED
        BY <3>1, <3>3
    <2>5. CASE found' = found
      BY <2>5
    <2>6. CASE phase \notin {"homeForms", "discover", "crawl", "formPages"}
      BY <2>6, FoundStep
    <2>7. QED
      BY <2>2, <2>3, <2>4, <2>5, <2>6, Acting DEF FormsDone, LateRequest, ScanFails
  <1>7. faults' \in 0..MaxFaults
    <2>1. faults' = faults \/ (faults < MaxFaults /\ faults' = faults + 1)
      <3>1. CASE Step
        BY <3>1 DEF Step, GotoSite, CookiesBefore, FindBanner, CountCategories, FindPolicyLink,
           BelieveConsent, ClickAccept, AnalyzeAfterConsent, AnalyzeHeaders, AnalyzeSsl,
           AnalyzeHomeForms, DiscoverPages, DiscoverNothing, crawlHomepageLinks, VisitFormPage,
           FormsDone, ReadPolicy, AssessTransfers, AnalyzeTechnologies, NoFault
      <3>2. CASE CallFails
        BY <3>2 DEF CallFails, ScanFails, FindBannerFails, CountCategoriesFails,
           FindPolicyLinkFails, ClickAcceptFails, AnalyzeHeadersFails, AnalyzeSslFails,
           AnalyzeHomeFormsFails, DiscoverPagesFails, crawlHomepageLinksFails,
           VisitFormPageFails, ReadPolicyFails, Fails
      <3>3. QED
        BY <3>1, <3>2 DEF Next, LateRequest, NoFault
    <2>2. QED
      BY <2>1, SiteAssumption
  <1>8. QED
    BY <1>1, <1>2, <1>3, <1>4, <1>5, <1>6, <1>7, ListenerStep, PhaseStep DEF ListenerKept

-----------------------------------------------------------------------------
(***************************************************************************)
(* The parts of the invariant, step by step.                               *)
(***************************************************************************)
(* the phases in which a finding is known *)
LEMMA PhaseGroups ==
  ASSUME Next, phase \in Phases
  PROVE  /\ phase' \in Loaded =>
               phase \in Loaded \/ (phase = "goto" /\ phase' = "cookies" /\ GotoSite)
         /\ phase' \in Judged => phase \in Judged \/ (phase = "cookiesAfter" /\ AnalyzeAfterConsent)
  <1>1. <<phase, phase'>> \in Moves \/ phase' = phase \/ phase' = "failed"
    BY PhaseStep
  <1>2. phase = "goto" /\ phase' = "cookies" => GotoSite
    BY Acting DEF ScanFails, LateRequest
  <1>3. phase = "cookiesAfter" /\ phase' # phase /\ phase' # "failed" => AnalyzeAfterConsent
    BY Acting DEF LateRequest, ScanFails
  <1>4. QED
    BY <1>1, <1>2, <1>3 DEF Moves, Loaded, Judged, Undecided, Phases

LEMMA CookieStep ==
  ASSUME SiteInv, Next
  PROVE  CookieInv'
  <1> USE DEF SiteInv
  <1>0. site' = site /\ EarlyCookies' = EarlyCookies
    BY PhaseStep DEF EarlyCookies
  <1>1. EarlyCookies \subseteq site.cookies /\ jar \subseteq site.cookies
    BY DEF EarlyCookies, TypeOK
  <1>2. phase' \in Loaded => EarlyCookies \subseteq jar'
    <2>1. GotoSite => jar' = EarlyCookies
      BY DEF GotoSite, EarlyCookies
    <2>2. \A c \in BOOLEAN : Click(c) => jar' = site.cookies \/ jar' = jar
      BY DEF Click
    <2>3. QED
      BY <1>1, <2>1, <2>2, PhaseGroups, BrowserStep DEF CookieInv, TypeOK
  <1>3. phase' = "cookies" => jar' = EarlyCookies
    <2>1. CASE GotoSite
      BY <2>1 DEF GotoSite, EarlyCookies
    <2>2. CASE LateRequest
      BY <2>2 DEF LateRequest, CookieInv, browserVars
    <2>3. QED
      BY <2>1, <2>2, PhaseStep, Acting DEF Moves, ScanFails
  <1>4. phase' \in Loaded \ {"cookies"} => cookiesBefore' = {mapCookie(c) : c \in EarlyCookies}
    <2>1. CASE CookiesBefore
      BY <2>1 DEF CookiesBefore, Await, CookieInv
    <2>2. CASE ~CookiesBefore
      <3>1. cookiesBefore' = cookiesBefore
        BY <2>2, BrowserStep
      <3>2. phase' \in Loaded \ {"cookies"} => phase \in Loaded \ {"cookies"}
        BY <2>2, PhaseGroups, Acting DEF LateRequest, ScanFails, TypeOK, Loaded
      <3>3. QED
        BY <3>1, <3>2 DEF CookieInv
    <2>3. QED
      BY <2>1, <2>2
  <1>5. ASSUME phase' \in Judged
        PROVE  /\ {mapCookie(c) : c \in EarlyCookies} \subseteq found'.cookies
               /\ found'.cookies \subseteq {mapCookie(c) : c \in site.cookies}
    <2>1. CASE phase = "cookiesAfter" /\ AnalyzeAfterConsent
      <3> DEFINE now == {mapCookie(c) : c \in jar}
      <3>1. found'.cookies = mergeCookies(cookiesBefore, now)
        BY <2>1 DEF AnalyzeAfterConsent, TypeOK, Nothing
      <3>2. /\ EarlyCookies \subseteq jar
            /\ cookiesBefore = {mapCookie(c) : c \in EarlyCookies}
        BY <2>1 DEF CookieInv, Loaded, Phases
      <3>3. cookiesBefore \cup now = now
        BY <3>2
      <3>4. \A c \in jar : mapCookie(c).before = c.before /\ c.before \in BOOLEAN
        <4>1. \A c \in jar : c.before \in BOOLEAN
          BY <1>1, SiteCookies
        <4>2. \A c \in jar : mapCookie(c).before = c.before
          BY DEF mapCookie
        <4>3. QED
          BY <4>1, <4>2
      <3>5. ASSUME NEW c \in jar
            PROVE  mapCookie(c).before = (mapCookie(c) \in cookiesBefore)
        <4>1. CASE c.before
          BY <1>1, <3>2, <3>4, <4>1 DEF EarlyCookies
        <4>2. CASE ~c.before
          <5>1. mapCookie(c) \notin cookiesBefore
            BY <3>2, <3>4, <4>2 DEF EarlyCookies
          <5>2. QED
            BY <3>4, <4>2, <5>1
        <4>3. QED
          BY <4>1, <4>2
      <3>6. ASSUME NEW c \in jar
            PROVE  [mapCookie(c) EXCEPT !.before = mapCookie(c) \in cookiesBefore] = mapCookie(c)
        <4>1. \A m : m.before = (m \in cookiesBefore) /\ "before" \in DOMAIN m /\ m = [f \in DOMAIN m |-> m[f]]
                 => [m EXCEPT !.before = m \in cookiesBefore] = m
          OBVIOUS
        <4>2. "before" \in DOMAIN mapCookie(c) /\ mapCookie(c) = [f \in DOMAIN mapCookie(c) |-> mapCookie(c)[f]]
          BY DEF mapCookie
        <4> HIDE DEF mapCookie
        <4>3. QED
          BY <3>5, <4>1, <4>2
      <3>7. mergeCookies(cookiesBefore, now) = now
        BY <3>3, <3>6 DEF mergeCookies
      <3>8. QED
        BY <1>1, <3>1, <3>2, <3>7
    <2>2. CASE phase \in Judged
      <3>1. found'.cookies = found.cookies
        BY <2>2, FoundStep DEF Judged, TypeOK
      <3>2. QED
        BY <2>2, <3>1 DEF CookieInv
    <2>3. QED
      BY <1>5, <2>1, <2>2, PhaseGroups DEF TypeOK
  <1>6. QED
    BY <1>0, <1>2, <1>3, <1>4, <1>5 DEF CookieInv

LEMMA TrackerStep ==
  ASSUME SiteInv, Next
  PROVE  TrackerInv'
  <1> USE DEF SiteInv
  <1> DEFINE first == HomeHosts \cap Trackers
  <1>0. site' = site /\ HomeHosts' = HomeHosts
    BY PhaseStep DEF HomeHosts, LoadOf
  <1>1. \A t \in Trackers : tracked'[t] = "before" => t \in early'
    BY ListenerStep DEF ListenerKept
  <1>2. phase' \in Loaded => \A t \in first : tracked'[t] = "before"
    <2>1. phase \in Loaded => \A t \in first : tracked'[t] = "before"
      BY ListenerStep DEF ListenerKept, TrackerInv
    <2>2. phase = "goto" /\ phase' = "cookies" => \A t \in first : tracked'[t] = "before"
      BY ListenerStep
    <2>3. QED
      BY <2>1, <2>2, PhaseGroups DEF TypeOK
  <1>3. ASSUME phase' \in Judged
        PROVE  /\ \A k \in found'.trackers : k.before => k.host \in early'
               /\ \A t \in first : [host |-> t, before |-> TRUE] \in found'.trackers
    <2>1. CASE phase = "cookiesAfter" /\ AnalyzeAfterConsent
      <3>1. found'.trackers = {[host |-> t, before |-> tracked[t] = "before"] :
                                 t \in {u \in Trackers : tracked[u] # "none"}}
        BY <2>1 DEF AnalyzeAfterConsent, TypeOK, Nothing
      <3>2. \A t \in first : tracked[t] = "before"
        BY <2>1 DEF TrackerInv, Loaded, Phases
      <3>3. early \subseteq early'
        BY ListenerStep DEF ListenerKept
      <3>4. ASSUME NEW k \in found'.trackers, k.before
            PROVE  k.host \in early'
        <4>1. PICK t \in Trackers : k = [host |-> t, before |-> tracked[t] = "before"]
          BY <3>1, <3>4
        <4>2. tracked[t] = "before" /\ k.host = t
          BY <3>4, <4>1
        <4>3. QED
          BY <3>3, <4>2 DEF TrackerInv
      <3>5. ASSUME NEW t \in first
            PROVE  [host |-> t, before |-> TRUE] \in found'.trackers
        <4>1. (tracked[t] = "before") = TRUE
          BY <3>2
        <4>2. [host |-> t, before |-> tracked[t] = "before"] \in found'.trackers
          BY <3>1, <3>2
        <4>3. QED
          BY <4>1, <4>2
      <3>6. QED
        BY <3>4, <3>5
    <2>2. CASE phase \in Judged
      <3>1. found'.trackers = found.trackers
        BY <2>2, FoundStep DEF Judged, TypeOK
      <3>2. early \subseteq early'
        BY ListenerStep DEF ListenerKept
      <3>3. QED
        BY <2>2, <3>1, <3>2 DEF TrackerInv
    <2>3. QED
      BY <1>3, <2>1, <2>2, PhaseGroups DEF TypeOK
  <1>4. QED
    BY <1>0, <1>1, <1>2, <1>3 DEF TrackerInv

LEMMA RequestStep ==
  ASSUME SiteInv, Next
  PROVE  RequestInv'
  <1> USE DEF SiteInv
  <1> DEFINE first == HomeHosts \cap site.scripts \cap Signatures
  <1>0. site' = site /\ HomeHosts' = HomeHosts /\ Contacts' = Contacts
    BY PhaseStep DEF HomeHosts, LoadOf, Contacts
  <1>1. requested \subseteq requested' /\ requested' \subseteq Contacts
    BY ListenerStep DEF ListenerKept, RequestInv
  <1>2. phase' \in Loaded => HomeHosts \subseteq requested'
    <2>1. phase \in Loaded => HomeHosts \subseteq requested'
      BY <1>1 DEF RequestInv
    <2>2. phase = "goto" /\ phase' = "cookies" => HomeHosts \subseteq requested'
      BY ListenerStep
    <2>3. QED
      BY <2>1, <2>2, PhaseGroups DEF TypeOK
  <1>3. ASSUME phase' \in {"technologies", "done"}
        PROVE  /\ {Service(h) : h \in HomeHosts \cap USServices} \subseteq found'.services
               /\ found'.services \subseteq {Service(h) : h \in Contacts \cap USServices}
    <2>1. CASE AssessTransfers
      <3>1. found'.services = {Service(h) : h \in requested \cap USServices}
        <4>1. {u \in requested : isUSService(u)} = requested \cap USServices
          BY DEF isUSService
        <4>2. found'.services = {[host |-> h, highRisk |-> isHighRisk(h)] : h \in requested \cap USServices}
          BY <2>1, <4>1 DEF AssessTransfers, Learn, TypeOK, Nothing
        <4>3. QED
          BY <4>2 DEF Service
      <3>2. HomeHosts \subseteq requested
        BY <2>1 DEF AssessTransfers, Await, RequestInv, Loaded, Phases
      <3>3. requested \subseteq Contacts
        BY DEF RequestInv
      <3>4. QED
        BY <3>1, <3>2, <3>3
    <2>2. CASE ~AssessTransfers
      <3>1. phase \in {"technologies", "done"}
        BY <1>3, <2>2, PhaseStep, Acting DEF Moves, LateRequest, ScanFails
      <3>2. found'.services = found.services
        BY <3>1, FoundStep DEF TypeOK
      <3>3. QED
        BY <3>1, <3>2 DEF RequestInv
    <2>3. QED
      BY <2>1, <2>2
  <1>4. ASSUME phase' = "done"
        PROVE  first \subseteq found'.technologies
    <2>1. phase = "technologies" /\ AnalyzeTechnologies
      BY <1>4, PhaseStep, Acting DEF Moves, LateRequest, ScanFails, Ended
    <2>2. PICK markup \in OnHome(site.markup) :
             found'.technologies = {t \in TECH_SIGNATURES : matchesTechnology(t, markup)}
      BY <2>1 DEF AnalyzeTechnologies, TypeOK, Nothing
    <2>3. HomeHosts \subseteq requested
      BY <2>1 DEF RequestInv, Loaded, Phases
    <2>4. QED
      BY <2>2, <2>3 DEF TECH_SIGNATURES, matchesTechnology
  <1>5. QED
    BY <1>0, <1>1, <1>2, <1>3, <1>4 DEF RequestInv, Service, isHighRisk, isUSService

LEMMA CountStep ==
  ASSUME SiteInv, Next
  PROVE  CountInv'
  <1> USE DEF SiteInv, TypeOK
  <1>1. thirdParty' \in Nat /\ firstVisit' \in Nat /\ firstVisit <= firstVisit'
    BY ListenerStep DEF ListenerKept
  <1>2. phase' \in Undecided => thirdParty' = firstVisit'
    <2>1. phase' \in Undecided => phase \in Undecided
      BY PhaseStep DEF Moves, Undecided
    <2>2. CASE phase' \in FirstVisit
      BY <1>1, <2>1, <2>2, ListenerStep DEF ListenerKept, CountInv
    <2>3. CASE phase' \notin FirstVisit
      <3>1. phase' \in Undecided => phase' = "goto"
        BY <2>3 DEF Undecided, FirstVisit
      <3>2. phase' = "goto" => phase = "goto" /\ LateRequest
        BY PhaseStep DEF Moves
      <3>3. ~(phase = "goto" /\ LateRequest)
        BY DEF LateRequest, PageInv
      <3>4. QED
        BY <3>1, <3>2, <3>3
    <2>4. QED
      BY <2>2, <2>3
  <1>3. consentGiven' => thirdParty' <= firstVisit'
    <2>1. CASE BelieveConsent
      <3>1. thirdParty = firstVisit
        BY <2>1 DEF BelieveConsent, Await, CountInv, Undecided
      <3>2. QED
        BY <2>1, <3>1 DEF BelieveConsent, requestVars
    <2>2. CASE ~BelieveConsent
      <3>1. consentGiven' = consentGiven
        BY <2>2, BrowserStep
      <3>2. consentGiven => thirdParty' = thirdParty
        BY ListenerStep DEF ListenerKept
      <3>3. QED
        BY <1>1, <3>1, <3>2 DEF CountInv
    <2>3. QED
      BY <2>1, <2>2
  <1>4. phase' \in Loaded \ Undecided => consentGiven' = found'.banner.accept
    <2>1. CASE BelieveConsent
      BY <2>1 DEF BelieveConsent
    <2>2. CASE ~BelieveConsent
      <3>1. consentGiven' = consentGiven
        BY <2>2, BrowserStep
      <3>2. phase' \in Loaded \ Undecided => phase \in Loaded \ Undecided
        BY <2>2, PhaseStep, Acting DEF Moves, Loaded, Undecided, Phases, LateRequest, ScanFails
      <3>3. phase \in Loaded \ Undecided => found'.banner = found.banner
        BY FoundStep DEF Undecided
      <3>4. QED
        BY <3>1, <3>2, <3>3 DEF CountInv
    <2>3. QED
      BY <2>1, <2>2
  <1>5. phase' = "done" => found'.thirdParty = thirdParty'
    <2>1. phase' = "done" => phase = "technologies" /\ AnalyzeTechnologies
      BY PhaseStep, Acting DEF Moves, LateRequest, ScanFails, Ended
    <2>2. ASSUME AnalyzeTechnologies
          PROVE  found'.thirdParty = thirdParty'
      BY <2>2 DEF AnalyzeTechnologies, listenerVars, requestVars, Nothing
    <2>3. QED
      BY <2>1, <2>2
  <1>6. QED
    BY <1>2, <1>3, <1>4, <1>5 DEF CountInv

LEMMA TransportStep ==
  ASSUME SiteInv, Next
  PROVE  TransportInv'
  <1> USE DEF SiteInv
  <1>0. site' = site
    BY PhaseStep
  <1>1. insecure' => site.mixed
    BY ListenerStep DEF ListenerKept, TransportInv
  <1>2. ASSUME phase' \in Judged
        PROVE  found'.https = (site.scheme # "http") /\ (found'.mixed => site.mixed)
    <2>1. CASE AnalyzeAfterConsent
      BY <2>1 DEF AnalyzeAfterConsent, TypeOK, Nothing, TransportInv
    <2>2. CASE phase \in Judged
      BY <2>2, FoundStep DEF Judged, TypeOK, TransportInv
    <2>3. QED
      BY <1>2, <2>1, <2>2, PhaseGroups DEF TypeOK
  <1>3. QED
    BY <1>0, <1>1, <1>2 DEF TransportInv

(* What has been seen stays so, and what has been missed stays lost. *)
LEMMA ViewsKept ==
  ASSUME Next
  PROVE  /\ site' = site /\ Views \subseteq Views'
         /\ \A b, seen : BannerSeen(b, seen)' = BannerSeen(b, seen)
         /\ Granular(Shows("settings"))' = Granular(Shows("settings"))
  BY PhaseStep DEF Views, Granular, Shows

LEMMA BannerStep ==
  ASSUME SiteInv, Next
  PROVE  BannerInv'
  <1> USE DEF SiteInv
  <1> DEFINE later == Loaded \ {"cookies", "banner", "preferences"}
  <1> DEFINE known == \E seen \in Views :
                IF "banner" \in seen
                THEN /\ BannerSeen(found.banner, seen)
                     /\ found.banner.granular = Granular(Shows("settings")) \/ "categories" \in lost
                ELSE found.banner = Nothing.banner
  <1>0. "banner" \in DOMAIN found
    BY DEF TypeOK, Nothing
  <1>1. CASE FindBanner \/ FindBannerFails
    <2>1. PICK seen \in Views' : LookAtBanner(seen)
      <3>1. CASE FindBanner
        <4>1. site.banner \in Views'
          BY PhaseStep DEF Views
        <4>2. QED
          BY <3>1, <4>1 DEF FindBanner
      <3>2. CASE FindBannerFails
        <4>1. PICK missed : LookAtBanner(site.banner \ missed) /\ lost' = lost \cup missed
          BY <3>2 DEF FindBannerFails, Fails
        <4>2. site.banner \ missed \in Views'
          BY <4>1, PhaseStep DEF Views
        <4>3. QED
          BY <4>1, <4>2
      <3>3. QED
        BY <1>1, <3>1, <3>2
    <2>2. CASE "banner" \in seen
      <3>1. phase' = "preferences"
        BY <2>1, <2>2 DEF LookAtBanner, Await
      <3>2. BannerSeen(found'.banner, seen)
        BY <1>0, <2>1, <2>2 DEF LookAtBanner, Learn, BannerSeen, detectPreCheckedBoxes
      <3>3. QED
        BY <2>2, <3>1, <3>2, ViewsKept DEF BannerInv, Undecided
    <2>3. CASE "banner" \notin seen
      <3>1. phase' = "policyLink" /\ found' = [found EXCEPT !["banner"] = Nothing.banner]
        BY <2>1, <2>3 DEF LookAtBanner, Await, Learn
      <3>2. found'.banner = Nothing.banner
        BY <1>0, <3>1
      <3>3. QED
        BY <2>3, <3>1, <3>2 DEF BannerInv, Undecided, Nothing
    <2>4. QED
      BY <2>2, <2>3
  <1>2. CASE CountCategories \/ CountCategoriesFails
    <2>1. phase' = "policyLink"
      BY <1>2 DEF CountCategories, CountCategoriesFails, Await
    <2>2. PICK seen \in Views : "banner" \in seen /\ BannerSeen(found.banner, seen)
      BY <1>2 DEF CountCategories, CountCategoriesFails, Await, BannerInv
    <2>3. \E granular :
            /\ found'.banner = [found.banner EXCEPT !.granular = granular]
            /\ granular = Granular(Shows("settings")) \/ "categories" \in lost'
      BY <1>0, <1>2 DEF CountCategories, CountCategoriesFails, Learn, Fails
    <2>4. PICK granular :
            /\ found'.banner = [found.banner EXCEPT !.granular = granular]
            /\ granular = Granular(Shows("settings")) \/ "categories" \in lost'
      BY <2>3
    <2>5. BannerSeen(found'.banner, seen) /\ found'.banner.granular = granular
      BY <2>2, <2>4 DEF BannerSeen
    <2>6. QED
      BY <2>1, <2>2, <2>4, <2>5, ViewsKept DEF BannerInv, Undecided
  <1>3. CASE LateRequest
    <2>1. phase' = phase /\ found' = found /\ lost \subseteq lost'
      BY <1>3, PhaseStep DEF LateRequest
    <2>2. QED
      BY <2>1, ViewsKept DEF BannerInv, Nothing
  <1>4. CASE phase \notin {"banner", "preferences"} /\ ~LateRequest
    <2>1. found'.banner = found.banner /\ phase' # "preferences" /\ lost \subseteq lost'
      BY <1>4, FoundStep, PhaseStep DEF Moves, TypeOK
    <2>2. phase' \in later => phase \in later
      BY <1>4, PhaseStep DEF Moves, Loaded, Phases, TypeOK
    <2>3. phase' \in later => known
      BY <2>2 DEF BannerInv
    <2>4. phase' \in {"goto", "cookies", "banner"} => found'.banner = Nothing.banner
      BY <1>4, <2>1, PhaseStep DEF Moves, BannerInv, Undecided
    <2>5. QED
      BY <2>1, <2>3, <2>4, ViewsKept DEF BannerInv, Undecided, Nothing
  <1>5. CASE ScanFails
    BY <1>5 DEF ScanFails, BannerInv, Undecided, Loaded
  <1>6. QED
    BY <1>1, <1>2, <1>3, <1>4, <1>5, Acting

LEMMA PolicyStep ==
  ASSUME SiteInv, Next
  PROVE  PolicyInv'
  <1> USE DEF SiteInv
  <1> DEFINE later == Loaded \ {"cookies", "banner", "preferences", "policyLink"}
  <1>0. site' = site /\ "policy" \in DOMAIN found /\ lost \subseteq lost'
    BY PhaseStep DEF TypeOK, Nothing
  <1>1. CASE FindPolicyLink
    <2>1. found'.policy = [found.policy EXCEPT !.found = site.policy.linked]
      BY <1>0, <1>1 DEF FindPolicyLink, Learn
    <2>2. QED
      BY <1>0, <2>1 DEF PolicyInv
  <1>2. CASE ReadPolicy
    <2>1. found'.policy = [found.policy EXCEPT !.analyzed = site.policy.readable,
                                               !.elements = site.policy.elements]
      BY <1>0, <1>2 DEF ReadPolicy, Learn
    <2>2. site.policy.linked => found.policy.found \/ "policyLink" \in lost
      BY <1>2 DEF ReadPolicy, Await, PolicyInv, Loaded, Phases
    <2>3. QED
      BY <1>0, <2>1, <2>2 DEF PolicyInv
  <1>3. CASE FindPolicyLinkFails
    BY <1>0, <1>3 DEF FindPolicyLinkFails, Fails, PolicyInv
  <1>4. CASE ~FindPolicyLink /\ ~ReadPolicy /\ ~FindPolicyLinkFails
    <2>1. found'.policy = found.policy
      <3>1. CASE found' = found
        BY <3>1
      <3>2. CASE phase \notin {"policyLink", "policyContent"}
        BY <3>2, FoundStep DEF TypeOK
      <3>3. QED
        BY <1>4, <3>1, <3>2, Acting DEF LateRequest, ReadPolicyFails, ScanFails
    <2>2. phase' \in later => phase \in later
      BY <1>4, Acting, PhaseStep DEF Moves, Loaded, Phases, TypeOK, LateRequest, ScanFails
    <2>3. QED
      BY <1>0, <2>1, <2>2 DEF PolicyInv
  <1>5. QED
    BY <1>1, <1>2, <1>3, <1>4

LEMMA ServerStep ==
  ASSUME SiteInv, Next
  PROVE  ServerInv'
  <1> USE DEF SiteInv
  <1>0. site' = site /\ "headers" \in DOMAIN found /\ "ssl" \in DOMAIN found /\ lost \subseteq lost'
    BY PhaseStep DEF TypeOK, Nothing
  <1>1. ASSUME phase' \in Judged \ {"headers"}
        PROVE  found'.headers = site.headers \/ ("headers" \in lost' /\ found'.headers = Nothing.headers)
    <2>1. CASE AnalyzeHeaders
      BY <1>0, <2>1 DEF AnalyzeHeaders, Learn
    <2>2. CASE AnalyzeHeadersFails
      <3>1. found' = [found EXCEPT !["headers"] = Nothing.headers] /\ "headers" \in lost'
        BY <2>2 DEF AnalyzeHeadersFails, Learn, Fails
      <3>2. QED
        BY <1>0, <3>1
    <2>3. CASE ~AnalyzeHeaders /\ ~AnalyzeHeadersFails
      <3>1. phase \in Judged \ {"headers"}
        BY <1>1, <2>3, Acting, PhaseStep DEF Moves, Judged, Loaded, Undecided, Phases, LateRequest, ScanFails
      <3>2. found'.headers = found.headers
        BY <3>1, FoundStep DEF TypeOK
      <3>3. QED
        BY <1>0, <3>1, <3>2 DEF ServerInv
    <2>4. QED
      BY <2>1, <2>2, <2>3
  <1>2. ASSUME phase' \in Judged \ {"headers", "ssl"}
        PROVE  found'.ssl = CertificateSeen \/ ("ssl" \in lost' /\ found'.ssl = NoCertificate)
    <2>1. CASE AnalyzeSsl
      BY <1>0, <2>1 DEF AnalyzeSsl, Learn, CertificateSeen
    <2>2. CASE AnalyzeSslFails
      <3>1. found' = [found EXCEPT !["ssl"] = NoCertificate] /\ "ssl" \in lost'
        BY <2>2 DEF AnalyzeSslFails, Learn, Fails, NoCertificate
      <3>2. QED
        BY <1>0, <3>1
    <2>3. CASE ~AnalyzeSsl /\ ~AnalyzeSslFails
      <3>1. phase \in Judged \ {"headers", "ssl"}
        BY <1>2, <2>3, Acting, PhaseStep DEF Moves, Judged, Loaded, Undecided, Phases, LateRequest, ScanFails
      <3>2. found'.ssl = found.ssl
        BY <3>1, FoundStep DEF TypeOK
      <3>3. QED
        BY <1>0, <3>1, <3>2 DEF ServerInv
    <2>4. QED
      BY <2>1, <2>2, <2>3
  <1>3. CertificateSeen' = CertificateSeen /\ NoCertificate' = NoCertificate
    BY <1>0 DEF CertificateSeen, NoCertificate, Authorized
  <1>4. QED
    BY <1>0, <1>1, <1>2, <1>3 DEF ServerInv, Nothing

(* What is read on a page are finitely many forms, each seen as a form of the site. *)
LEMMA FormsOnPage ==
  ASSUME TypeOK, NEW p, NEW shown \in SUBSET FormsAt(p)
  PROVE  /\ IsFiniteSet(analyzeFormsOnPage(shown))
         /\ \A k \in analyzeFormsOnPage(shown) : \E x \in AllForms : SeenAs(k, x)
  <1> DEFINE forms == {x \in shown : x.inForm}
  <1> DEFINE inputs == {y \in shown : ~y.inForm /\ y.email}
  <1>1. analyzeFormsOnPage(shown) = IF forms # {} THEN {analyzeForm(x) : x \in forms}
                                    ELSE {detectJSRenderedForm(x) : x \in inputs}
    BY DEF analyzeFormsOnPage
  <1>2. IsFiniteSet(shown) /\ shown \subseteq AllForms /\ \A x \in shown : ~x.search
    <2>1. IsFiniteSet(FormsAt(p)) /\ FormsAt(p) \subseteq AllForms /\ \A x \in FormsAt(p) : ~x.search
      BY SitePages, FS_Subset, FS_EmptySet DEF FormsAt, AllForms
    <2>2. QED
      BY <2>1, FS_Subset
  <1>3. forms \subseteq shown /\ inputs \subseteq shown /\ \A y \in inputs : ~y.inForm
    OBVIOUS
  <1> HIDE DEF forms, inputs
  <1>4. IsFiniteSet(forms) /\ IsFiniteSet(inputs)
    BY <1>2, <1>3, FS_Subset
  <1>5. IsFiniteSet(analyzeFormsOnPage(shown))
    <2>1. IsFiniteSet({analyzeForm(x) : x \in forms})
      <3>1. [x \in forms |-> analyzeForm(x)] \in Surjection(forms, {analyzeForm(x) : x \in forms})
        BY DEF Surjection
      <3>2. QED
        BY <1>4, <3>1, FS_Surjection
    <2>2. IsFiniteSet({detectJSRenderedForm(x) : x \in inputs})
      <3>1. [x \in inputs |-> detectJSRenderedForm(x)]
              \in Surjection(inputs, {detectJSRenderedForm(x) : x \in inputs})
        BY DEF Surjection
      <3>2. QED
        BY <1>4, <3>1, FS_Surjection
    <2>3. QED
      BY <1>1, <2>1, <2>2
  <1>6. ASSUME NEW k \in analyzeFormsOnPage(shown)
        PROVE  \E x \in AllForms : SeenAs(k, x)
    BY <1>1, <1>2, <1>3, <1>6 DEF SeenAs
  <1>7. QED
    BY <1>5, <1>6

LEMMA FormStep ==
  ASSUME SiteInv, Next
  PROVE  FormInv'
  <1> USE DEF SiteInv
  <1> DEFINE later == Judged \ {"headers", "ssl", "homeForms"}
  <1>0. site' = site /\ "forms" \in DOMAIN found /\ lost \subseteq lost'
    BY PhaseStep DEF TypeOK, Nothing
  <1>1. HomeForms' = HomeForms /\ AllForms' = AllForms
    BY <1>0 DEF HomeForms, FormsAt, AllForms, analyzeFormsOnPage
  <1>2. \A all : \A shown \in OnHome(all) : shown \subseteq all /\ (at = "home" => shown = all)
    BY DEF OnHome
  <1>3. ASSUME phase' \in later
        PROVE  /\ IsFiniteSet(found'.forms)
               /\ lost' \cap {"headers", "forms"} = {} => HomeForms \subseteq found'.forms
               /\ \A k \in found'.forms : \E x \in AllForms : SeenAs(k, x)
    <2>1. CASE AnalyzeHomeForms
      <3>1. PICK shown \in OnHome(FormsAt("home")) : found'.forms = analyzeFormsOnPage(shown)
        BY <1>0, <2>1 DEF AnalyzeHomeForms
      <3>2. shown \subseteq FormsAt("home") /\ (at = "home" => shown = FormsAt("home"))
        BY <1>2
      <3>3. at = "home" \/ "headers" \in lost'
        BY <1>0, <2>1 DEF AnalyzeHomeForms, Await, PageInv
      <3>4. lost' \cap {"headers", "forms"} = {} => HomeForms \subseteq found'.forms
        BY <3>1, <3>2, <3>3 DEF HomeForms
      <3>5. QED
        BY <3>1, <3>2, <3>4, FormsOnPage
    <2>2. CASE AnalyzeHomeFormsFails
      <3>1. PICK shown \in OnHome(FormsAt("home")) : \E read \in SUBSET shown :
               found'.forms = analyzeFormsOnPage(read)
        BY <1>0, <2>2 DEF AnalyzeHomeFormsFails
      <3>2. PICK read \in SUBSET shown : found'.forms = analyzeFormsOnPage(read)
        BY <3>1
      <3>3. read \subseteq FormsAt("home") /\ "forms" \in lost'
        BY <1>2, <2>2 DEF AnalyzeHomeFormsFails, Fails
      <3>4. QED
        BY <3>2, <3>3, FormsOnPage
    <2>3. CASE VisitFormPage \/ VisitFormPageFails
      <3>1. phase \in later
        BY <2>3 DEF VisitFormPage, VisitFormPageFails, Await, Judged, Loaded, Undecided, Phases
      <3>2. \E p : \E read \in SUBSET FormsAt(p) :
               found'.forms = found.forms \cup analyzeFormsOnPage(read)
        BY <1>0, <2>3 DEF VisitFormPage, VisitFormPageFails
      <3>3. PICK p : \E read \in SUBSET FormsAt(p) :
               found'.forms = found.forms \cup analyzeFormsOnPage(read)
        BY <3>2
      <3>4. PICK read \in SUBSET FormsAt(p) :
               found'.forms = found.forms \cup analyzeFormsOnPage(read)
        BY <3>3
      <3>5. IsFiniteSet(found'.forms)
        BY <3>1, <3>4, FormsOnPage, FS_Union DEF FormInv
      <3>6. QED
        BY <1>0, <3>1, <3>4, <3>5, FormsOnPage DEF FormInv
    <2>4. CASE /\ ~AnalyzeHomeForms /\ ~AnalyzeHomeFormsFails
               /\ ~VisitFormPage /\ ~VisitFormPageFails
      <3>1. phase \in later
        BY <1>3, <2>4, Acting, PhaseStep DEF Moves, Judged, Loaded, Undecided, Phases, LateRequest, ScanFails
      <3>2. found'.forms = found.forms
        <4>1. CASE FormsDone \/ LateRequest \/ ScanFails
          BY <4>1 DEF FormsDone, LateRequest, ScanFails
        <4>2. CASE phase \notin {"homeForms", "formPages"}
          BY <4>2, FoundStep DEF TypeOK
        <4>3. QED
          BY <2>4, <3>1, <4>1, <4>2, Acting
      <3>3. QED
        BY <1>0, <3>1, <3>2 DEF FormInv
    <2>5. QED
      BY <2>1, <2>2, <2>3, <2>4
  <1>4. QED
    BY <1>0, <1>1, <1>3 DEF FormInv, SeenAs

-----------------------------------------------------------------------------

-----------------------------------------------------------------------------
LEMMA InitSite == Init => SiteInv
  <1> SUFFICES ASSUME Init
               PROVE  SiteInv
    OBVIOUS
  <1>1. TypeOK
    <2>1. site \in Sites /\ phase \in Phases /\ at \in Pages \cup {"blank", "half", "error"}
      BY DEF Init, Phases
    <2>2. DOMAIN found = DOMAIN Nothing /\ found.formPages \cup found.links \subseteq FormPages
      BY DEF Init, Nothing
    <2>3. faults \in 0..MaxFaults
      BY SiteAssumption DEF Init
    <2>4. QED
      BY <2>1, <2>2, <2>3 DEF Init, TypeOK
  <1>2. PageInv /\ CookieInv /\ TrackerInv /\ TransportInv /\ CountInv
    BY DEF Init, PageInv, CookieInv, TrackerInv, TransportInv, CountInv, FirstVisit, Undecided, Loaded,
       Judged
  <1>3. RequestInv /\ BannerInv /\ ServerInv /\ FormInv
    BY FS_EmptySet DEF Init, RequestInv, BannerInv, ServerInv, FormInv, Loaded, Judged, Undecided
  <1>4. PolicyInv
    BY DEF Init, PolicyInv, Nothing, Loaded
  <1>5. QED
    BY <1>1, <1>2, <1>3, <1>4 DEF SiteInv

LEMMA StepSite == SiteInv /\ [Next]_vars => SiteInv'
  <1> SUFFICES ASSUME SiteInv, [Next]_vars
               PROVE  SiteInv'
    OBVIOUS
  <1>1. CASE Next
    BY <1>1, TypeStep, PageStep, CookieStep, TrackerStep, RequestStep, CountStep, TransportStep,
       BannerStep, PolicyStep, ServerStep, FormStep DEF SiteInv
  <1>2. CASE UNCHANGED vars
    <2> USE DEF vars, browserVars, listenerVars, requestVars, SiteInv
    <2>1. TypeOK'
      BY <1>2 DEF TypeOK
    <2>2. PageInv' /\ CountInv' /\ TransportInv' /\ PolicyInv'
      BY <1>2 DEF PageInv, CountInv, TransportInv, PolicyInv
    <2>3. CookieInv' /\ TrackerInv' /\ RequestInv'
      BY <1>2 DEF CookieInv, EarlyCookies, TrackerInv, RequestInv, HomeHosts, LoadOf, Contacts
    <2>4. BannerInv'
      BY <1>2 DEF BannerInv, Views, Granular, Shows
    <2>5. ServerInv'
      BY <1>2 DEF ServerInv, CertificateSeen
    <2>6. FormInv'
      BY <1>2 DEF FormInv, HomeForms, FormsAt, AllForms
    <2>7. QED
      BY <2>1, <2>2, <2>3, <2>4, <2>5, <2>6
  <1>3. QED
    BY <1>1, <1>2

(* What executeScan knows of a site in each phase, for every site and every failure of a call. *)
THEOREM SiteInvariant == Spec => []SiteInv
  BY InitSite, StepSite, PTL DEF Spec

-----------------------------------------------------------------------------
(***************************************************************************)
(* What an issue stands for, code by code.                                 *)
(***************************************************************************)
(* the codes that are not about a missing header *)
OtherCodes == {
    "COOKIES_BEFORE_CONSENT", "TRACKERS_BEFORE_CONSENT", "NO_CONSENT_BANNER",
    "NO_REJECT_OPTION", "PRE_CHECKED_BOXES", "UNEQUAL_BUTTON_PROMINENCE", "COOKIE_WALL",
    "NO_GRANULAR_CONSENT", "NO_PRIVACY_POLICY", "PRIVACY_POLICY_INCOMPLETE",
    "NO_DATA_RETENTION_INFO", "NO_COMPLAINT_RIGHT_INFO", "NO_HTTPS", "MIXED_CONTENT",
    "COOKIE_EXCESSIVE_EXPIRATION", "COOKIES_WITHOUT_SECURE", "COOKIES_WITHOUT_SAMESITE",
    "FORMS_WITHOUT_CONSENT", "FORMS_PRECHECKED_MARKETING", "FORMS_NO_PRIVACY_LINK",
    "US_DATA_TRANSFERS", "EXCESSIVE_US_SERVICES", "EXCESSIVE_THIRD_PARTY",
    "NO_SECURITY_HEADERS", "WEAK_CSP", "WEAK_HSTS", "SSL_SELF_SIGNED", "SSL_INVALID",
    "SSL_EXPIRED", "SSL_EXPIRING_SOON", "SSL_WEAK_PROTOCOL"}

LEMMA MissingIsOther == OtherCodes \cap {MissingCode[h] : h \in Headers} = {}
  BY DEF OtherCodes, Headers, MissingCode

LEMMA AdmitsConsent ==
  /\ Admits("COOKIES_BEFORE_CONSENT") <=> \E c \in site.cookies : c.before /\ ~c.necessary
  /\ Admits("TRACKERS_BEFORE_CONSENT") <=> early # {}
  /\ Admits("NO_CONSENT_BANNER") <=> ~Shows("banner")
  /\ Admits("NO_REJECT_OPTION") <=> ~Shows("reject")
  /\ Admits("PRE_CHECKED_BOXES") <=> Shows("preChecked")
  /\ Admits("UNEQUAL_BUTTON_PROMINENCE") <=>
        Shows("accept") /\ (~Shows("reject") \/ Shows("smallReject"))
  /\ Admits("COOKIE_WALL") <=> Shows("blocking") /\ site.banner \cap {"reject", "settings"} = {}
  /\ Admits("NO_GRANULAR_CONSENT") <=>
        ~Shows("categories") /\ ~(Shows("settings") /\ Shows("categoriesInModal"))
  BY MissingIsOther DEF Admits, OtherCodes

LEMMA AdmitsPolicy ==
  /\ Admits("NO_PRIVACY_POLICY") <=> ~site.policy.linked
  /\ Admits("PRIVACY_POLICY_INCOMPLETE") <=> ~(RequiredElements \subseteq site.policy.elements)
  /\ Admits("NO_DATA_RETENTION_INFO") <=> "retention" \notin site.policy.elements
  /\ Admits("NO_COMPLAINT_RIGHT_INFO") <=> "complaint" \notin site.policy.elements
  BY MissingIsOther DEF Admits, OtherCodes

LEMMA AdmitsSecurity ==
  /\ Admits("NO_HTTPS") <=> site.scheme = "http"
  /\ Admits("MIXED_CONTENT") <=> site.mixed
  /\ Admits("COOKIE_EXCESSIVE_EXPIRATION") <=> \E c \in site.cookies : c.long
  /\ Admits("COOKIES_WITHOUT_SECURE") <=> \E c \in site.cookies : ~c.secure
  /\ Admits("COOKIES_WITHOUT_SAMESITE") <=>
        Cardinality({c \in site.cookies : ~c.sameSite}) > SameSiteLimit
  BY MissingIsOther DEF Admits, OtherCodes

LEMMA AdmitsForms ==
  /\ Admits("FORMS_WITHOUT_CONSENT") <=> \E x \in AllForms : Personal(x) /\ x.consent = "none"
  /\ Admits("FORMS_PRECHECKED_MARKETING") <=> \E x \in AllForms : x.preChecked
  /\ Admits("FORMS_NO_PRIVACY_LINK") <=> \E x \in AllForms : Personal(x) /\ x.link = "none"
  BY MissingIsOther DEF Admits, OtherCodes

LEMMA AdmitsTransfers ==
  /\ Admits("US_DATA_TRANSFERS") <=> Contacts \cap HighRisk # {}
  /\ Admits("EXCESSIVE_US_SERVICES") <=> Cardinality(Contacts \cap USServices) > USServiceLimit
  /\ Admits("EXCESSIVE_THIRD_PARTY") <=> firstVisit > ThirdPartyLimit
  BY MissingIsOther DEF Admits, OtherCodes

LEMMA AdmitsHeaders ==
  /\ Admits("NO_SECURITY_HEADERS") <=> Cardinality(Headers \ site.headers.present) >= 5
  /\ Admits("WEAK_CSP") <=> site.headers.unsafeCsp
  /\ Admits("WEAK_HSTS") <=> site.headers.shortHsts
  /\ \A h \in Headers : h \notin site.headers.present => Admits(MissingCode[h])
  <1>1. /\ Admits("NO_SECURITY_HEADERS") <=> Cardinality(Headers \ site.headers.present) >= 5
        /\ Admits("WEAK_CSP") <=> site.headers.unsafeCsp
        /\ Admits("WEAK_HSTS") <=> site.headers.shortHsts
    BY MissingIsOther DEF Admits, OtherCodes
  <1>2. ASSUME NEW h \in Headers, h \notin site.headers.present
        PROVE  Admits(MissingCode[h])
    <2> DEFINE code == MissingCode[h]
    <2>1. code \in {MissingCode[x] : x \in Headers} /\ code \notin OtherCodes
      BY MissingIsOther
    <2>2. \E x \in Headers : code = MissingCode[x] /\ x \notin site.headers.present
      BY <1>2
    <2> HIDE DEF code
    <2>3. Admits(code)
      BY <2>1, <2>2 DEF Admits, OtherCodes
    <2>4. QED
      BY <2>3 DEF code
  <1>3. QED
    BY <1>1, <1>2

LEMMA AdmitsSsl ==
  /\ Admits("SSL_SELF_SIGNED") <=> site.cert.ownIssuer
  /\ Admits("SSL_INVALID") <=> ~Authorized(site.cert)
  /\ Admits("SSL_EXPIRED") <=> site.cert.days = "past"
  /\ Admits("SSL_EXPIRING_SOON") <=> site.cert.days = "upTo30"
  /\ Admits("SSL_WEAK_PROTOCOL") <=> site.cert.weakProtocol
  BY MissingIsOther DEF Admits, OtherCodes

-----------------------------------------------------------------------------
(***************************************************************************)
(* Every issue of a finished scan is a thing to admit, or one of the       *)
(* misjudgements that are named.                                           *)
(***************************************************************************)
JustlyAccused(i) == Admits(i) \/ i \in Misjudged

LEMMA AtDone ==
  ASSUME SiteInv, phase = "done"
  PROVE  /\ found.cookies \subseteq {mapCookie(c) : c \in site.cookies}
         /\ {mapCookie(c) : c \in EarlyCookies} \subseteq found.cookies
         /\ \A k \in found.trackers : k.before => k.host \in early
         /\ \A t \in HomeHosts \cap Trackers : [host |-> t, before |-> TRUE] \in found.trackers
         /\ found.services \subseteq {Service(h) : h \in Contacts \cap USServices}
         /\ {Service(h) : h \in HomeHosts \cap USServices} \subseteq found.services
         /\ found.https = (site.scheme # "http") /\ (found.mixed => site.mixed)
         /\ \E seen \in Views :
               IF "banner" \in seen
               THEN /\ BannerSeen(found.banner, seen)
                    /\ found.banner.granular = Granular(Shows("settings")) \/ "categories" \in lost
               ELSE found.banner = Nothing.banner
         /\ found.policy.found => site.policy.linked
         /\ site.policy.linked => found.policy.found \/ "policyLink" \in lost
         /\ found.headers = site.headers \/ ("headers" \in lost /\ found.headers = Nothing.headers)
         /\ found.ssl = CertificateSeen \/ ("ssl" \in lost /\ found.ssl = NoCertificate)
         /\ IsFiniteSet(found.forms)
         /\ lost \cap {"headers", "forms"} = {} => HomeForms \subseteq found.forms
         /\ \A k \in found.forms : \E x \in AllForms : SeenAs(k, x)
  <1> USE DEF SiteInv, Loaded, Judged, Undecided, Phases
  <1>1. /\ found.cookies \subseteq {mapCookie(c) : c \in site.cookies}
        /\ {mapCookie(c) : c \in EarlyCookies} \subseteq found.cookies
    BY DEF CookieInv
  <1>2. /\ \A k \in found.trackers : k.before => k.host \in early
        /\ \A t \in HomeHosts \cap Trackers : [host |-> t, before |-> TRUE] \in found.trackers
    BY DEF TrackerInv
  <1>3. /\ found.services \subseteq {Service(h) : h \in Contacts \cap USServices}
        /\ {Service(h) : h \in HomeHosts \cap USServices} \subseteq found.services
    BY DEF RequestInv
  <1>4. found.https = (site.scheme # "http") /\ (found.mixed => site.mixed)
    BY DEF TransportInv
  <1>5. \E seen \in Views :
           IF "banner" \in seen
           THEN /\ BannerSeen(found.banner, seen)
                /\ found.banner.granular = Granular(Shows("settings")) \/ "categories" \in lost
           ELSE found.banner = Nothing.banner
    BY DEF BannerInv
  <1>6. /\ found.policy.found => site.policy.linked
        /\ site.policy.linked => found.policy.found \/ "policyLink" \in lost
    BY DEF PolicyInv
  <1>7. /\ found.headers = site.headers \/ ("headers" \in lost /\ found.headers = Nothing.headers)
        /\ found.ssl = CertificateSeen \/ ("ssl" \in lost /\ found.ssl = NoCertificate)
    BY DEF ServerInv
  <1>8. /\ IsFiniteSet(found.forms)
        /\ lost \cap {"headers", "forms"} = {} => HomeForms \subseteq found.forms
        /\ \A k \in found.forms : \E x \in AllForms : SeenAs(k, x)
    BY DEF FormInv
  <1>9. QED
    BY <1>1, <1>2, <1>3, <1>4, <1>5, <1>6, <1>7, <1>8

LEMMA CookieAccusations ==
  ASSUME SiteInv, phase = "done", NEW i \in CookieIssues(found.cookies)
  PROVE  JustlyAccused(i)
  <1>1. PICK k \in found.cookies : i = "COOKIES_BEFORE_CONSENT" /\ k.before /\ k.category # "necessary"
    BY DEF CookieIssues, Push
  <1>2. PICK c \in site.cookies : k = mapCookie(c)
    BY AtDone
  <1>3. c.before /\ mapCookie(c).category # "necessary"
    BY <1>1, <1>2 DEF mapCookie
  <1>4. CASE ~c.necessary
    BY <1>1, <1>3, <1>4, AdmitsConsent DEF JustlyAccused
  <1>5. CASE c.necessary
    <2>1. c.exact \in {"none", "necessary"}
      BY <1>5, SiteCookies DEF SiteInv
    <2>2. c.exact = "none"
      BY <1>3, <2>1 DEF mapCookie, findKnownCookie
    <2>3. QED
      BY <1>1, <1>3, <1>5, <2>2 DEF JustlyAccused, Misjudged
  <1>6. QED
    BY <1>4, <1>5

LEMMA TrackerAccusations ==
  ASSUME SiteInv, phase = "done", NEW i \in TrackerIssues(found.trackers)
  PROVE  JustlyAccused(i)
  <1>1. i = "TRACKERS_BEFORE_CONSENT" /\ \E k \in found.trackers : k.before
    BY DEF TrackerIssues, Push
  <1>2. early # {}
    BY <1>1, AtDone
  <1>3. QED
    BY <1>1, <1>2, AdmitsConsent DEF JustlyAccused

LEMMA ConsentAccusations ==
  ASSUME SiteInv, phase = "done", NEW i \in ConsentIssues(found.banner)
  PROVE  JustlyAccused(i)
  <1>1. PICK seen \in Views :
           IF "banner" \in seen
           THEN /\ BannerSeen(found.banner, seen)
                /\ found.banner.granular = Granular(Shows("settings")) \/ "categories" \in lost
           ELSE found.banner = Nothing.banner
    BY AtDone
  <1>2. seen \subseteq site.banner /\ site.banner \ seen \subseteq lost
    BY DEF Views
  <1>3. CASE "banner" \notin seen
    <2>1. Nothing.banner = [found |-> FALSE, accept |-> FALSE]
      BY DEF Nothing
    <2>2. ~found.banner.found
      BY <1>1, <1>3, <2>1
    <2>3. i = "NO_CONSENT_BANNER"
      BY <2>2 DEF ConsentIssues
    <2>4. ~Shows("banner") \/ "banner" \in lost
      BY <1>2, <1>3 DEF Shows
    <2>5. QED
      BY <2>3, <2>4, AdmitsConsent DEF JustlyAccused, Misjudged
  <1>4. CASE "banner" \in seen
    <2>1. BannerSeen(found.banner, seen)
      BY <1>1, <1>4
    <2>2. \/ i = "NO_REJECT_OPTION" /\ ~found.banner.reject
          \/ i = "PRE_CHECKED_BOXES" /\ found.banner.preChecked
          \/ i = "UNEQUAL_BUTTON_PROMINENCE" /\ ~found.banner.equalProminence
          \/ i = "COOKIE_WALL" /\ found.banner.cookieWall
          \/ i = "NO_GRANULAR_CONSENT" /\ ~found.banner.granular /\ found.banner.accept
      BY <2>1 DEF ConsentIssues, Push, BannerSeen
    <2>3. CASE i = "NO_REJECT_OPTION" /\ ~found.banner.reject
      <3>1. "reject" \notin seen
        BY <2>1, <2>3 DEF BannerSeen
      <3>2. ~Shows("reject") \/ "reject" \in lost
        BY <1>2, <3>1 DEF Shows
      <3>3. QED
        BY <2>3, <3>2, AdmitsConsent DEF JustlyAccused, Misjudged
    <2>4. CASE i = "PRE_CHECKED_BOXES" /\ found.banner.preChecked
      <3>1. "preChecked" \in seen
        BY <2>1, <2>4 DEF BannerSeen
      <3>2. QED
        BY <1>2, <2>4, <3>1, AdmitsConsent DEF JustlyAccused, Shows
    <2>5. CASE i = "UNEQUAL_BUTTON_PROMINENCE" /\ ~found.banner.equalProminence
      <3>1. ~EqualProminence(seen)
        BY <2>1, <2>5 DEF BannerSeen
      <3>2. CASE "reject" \in seen
        BY <1>2, <2>5, <3>1, <3>2, AdmitsConsent DEF JustlyAccused, EqualProminence, Shows
      <3>3. CASE "reject" \notin seen
        <4>1. Shows("accept") /\ (~Shows("reject") \/ "reject" \in lost)
          BY <1>2, <3>1, <3>3 DEF EqualProminence, Shows
        <4>2. QED
          BY <2>5, <4>1, AdmitsConsent DEF JustlyAccused, Misjudged
      <3>4. QED
        BY <3>2, <3>3
    <2>6. CASE i = "COOKIE_WALL" /\ found.banner.cookieWall
      <3>1. CookieWall(seen)
        BY <2>1, <2>6 DEF BannerSeen
      <3>2. /\ Shows("blocking")
            /\ site.banner \cap {"reject", "settings"} = {} \/ lost \cap {"reject", "settings"} # {}
        BY <1>2, <3>1 DEF CookieWall, Shows
      <3>3. QED
        BY <2>6, <3>2, AdmitsConsent DEF JustlyAccused, Misjudged
    <2>7. CASE i = "NO_GRANULAR_CONSENT" /\ ~found.banner.granular /\ found.banner.accept
      <3>1. ~Granular(Shows("settings")) \/ "categories" \in lost
        BY <1>1, <1>4, <2>7
      <3>2. QED
        BY <2>7, <3>1, AdmitsConsent DEF JustlyAccused, Misjudged, Granular
    <2>8. QED
      BY <2>2, <2>3, <2>4, <2>5, <2>6, <2>7
  <1>5. QED
    BY <1>3, <1>4

LEMMA PolicyAccusations ==
  ASSUME SiteInv, phase = "done", NEW i \in PolicyIssues(found.policy)
  PROVE  JustlyAccused(i)
  <1>1. \/ i = "NO_PRIVACY_POLICY" /\ ~found.policy.found
        \/ /\ found.policy.analyzed
           /\ \/ i = "PRIVACY_POLICY_INCOMPLETE" /\ ~(RequiredElements \subseteq found.policy.elements)
              \/ i = "NO_DATA_RETENTION_INFO" /\ "retention" \notin found.policy.elements
              \/ i = "NO_COMPLAINT_RIGHT_INFO" /\ "complaint" \notin found.policy.elements
    BY DEF PolicyIssues, Push
  <1>2. site.policy.linked => found.policy.found \/ "policyLink" \in lost
    BY AtDone
  <1>3. found.policy.analyzed => found.policy.elements = site.policy.elements
    BY DEF SiteInv, PolicyInv
  <1>4. CASE i = "NO_PRIVACY_POLICY" /\ ~found.policy.found
    BY <1>2, <1>4, AdmitsPolicy DEF JustlyAccused, Misjudged
  <1>5. CASE i # "NO_PRIVACY_POLICY"
    BY <1>1, <1>3, <1>5, AdmitsPolicy DEF JustlyAccused
  <1>6. QED
    BY <1>1, <1>4, <1>5

LEMMA ThirdPartyAccusations ==
  ASSUME SiteInv, phase = "done", NEW i \in ThirdPartyIssues(found.thirdParty)
  PROVE  JustlyAccused(i)
  <1>1. i = "EXCESSIVE_THIRD_PARTY" /\ found.thirdParty > ThirdPartyLimit
    BY DEF ThirdPartyIssues, Push
  <1>2. /\ found.thirdParty = thirdParty
        /\ consentGiven = found.banner.accept /\ (consentGiven => thirdParty <= firstVisit)
    BY DEF SiteInv, CountInv, Loaded, Undecided, Phases
  <1>3. thirdParty \in Nat /\ firstVisit \in Nat /\ ThirdPartyLimit \in Nat
    BY LimitsAssumption DEF SiteInv, TypeOK
  <1>4. CASE found.banner.accept
    <2>1. firstVisit > ThirdPartyLimit
      BY <1>1, <1>2, <1>3, <1>4
    <2>2. QED
      BY <1>1, <2>1, AdmitsTransfers DEF JustlyAccused
  <1>5. CASE ~found.banner.accept
    BY <1>1, <1>5 DEF JustlyAccused, Misjudged
  <1>6. QED
    BY <1>4, <1>5

(* Every mapped cookie without SameSite comes from a cookie without it. *)
LEMMA SameSiteCount ==
  ASSUME SiteInv, phase = "done"
  PROVE  LET kept == {k \in found.cookies : ~k.sameSite}
             set == {c \in site.cookies : ~c.sameSite}
         IN Cardinality(kept) <= Cardinality(set) /\ Cardinality(kept) \in Nat /\ Cardinality(set) \in Nat
  <1> DEFINE kept == {k \in found.cookies : ~k.sameSite}
             set == {c \in site.cookies : ~c.sameSite}
             from == {c \in set : mapCookie(c) \in kept}
             f == [c \in from |-> mapCookie(c)]
  <1>1. IsFiniteSet(set) /\ IsFiniteSet(from) /\ Cardinality(from) <= Cardinality(set)
    BY SitePages, FS_Subset DEF SiteInv
  <1>2. f \in Surjection(from, kept)
    <2>1. \A k \in kept : \E c \in from : k = mapCookie(c)
      <3>1. ASSUME NEW k \in kept
            PROVE  \E c \in from : k = mapCookie(c)
        <4>1. PICK c \in site.cookies : k = mapCookie(c)
          BY AtDone
        <4>2. ~c.sameSite
          BY <4>1 DEF mapCookie
        <4>3. QED
          BY <4>1, <4>2
      <3>2. QED
        BY <3>1
    <2> HIDE DEF kept
    <2>2. QED
      BY <2>1 DEF Surjection
  <1>3. Cardinality(kept) <= Cardinality(from) /\ IsFiniteSet(kept)
    BY <1>1, <1>2, FS_Surjection
  <1>4. Cardinality(kept) \in Nat /\ Cardinality(set) \in Nat /\ Cardinality(from) \in Nat
    BY <1>1, <1>3, FS_CardinalityType
  <1> HIDE DEF kept, set, from, f
  <1>5. Cardinality(kept) <= Cardinality(set) /\ Cardinality(kept) \in Nat /\ Cardinality(set) \in Nat
    BY <1>1, <1>3, <1>4
  <1>6. QED
    BY <1>5 DEF kept, set

LEMMA SecurityAccusations ==
  ASSUME SiteInv, phase = "done", NEW i \in SecurityIssues(found.https, found.mixed, found.cookies)
  PROVE  JustlyAccused(i)
  <1>1. \/ i = "NO_HTTPS" /\ ~found.https
        \/ i = "MIXED_CONTENT" /\ found.mixed
        \/ i = "COOKIE_EXCESSIVE_EXPIRATION" /\ \E k \in found.cookies : k.long
        \/ i = "COOKIES_WITHOUT_SECURE" /\ \E k \in found.cookies : ~k.secure
        \/ /\ i = "COOKIES_WITHOUT_SAMESITE"
           /\ Cardinality({k \in found.cookies : ~k.sameSite}) > SameSiteLimit
    BY DEF SecurityIssues, Push
  <1>2. CASE i = "NO_HTTPS" /\ ~found.https
    BY <1>2, AtDone, AdmitsSecurity DEF JustlyAccused
  <1>3. CASE i = "MIXED_CONTENT" /\ found.mixed
    BY <1>3, AtDone, AdmitsSecurity DEF JustlyAccused
  <1>4. CASE i = "COOKIE_EXCESSIVE_EXPIRATION" /\ \E k \in found.cookies : k.long
    <2>1. PICK c \in site.cookies : mapCookie(c).long
      BY <1>4, AtDone
    <2>2. c.long
      BY <2>1 DEF mapCookie
    <2>3. QED
      BY <1>4, <2>2, AdmitsSecurity DEF JustlyAccused
  <1>5. CASE i = "COOKIES_WITHOUT_SECURE" /\ \E k \in found.cookies : ~k.secure
    <2>1. PICK c \in site.cookies : ~mapCookie(c).secure
      BY <1>5, AtDone
    <2>2. ~c.secure
      BY <2>1 DEF mapCookie
    <2>3. QED
      BY <1>5, <2>2, AdmitsSecurity DEF JustlyAccused
  <1>6. CASE /\ i = "COOKIES_WITHOUT_SAMESITE"
             /\ Cardinality({k \in found.cookies : ~k.sameSite}) > SameSiteLimit
    BY <1>6, SameSiteCount, LimitsAssumption, AdmitsSecurity DEF JustlyAccused
  <1>7. QED
    BY <1>1, <1>2, <1>3, <1>4, <1>5, <1>6

(* What is seen of a form is true of it, but for the words that only count inside a <form>. *)
LEMMA SeenForm ==
  ASSUME SiteInv, phase = "done", NEW k \in found.forms
  PROVE  \E x \in AllForms :
            /\ k.email = x.email /\ k.name = x.name /\ k.phone = x.phone /\ k.preChecked = x.preChecked
            /\ ~k.consent => x.consent = "none" \/ (~x.inForm /\ x.consent = "accept")
            /\ ~k.link => x.link = "none" \/ (~x.inForm /\ x.link = "datenschutz")
  <1>1. PICK x \in AllForms : SeenAs(k, x)
    BY AtDone
  <1>2. x.consent \in {"agree", "accept", "none"} /\ x.link \in {"privacy", "datenschutz", "none"}
    BY SiteForms DEF AllForms, SiteInv
  <1>3. /\ k.email = x.email /\ k.name = x.name /\ k.phone = x.phone /\ k.preChecked = x.preChecked
        /\ \/ k.consent = (x.consent \in {"agree", "accept"}) /\ k.link = (x.link \in {"privacy", "datenschutz"})
           \/ ~x.inForm /\ k.consent = (x.consent \in {"agree"}) /\ k.link = (x.link \in {"privacy"})
    BY <1>1 DEF SeenAs, analyzeForm, detectJSRenderedForm, Info
  <1>4. QED
    BY <1>2, <1>3

LEMMA FormAccusations ==
  ASSUME SiteInv, phase = "done", NEW i \in FormIssues(found.forms)
  PROVE  JustlyAccused(i)
  <1>1. \/ i = "FORMS_WITHOUT_CONSENT" /\ \E k \in found.forms : AsksWhoYouAre(k) /\ ~k.consent
        \/ i = "FORMS_PRECHECKED_MARKETING" /\ \E k \in found.forms : k.preChecked
        \/ /\ i = "FORMS_NO_PRIVACY_LINK"
           /\ Cardinality(DataCollection(found.forms)) > Cardinality(WithPrivacyLink(found.forms))
    BY DEF FormIssues, Push
  <1>2. CASE i = "FORMS_WITHOUT_CONSENT" /\ \E k \in found.forms : AsksWhoYouAre(k) /\ ~k.consent
    <2>1. PICK k \in found.forms : AsksWhoYouAre(k) /\ ~k.consent
      BY <1>2
    <2>2. PICK x \in AllForms :
            /\ k.email = x.email /\ k.name = x.name
            /\ x.consent = "none" \/ (~x.inForm /\ x.consent = "accept")
      BY <2>1, SeenForm
    <2>3. Personal(x)
      BY <2>1, <2>2 DEF Personal, AsksWhoYouAre
    <2>4. QED
      BY <1>2, <2>2, <2>3, AdmitsForms DEF JustlyAccused, Misjudged
  <1>3. CASE i = "FORMS_PRECHECKED_MARKETING" /\ \E k \in found.forms : k.preChecked
    <2>1. \E x \in AllForms : x.preChecked
      BY <1>3, SeenForm
    <2>2. QED
      BY <1>3, <2>1, AdmitsForms DEF JustlyAccused
  <1>4. CASE /\ i = "FORMS_NO_PRIVACY_LINK"
             /\ Cardinality(DataCollection(found.forms)) > Cardinality(WithPrivacyLink(found.forms))
    <2>1. /\ IsFiniteSet(WithPrivacyLink(found.forms)) /\ IsFiniteSet(DataCollection(found.forms))
          /\ Cardinality(WithPrivacyLink(found.forms)) \in Nat
      BY AtDone, FS_Subset, FS_CardinalityType DEF WithPrivacyLink, DataCollection
    <2>2. DataCollection(found.forms) # WithPrivacyLink(found.forms)
      BY <1>4, <2>1
    <2>3. WithPrivacyLink(found.forms) \subseteq DataCollection(found.forms)
      BY DEF WithPrivacyLink, DataCollection
    <2>4. PICK k \in DataCollection(found.forms) : k \notin WithPrivacyLink(found.forms)
      BY <2>2, <2>3
    <2>5. /\ k \in found.forms
          /\ AsksWhoYouAre(k) \/ k.phone
          /\ ~k.link \/ ~AsksWhoYouAre(k)
      BY <2>4 DEF DataCollection, WithPrivacyLink
    <2>6. PICK x \in AllForms :
            /\ k.email = x.email /\ k.name = x.name /\ k.phone = x.phone
            /\ ~k.link => x.link = "none" \/ (~x.inForm /\ x.link = "datenschutz")
      BY <2>5, SeenForm
    <2>7. CASE ~AsksWhoYouAre(k)
      BY <1>4, <2>5, <2>6, <2>7 DEF JustlyAccused, Misjudged, AsksWhoYouAre
    <2>8. CASE ~k.link
      <3>1. Personal(x)
        BY <2>5, <2>6 DEF Personal, AsksWhoYouAre
      <3>2. QED
        BY <1>4, <2>6, <2>8, <3>1, AdmitsForms DEF JustlyAccused, Misjudged
    <2>9. QED
      BY <2>5, <2>7, <2>8
  <1>5. QED
    BY <1>1, <1>2, <1>3, <1>4

(* No more services are listed than the site asks. *)
LEMMA ServiceCount ==
  ASSUME SiteInv, phase = "done"
  PROVE  /\ Cardinality(found.services) <= Cardinality(Contacts \cap USServices)
         /\ Cardinality(found.services) \in Nat /\ Cardinality(Contacts \cap USServices) \in Nat
  <1> DEFINE used == Contacts \cap USServices
             f == [s \in found.services |-> s.host]
  <1>1. IsFiniteSet(used)
    BY SiteAssumption, FS_Subset
  <1>2. \A s \in found.services : s.host \in used /\ s = Service(s.host)
    BY AtDone DEF Service
  <1> HIDE DEF used
  <1>3. f \in Injection(found.services, used)
    BY <1>2 DEF Injection, IsInjective
  <1>4. IsFiniteSet(found.services) /\ Cardinality(found.services) <= Cardinality(used)
    BY <1>1, <1>3, FS_Injection
  <1>5. QED
    BY <1>1, <1>4, FS_CardinalityType DEF used

LEMMA TransferAccusations ==
  ASSUME SiteInv, phase = "done", NEW i \in TransferIssues(found.services)
  PROVE  JustlyAccused(i)
  <1>1. \/ i = "US_DATA_TRANSFERS" /\ \E s \in found.services : s.highRisk
        \/ i = "EXCESSIVE_US_SERVICES" /\ Cardinality(found.services) > USServiceLimit
    BY DEF TransferIssues, Push
  <1>2. CASE i = "US_DATA_TRANSFERS" /\ \E s \in found.services : s.highRisk
    <2>1. PICK h \in Contacts \cap USServices : Service(h).highRisk
      BY <1>2, AtDone
    <2>2. h \in HighRisk
      BY <2>1 DEF Service, isHighRisk
    <2>3. QED
      BY <1>2, <2>2, AdmitsTransfers DEF JustlyAccused
  <1>3. CASE i = "EXCESSIVE_US_SERVICES" /\ Cardinality(found.services) > USServiceLimit
    BY <1>3, ServiceCount, LimitsAssumption, AdmitsTransfers DEF JustlyAccused
  <1>4. QED
    BY <1>1, <1>2, <1>3

LEMMA SixHeaders == Cardinality(Headers) = 6
  <1> DEFINE h1 == {"CSP"}
             h2 == h1 \cup {"HSTS"}
             h3 == h2 \cup {"frame"}
             h4 == h3 \cup {"contentType"}
             h5 == h4 \cup {"referrer"}
             h6 == h5 \cup {"permissions"}
  <1>1. IsFiniteSet(h1) /\ Cardinality(h1) = 1
    BY FS_Singleton
  <1>2. IsFiniteSet(h2) /\ Cardinality(h2) = 2
    BY <1>1, FS_AddElement
  <1>3. IsFiniteSet(h3) /\ Cardinality(h3) = 3
    BY <1>2, FS_AddElement
  <1>4. IsFiniteSet(h4) /\ Cardinality(h4) = 4
    BY <1>3, FS_AddElement
  <1>5. IsFiniteSet(h5) /\ Cardinality(h5) = 5
    BY <1>4, FS_AddElement
  <1>6. Cardinality(h6) = 6
    BY <1>5, FS_AddElement
  <1>7. h6 = Headers
    BY DEF Headers, MissingCode
  <1> HIDE DEF h6
  <1>8. QED
    BY <1>6, <1>7

LEMMA HeaderAccusations ==
  ASSUME SiteInv, phase = "done", NEW i \in HeaderIssues(found.headers)
  PROVE  JustlyAccused(i)
  <1>1. CASE found.headers = site.headers
    <2>1. \/ i = "NO_SECURITY_HEADERS" /\ Cardinality(Headers \ site.headers.present) >= 5
          \/ \E h \in Headers : h \notin site.headers.present /\ i = MissingCode[h]
          \/ i = "WEAK_CSP" /\ site.headers.unsafeCsp
          \/ i = "WEAK_HSTS" /\ site.headers.shortHsts
      BY <1>1 DEF HeaderIssues, Push
    <2>2. QED
      BY <2>1, AdmitsHeaders DEF JustlyAccused
  <1>2. CASE "headers" \in lost /\ found.headers = Nothing.headers
    <2>1. Nothing.headers.present = {}
      BY DEF Nothing
    <2>2. Headers \ found.headers.present = Headers
      BY <1>2, <2>1
    <2>3. i = "NO_SECURITY_HEADERS"
      BY <2>2, SixHeaders DEF HeaderIssues
    <2>4. QED
      BY <1>2, <2>3 DEF JustlyAccused, Misjudged
  <1>3. QED
    BY <1>1, <1>2, AtDone

LEMMA SslAccusations ==
  ASSUME SiteInv, phase = "done", NEW i \in SslIssues(found.ssl)
  PROVE  JustlyAccused(i)
  <1>1. /\ ~found.ssl.skipped
        /\ \/ i = "SSL_SELF_SIGNED" /\ found.ssl.selfSigned
           \/ i = "SSL_INVALID" /\ ~found.ssl.valid /\ ~found.ssl.selfSigned /\ found.ssl.error
           \/ i = "SSL_EXPIRED" /\ found.ssl.days \in {"past", "none"}
           \/ i = "SSL_EXPIRING_SOON" /\ found.ssl.days = "upTo30"
           \/ i = "SSL_WEAK_PROTOCOL" /\ found.ssl.weakProtocol
    BY DEF SslIssues, Push
  <1>2. CASE found.ssl = CertificateSeen
    <2>1. /\ found.ssl.days = site.cert.days
          /\ found.ssl.weakProtocol = site.cert.weakProtocol
          /\ found.ssl.selfSigned = (~Authorized(site.cert) /\ site.cert.ownIssuer)
          /\ found.ssl.error = ~Authorized(site.cert)
      BY <1>1, <1>2 DEF CertificateSeen
    <2>2. CASE i = "SSL_EXPIRED" /\ found.ssl.days \in {"past", "none"}
      BY <2>1, <2>2, AdmitsSsl DEF JustlyAccused, Misjudged
    <2>3. CASE i # "SSL_EXPIRED"
      BY <1>1, <2>1, <2>3, AdmitsSsl DEF JustlyAccused
    <2>4. QED
      BY <1>1, <2>2, <2>3
  <1>3. CASE "ssl" \in lost /\ found.ssl = NoCertificate
    <2>1. i = "SSL_INVALID"
      BY <1>1, <1>3 DEF NoCertificate
    <2>2. QED
      BY <1>3, <2>1 DEF JustlyAccused, Misjudged
  <1>4. QED
    BY <1>2, <1>3, AtDone

LEMMA NoFalseIssue ==
  ASSUME SiteInv, phase = "done"
  PROVE  \A i \in issues : JustlyAccused(i)
  <1> SUFFICES ASSUME NEW i \in issues
               PROVE  JustlyAccused(i)
    OBVIOUS
  <1>1. \/ i \in CookieIssues(found.cookies) \/ i \in TrackerIssues(found.trackers)
        \/ i \in ConsentIssues(found.banner) \/ i \in PolicyIssues(found.policy)
        \/ i \in ThirdPartyIssues(found.thirdParty)
        \/ i \in SecurityIssues(found.https, found.mixed, found.cookies)
        \/ i \in FormIssues(found.forms) \/ i \in TransferIssues(found.services)
        \/ i \in HeaderIssues(found.headers) \/ i \in SslIssues(found.ssl)
    BY DEF issues, generateIssues
  <1>2. QED
    BY <1>1, CookieAccusations, TrackerAccusations, ConsentAccusations, PolicyAccusations,
       ThirdPartyAccusations, SecurityAccusations, FormAccusations, TransferAccusations,
       HeaderAccusations, SslAccusations

-----------------------------------------------------------------------------
(***************************************************************************)
(* The evidence of a finished scan.                                        *)
(***************************************************************************)
MissingCodes == {MissingCode[h] : h \in Headers}

(* The codes that each group of issues is made of. *)
LEMMA GroupCodes ==
  ASSUME NEW f
  PROVE  /\ CookieIssues(f.cookies) \subseteq {"COOKIES_BEFORE_CONSENT"}
         /\ TrackerIssues(f.trackers) \subseteq {"TRACKERS_BEFORE_CONSENT"}
         /\ ThirdPartyIssues(f.thirdParty) \subseteq {"EXCESSIVE_THIRD_PARTY"}
         /\ ConsentIssues(f.banner) \subseteq
               {"NO_CONSENT_BANNER", "NO_REJECT_OPTION", "PRE_CHECKED_BOXES",
                "UNEQUAL_BUTTON_PROMINENCE", "COOKIE_WALL", "NO_GRANULAR_CONSENT"}
         /\ PolicyIssues(f.policy) \subseteq
               {"NO_PRIVACY_POLICY", "PRIVACY_POLICY_INCOMPLETE", "NO_DATA_RETENTION_INFO",
                "NO_COMPLAINT_RIGHT_INFO"}
         /\ SecurityIssues(f.https, f.mixed, f.cookies) \subseteq
               {"NO_HTTPS", "MIXED_CONTENT", "COOKIE_EXCESSIVE_EXPIRATION",
                "COOKIES_WITHOUT_SECURE", "COOKIES_WITHOUT_SAMESITE"}
         /\ FormIssues(f.forms) \subseteq
               {"FORMS_WITHOUT_CONSENT", "FORMS_PRECHECKED_MARKETING", "FORMS_NO_PRIVACY_LINK"}
         /\ TransferIssues(f.services) \subseteq {"US_DATA_TRANSFERS", "EXCESSIVE_US_SERVICES"}
         /\ HeaderIssues(f.headers) \subseteq
               {"NO_SECURITY_HEADERS", "WEAK_CSP", "WEAK_HSTS"} \cup MissingCodes
         /\ SslIssues(f.ssl) \subseteq
               {"SSL_SELF_SIGNED", "SSL_INVALID", "SSL_EXPIRED", "SSL_EXPIRING_SOON",
                "SSL_WEAK_PROTOCOL"}
  <1> USE DEF Push
  <1>1. /\ CookieIssues(f.cookies) \subseteq {"COOKIES_BEFORE_CONSENT"}
        /\ TrackerIssues(f.trackers) \subseteq {"TRACKERS_BEFORE_CONSENT"}
        /\ ThirdPartyIssues(f.thirdParty) \subseteq {"EXCESSIVE_THIRD_PARTY"}
        /\ TransferIssues(f.services) \subseteq {"US_DATA_TRANSFERS", "EXCESSIVE_US_SERVICES"}
    BY DEF CookieIssues, TrackerIssues, ThirdPartyIssues, TransferIssues
  <1>2. ConsentIssues(f.banner) \subseteq
          {"NO_CONSENT_BANNER", "NO_REJECT_OPTION", "PRE_CHECKED_BOXES",
           "UNEQUAL_BUTTON_PROMINENCE", "COOKIE_WALL", "NO_GRANULAR_CONSENT"}
    BY DEF ConsentIssues
  <1>3. PolicyIssues(f.policy) \subseteq
          {"NO_PRIVACY_POLICY", "PRIVACY_POLICY_INCOMPLETE", "NO_DATA_RETENTION_INFO",
           "NO_COMPLAINT_RIGHT_INFO"}
    BY DEF PolicyIssues
  <1>4. SecurityIssues(f.https, f.mixed, f.cookies) \subseteq
          {"NO_HTTPS", "MIXED_CONTENT", "COOKIE_EXCESSIVE_EXPIRATION",
           "COOKIES_WITHOUT_SECURE", "COOKIES_WITHOUT_SAMESITE"}
    BY DEF SecurityIssues
  <1>5. FormIssues(f.forms) \subseteq
          {"FORMS_WITHOUT_CONSENT", "FORMS_PRECHECKED_MARKETING", "FORMS_NO_PRIVACY_LINK"}
    BY DEF FormIssues
  <1>6. HeaderIssues(f.headers) \subseteq
          {"NO_SECURITY_HEADERS", "WEAK_CSP", "WEAK_HSTS"} \cup MissingCodes
    BY DEF HeaderIssues, MissingCodes
  <1>7. SslIssues(f.ssl) \subseteq
          {"SSL_SELF_SIGNED", "SSL_INVALID", "SSL_EXPIRED", "SSL_EXPIRING_SOON",
           "SSL_WEAK_PROTOCOL"}
    BY DEF SslIssues
  <1>8. QED
    BY <1>1, <1>2, <1>3, <1>4, <1>5, <1>6, <1>7

(* No two groups share a code, so an issue is of one group only. *)
LEMMA OfOneGroup ==
  /\ "COOKIES_BEFORE_CONSENT" \in issues <=> \E k \in found.cookies : k.before /\ k.category # "necessary"
  /\ "TRACKERS_BEFORE_CONSENT" \in issues <=> \E k \in found.trackers : k.before
  /\ "US_DATA_TRANSFERS" \in issues <=> \E s \in found.services : s.highRisk
  /\ "PRIVACY_POLICY_INCOMPLETE" \in issues <=> "PRIVACY_POLICY_INCOMPLETE" \in PolicyIssues(found.policy)
  <1> DEFINE codes == {"COOKIES_BEFORE_CONSENT", "TRACKERS_BEFORE_CONSENT", "US_DATA_TRANSFERS",
                       "PRIVACY_POLICY_INCOMPLETE"}
  <1>1. codes \cap MissingCodes = {}
    BY MissingIsOther DEF OtherCodes, MissingCodes
  <1>2. /\ "COOKIES_BEFORE_CONSENT" \in issues <=> "COOKIES_BEFORE_CONSENT" \in CookieIssues(found.cookies)
        /\ "TRACKERS_BEFORE_CONSENT" \in issues <=> "TRACKERS_BEFORE_CONSENT" \in TrackerIssues(found.trackers)
        /\ "US_DATA_TRANSFERS" \in issues <=> "US_DATA_TRANSFERS" \in TransferIssues(found.services)
        /\ "PRIVACY_POLICY_INCOMPLETE" \in issues <=>
              "PRIVACY_POLICY_INCOMPLETE" \in PolicyIssues(found.policy)
    <2>1. ASSUME NEW code \in codes
          PROVE  code \in issues <=>
                    \/ code \in CookieIssues(found.cookies)
                    \/ code \in TrackerIssues(found.trackers)
                    \/ code \in TransferIssues(found.services)
                    \/ code \in PolicyIssues(found.policy)
      <3>1. /\ code \notin ConsentIssues(found.banner)
            /\ code \notin ThirdPartyIssues(found.thirdParty)
            /\ code \notin SecurityIssues(found.https, found.mixed, found.cookies)
            /\ code \notin FormIssues(found.forms)
            /\ code \notin HeaderIssues(found.headers)
            /\ code \notin SslIssues(found.ssl)
        BY <1>1, GroupCodes
      <3>2. QED
        BY <3>1 DEF issues, generateIssues
    <2>2. QED
      BY <2>1, GroupCodes, SMTT(30)
  <1>3. QED
    BY <1>2 DEF CookieIssues, TrackerIssues, TransferIssues, Push

LEMMA TrueEvidence ==
  ASSUME SiteInv, phase = "done"
  PROVE  EvidenceIsTrue
  <1>1. /\ Evidence("COOKIES_BEFORE_CONSENT", found) =
              {c.name : c \in {d \in found.cookies : d.before /\ d.category # "necessary"}}
        /\ Evidence("TRACKERS_BEFORE_CONSENT", found) = {t.host : t \in {u \in found.trackers : u.before}}
        /\ Evidence("PRIVACY_POLICY_INCOMPLETE", found) =
              {"controller", "dpo", "legalBasis", "userRights"} \ found.policy.elements
        /\ Evidence("US_DATA_TRANSFERS", found) = {s.host : s \in {t \in found.services : t.highRisk}}
    BY DEF Evidence
  <1>2. Evidence("COOKIES_BEFORE_CONSENT", found) \subseteq
          {c.name : c \in {d \in site.cookies : d.before /\ (~d.necessary \/ d.exact = "none")}}
    <2>1. ASSUME NEW k \in found.cookies, k.before, k.category # "necessary"
          PROVE  \E c \in site.cookies : c.name = k.name /\ c.before /\ (~c.necessary \/ c.exact = "none")
      <3>1. PICK c \in site.cookies : k = mapCookie(c)
        BY AtDone
      <3>2. c.name = k.name /\ c.before /\ mapCookie(c).category # "necessary"
        BY <2>1, <3>1 DEF mapCookie
      <3>3. c.necessary => c.exact \in {"none", "necessary"}
        BY SiteCookies DEF SiteInv
      <3>4. ~c.necessary \/ c.exact = "none"
        BY <3>2, <3>3 DEF mapCookie, findKnownCookie
      <3>5. QED
        BY <3>2, <3>4
    <2>2. QED
      BY <1>1, <2>1
  <1>3. Evidence("TRACKERS_BEFORE_CONSENT", found) \subseteq early
    BY <1>1, AtDone
  <1>4. Evidence("US_DATA_TRANSFERS", found) \subseteq Contacts \cap HighRisk
    <2>1. ASSUME NEW s \in found.services, s.highRisk
          PROVE  s.host \in Contacts \cap HighRisk
      <3>1. PICK h \in Contacts \cap USServices : s = Service(h)
        BY AtDone
      <3>2. s.host = h /\ h \in HighRisk
        BY <2>1, <3>1 DEF Service, isHighRisk
      <3>3. QED
        BY <3>1, <3>2
    <2>2. QED
      BY <1>1, <2>1
  <1>5. "PRIVACY_POLICY_INCOMPLETE" \in issues =>
           \/ RequiredElements \ site.policy.elements = {"purpose"}
           \/ Evidence("PRIVACY_POLICY_INCOMPLETE", found) \ site.policy.elements # {}
    <2>1. SUFFICES ASSUME "PRIVACY_POLICY_INCOMPLETE" \in issues
                   PROVE  \/ RequiredElements \ site.policy.elements = {"purpose"}
                          \/ Evidence("PRIVACY_POLICY_INCOMPLETE", found) \ site.policy.elements # {}
      OBVIOUS
    <2>2. found.policy.analyzed /\ ~(RequiredElements \subseteq found.policy.elements)
      BY <2>1, OfOneGroup DEF PolicyIssues, Push
    <2>3. found.policy.elements = site.policy.elements
      BY <2>2 DEF SiteInv, PolicyInv
    <2>4. QED
      BY <1>1, <2>2, <2>3 DEF RequiredElements
  <1>6. \A code \in {"COOKIES_BEFORE_CONSENT", "TRACKERS_BEFORE_CONSENT", "US_DATA_TRANSFERS"} :
           code \in issues <=> Evidence(code, found) # {}
    BY <1>1, OfOneGroup
  <1>7. QED
    BY <1>2, <1>3, <1>4, <1>5, <1>6 DEF EvidenceIsTrue

(* AccusationsAreTrue: whatever the sites are, wherever the page has been when a phase looked at it,
   and whichever calls failed, executeScan reports no issue that its site has no cause for, but for the
   misjudgements that are named, and the evidence that ScannerReportService lists is true. *)
THEOREM AccusationsAlwaysTrue == Spec => []AccusationsAreTrue
  <1>1. SiteInv => AccusationsAreTrue
    BY NoFalseIssue, TrueEvidence DEF AccusationsAreTrue, JustlyAccused
  <1>2. QED
    BY SiteInvariant, <1>1, PTL

-----------------------------------------------------------------------------
(***************************************************************************)
(* The score.  Issues are a finite set of codes; that is all that the      *)
(* theorems about it need.                                                 *)
(***************************************************************************)
Levels == {"CRITICAL", "HIGH", "MEDIUM", "LOW"}
OfLevel(I, level) == {i \in I : RiskLevel(i) = level}

LEMMA LevelOfACode ==
  ASSUME NEW code
  PROVE  RiskLevel(code) \in Levels
  BY DEF RiskLevel, Levels

LEMMA LevelCount ==
  ASSUME NEW I, IsFiniteSet(I), NEW level
  PROVE  /\ IsFiniteSet(OfLevel(I, level)) /\ Cardinality(OfLevel(I, level)) \in Nat
         /\ Cardinality(OfLevel(I, level)) = 0 <=> \A i \in I : RiskLevel(i) # level
  <1>1. IsFiniteSet(OfLevel(I, level))
    BY FS_Subset DEF OfLevel
  <1>2. Cardinality(OfLevel(I, level)) = 0 <=> OfLevel(I, level) = {}
    BY <1>1, FS_EmptySet
  <1>3. OfLevel(I, level) = {} <=> \A i \in I : RiskLevel(i) # level
    BY DEF OfLevel
  <1>4. QED
    BY <1>1, <1>2, <1>3, FS_CardinalityType

Deducted(I) ==
    30 * Cardinality(OfLevel(I, "CRITICAL")) + 20 * Cardinality(OfLevel(I, "HIGH"))
    + 10 * Cardinality(OfLevel(I, "MEDIUM")) + 5 * Cardinality(OfLevel(I, "LOW"))

LEMMA ScoreOf ==
  ASSUME NEW I
  PROVE  calculateScore(I) = IF Deducted(I) >= 100 THEN 0 ELSE 100 - Deducted(I)
  <1>1. /\ Deduction["CRITICAL"] = 30 /\ Deduction["HIGH"] = 20
        /\ Deduction["MEDIUM"] = 10 /\ Deduction["LOW"] = 5
    BY DEF Deduction
  <1>2. QED
    BY <1>1 DEF calculateScore, Deducted, OfLevel

LEMMA Weights ==
  ASSUME NEW c \in Nat, NEW h \in Nat, NEW m \in Nat, NEW l \in Nat,
         NEW sum, sum = 30 * c + 20 * h + 10 * m + 5 * l
  PROVE  /\ sum \in Nat
         /\ sum = 0 <=> c = 0 /\ h = 0 /\ m = 0 /\ l = 0
         /\ (c # 0 => sum >= 30) /\ (h # 0 => sum >= 20) /\ (m # 0 => sum >= 10) /\ (l # 0 => sum >= 5)
  OBVIOUS

LEMMA DeductedSum ==
  ASSUME NEW I, IsFiniteSet(I)
  PROVE  /\ Deducted(I) \in Nat
         /\ Deducted(I) = 0 <=> I = {}
         /\ \A i \in I : Deducted(I) >= Deduction[RiskLevel(i)]
  <1> DEFINE n(level) == Cardinality(OfLevel(I, level))
  <1>1. /\ n("CRITICAL") \in Nat /\ n("HIGH") \in Nat /\ n("MEDIUM") \in Nat /\ n("LOW") \in Nat
        /\ \A level \in Levels : n(level) = 0 <=> \A i \in I : RiskLevel(i) # level
    BY LevelCount
  <1>2. I = {} <=> \A level \in Levels : n(level) = 0
    BY <1>1, LevelOfACode
  <1>3. Deducted(I) = 30 * n("CRITICAL") + 20 * n("HIGH") + 10 * n("MEDIUM") + 5 * n("LOW")
    BY DEF Deducted
  <1> HIDE DEF n
  <1>4. I = {} <=> n("CRITICAL") = 0 /\ n("HIGH") = 0 /\ n("MEDIUM") = 0 /\ n("LOW") = 0
    BY <1>2 DEF Levels
  <1>5. /\ Deducted(I) \in Nat
        /\ Deducted(I) = 0 <=> n("CRITICAL") = 0 /\ n("HIGH") = 0 /\ n("MEDIUM") = 0 /\ n("LOW") = 0
        /\ (n("CRITICAL") # 0 => Deducted(I) >= 30) /\ (n("HIGH") # 0 => Deducted(I) >= 20)
        /\ (n("MEDIUM") # 0 => Deducted(I) >= 10) /\ (n("LOW") # 0 => Deducted(I) >= 5)
    <2>1. PICK c \in Nat, h \in Nat, m \in Nat, l \in Nat :
             c = n("CRITICAL") /\ h = n("HIGH") /\ m = n("MEDIUM") /\ l = n("LOW")
      BY <1>1
    <2>2. Deducted(I) = 30 * c + 20 * h + 10 * m + 5 * l
      BY <1>3, <2>1
    <2>3. /\ Deducted(I) \in Nat
          /\ Deducted(I) = 0 <=> c = 0 /\ h = 0 /\ m = 0 /\ l = 0
          /\ (c # 0 => Deducted(I) >= 30) /\ (h # 0 => Deducted(I) >= 20)
          /\ (m # 0 => Deducted(I) >= 10) /\ (l # 0 => Deducted(I) >= 5)
      BY <2>2, Weights
    <2>4. QED
      BY <2>1, <2>3
  <1>6. ASSUME NEW i \in I
        PROVE  Deducted(I) >= Deduction[RiskLevel(i)]
    <2>1. RiskLevel(i) \in Levels /\ n(RiskLevel(i)) # 0
      BY <1>1, LevelOfACode
    <2>2. /\ Deduction["CRITICAL"] = 30 /\ Deduction["HIGH"] = 20
          /\ Deduction["MEDIUM"] = 10 /\ Deduction["LOW"] = 5
      BY DEF Deduction
    <2>3. QED
      BY <1>5, <2>1, <2>2 DEF Levels
  <1>7. QED
    BY <1>4, <1>5, <1>6

(* calculateScore is between 0 and 100, and 100 is the score of a scan without issues and of no other:
   there is no level whose issues cost nothing. *)
THEOREM FullScoreMeansNoIssue ==
  ASSUME NEW I, IsFiniteSet(I)
  PROVE  /\ calculateScore(I) \in 0..100
         /\ calculateScore(I) = 100 <=> I = {}
  BY DeductedSum, ScoreOf

(* A scan that finds more never scores higher, whatever the levels of what it finds. *)
THEOREM MoreIssuesNeverScoreHigher ==
  ASSUME NEW J, IsFiniteSet(J), NEW I \in SUBSET J
  PROVE  calculateScore(J) <= calculateScore(I)
  <1>1. IsFiniteSet(I)
    BY FS_Subset
  <1>2. ASSUME NEW level
        PROVE  /\ Cardinality(OfLevel(I, level)) \in Nat /\ Cardinality(OfLevel(J, level)) \in Nat
               /\ Cardinality(OfLevel(I, level)) <= Cardinality(OfLevel(J, level))
    <2>1. OfLevel(I, level) \subseteq OfLevel(J, level)
      BY DEF OfLevel
    <2>2. QED
      BY <1>1, <2>1, LevelCount, FS_Subset
  <1>3. Deducted(I) \in Nat /\ Deducted(J) \in Nat /\ Deducted(I) <= Deducted(J)
    BY <1>2 DEF Deducted
  <1>4. QED
    BY <1>3, ScoreOf

(* The score and the overall level of a report do not contradict each other: the level is that of the
   worst issue, and the score has lost at least what one issue of that level costs. *)
THEOREM LevelAndScoreAgree ==
  ASSUME NEW I, IsFiniteSet(I)
  PROVE  LET risk == calculateOverallRisk(I) IN
         /\ \A i \in I : Deduction[RiskLevel(i)] <= Deduction[risk]
         /\ I # {} => (\E i \in I : RiskLevel(i) = risk) /\ calculateScore(I) <= 100 - Deduction[risk]
  <1> DEFINE risk == calculateOverallRisk(I)
  <1>1. /\ Deduction["CRITICAL"] = 30 /\ Deduction["HIGH"] = 20
        /\ Deduction["MEDIUM"] = 10 /\ Deduction["LOW"] = 5
    BY DEF Deduction
  <1>2. /\ risk \in Levels
        /\ risk = "HIGH" => \A i \in I : RiskLevel(i) # "CRITICAL"
        /\ risk = "MEDIUM" => \A i \in I : RiskLevel(i) \notin {"CRITICAL", "HIGH"}
        /\ risk = "LOW" => \A i \in I : RiskLevel(i) \notin {"CRITICAL", "HIGH", "MEDIUM"}
        /\ risk # "LOW" => \E i \in I : RiskLevel(i) = risk
    BY DEF calculateOverallRisk, Levels
  <1> HIDE DEF risk
  <1>3. \A i \in I : Deduction[RiskLevel(i)] <= Deduction[risk]
    BY <1>1, <1>2, LevelOfACode DEF Levels
  <1>4. I # {} => \E i \in I : RiskLevel(i) = risk
    BY <1>2, LevelOfACode DEF Levels
  <1>5. I # {} => calculateScore(I) <= 100 - Deduction[risk]
    BY <1>1, <1>2, <1>4, DeductedSum, ScoreOf DEF Levels
  <1>6. QED
    BY <1>3, <1>4, <1>5 DEF risk

-----------------------------------------------------------------------------
(***************************************************************************)
(* What was there to be seen is reported.                                  *)
(***************************************************************************)
LEMMA AddFour ==
  ASSUME NEW S, IsFiniteSet(S), NEW a, NEW b, NEW c, NEW d
  PROVE  IsFiniteSet(S \cup {a, b, c, d})
  <1>1. IsFiniteSet(((S \cup {a}) \cup {b}))
    BY FS_AddElement
  <1>2. IsFiniteSet((((S \cup {a}) \cup {b}) \cup {c}) \cup {d})
    BY <1>1, FS_AddElement
  <1>3. S \cup {a, b, c, d} = (((S \cup {a}) \cup {b}) \cup {c}) \cup {d}
    OBVIOUS
  <1>4. QED
    BY <1>2, <1>3

LEMMA FiniteIssues == IsFiniteSet(issues)
  <1> DEFINE
        s1 == {"MISSING_CSP", "MISSING_HSTS", "MISSING_X_FRAME_OPTIONS",
               "MISSING_X_CONTENT_TYPE_OPTIONS"}
        s2 == s1 \cup {"MISSING_REFERRER_POLICY", "MISSING_PERMISSIONS_POLICY",
                       "COOKIES_BEFORE_CONSENT", "TRACKERS_BEFORE_CONSENT"}
        s3 == s2 \cup {"NO_CONSENT_BANNER", "NO_REJECT_OPTION", "PRE_CHECKED_BOXES",
                       "UNEQUAL_BUTTON_PROMINENCE"}
        s4 == s3 \cup {"COOKIE_WALL", "NO_GRANULAR_CONSENT", "NO_PRIVACY_POLICY",
                       "PRIVACY_POLICY_INCOMPLETE"}
        s5 == s4 \cup {"NO_DATA_RETENTION_INFO", "NO_COMPLAINT_RIGHT_INFO", "NO_HTTPS",
                       "MIXED_CONTENT"}
        s6 == s5 \cup {"COOKIE_EXCESSIVE_EXPIRATION", "COOKIES_WITHOUT_SECURE",
                       "COOKIES_WITHOUT_SAMESITE", "FORMS_WITHOUT_CONSENT"}
        s7 == s6 \cup {"FORMS_PRECHECKED_MARKETING", "FORMS_NO_PRIVACY_LINK",
                       "US_DATA_TRANSFERS", "EXCESSIVE_US_SERVICES"}
        s8 == s7 \cup {"EXCESSIVE_THIRD_PARTY", "NO_SECURITY_HEADERS", "WEAK_CSP", "WEAK_HSTS"}
        s9 == s8 \cup {"SSL_SELF_SIGNED", "SSL_INVALID", "SSL_EXPIRED", "SSL_EXPIRING_SOON"}
        codes == s9 \cup {"SSL_WEAK_PROTOCOL"}
  <1>1. issues \subseteq codes
    <2>1. MissingCodes \subseteq codes
      BY DEF MissingCodes, MissingCode, Headers
    <2>2. /\ CookieIssues(found.cookies) \subseteq codes
          /\ TrackerIssues(found.trackers) \subseteq codes
          /\ ThirdPartyIssues(found.thirdParty) \subseteq codes
          /\ TransferIssues(found.services) \subseteq codes
          /\ PolicyIssues(found.policy) \subseteq codes
      BY GroupCodes
    <2>3. /\ ConsentIssues(found.banner) \subseteq codes
          /\ SecurityIssues(found.https, found.mixed, found.cookies) \subseteq codes
          /\ FormIssues(found.forms) \subseteq codes
      BY GroupCodes
    <2>4. HeaderIssues(found.headers) \subseteq codes /\ SslIssues(found.ssl) \subseteq codes
      BY <2>1, GroupCodes
    <2> HIDE DEF codes
    <2>5. QED
      BY <2>2, <2>3, <2>4 DEF issues, generateIssues
  <1>2. IsFiniteSet(s1)
    <2>1. IsFiniteSet({} \cup s1)
      BY FS_EmptySet, AddFour
    <2>2. {} \cup s1 = s1
      OBVIOUS
    <2> HIDE DEF s1
    <2>3. QED
      BY <2>1, <2>2
  <1>3. IsFiniteSet(s3)
    <2> HIDE DEF s1
    <2>1. IsFiniteSet(s2)
      BY <1>2, AddFour
    <2> HIDE DEF s2
    <2>2. QED
      BY <2>1, AddFour
  <1>4. IsFiniteSet(s5)
    <2> HIDE DEF s3
    <2>1. IsFiniteSet(s4)
      BY <1>3, AddFour
    <2> HIDE DEF s4
    <2>2. QED
      BY <2>1, AddFour
  <1>5. IsFiniteSet(s7)
    <2> HIDE DEF s5
    <2>1. IsFiniteSet(s6)
      BY <1>4, AddFour
    <2> HIDE DEF s6
    <2>2. QED
      BY <2>1, AddFour
  <1>6. IsFiniteSet(s9)
    <2> HIDE DEF s7
    <2>1. IsFiniteSet(s8)
      BY <1>5, AddFour
    <2> HIDE DEF s8
    <2>2. QED
      BY <2>1, AddFour
  <1> HIDE DEF s9
  <1>7. IsFiniteSet(codes)
    BY <1>6, FS_AddElement
  <1> HIDE DEF codes
  <1>8. QED
    BY <1>1, <1>7, FS_Subset

(* the groups of which generateIssues is the union *)
LEMMA Groups ==
  /\ CookieIssues(found.cookies) \subseteq issues /\ TrackerIssues(found.trackers) \subseteq issues
  /\ ConsentIssues(found.banner) \subseteq issues /\ PolicyIssues(found.policy) \subseteq issues
  /\ SecurityIssues(found.https, found.mixed, found.cookies) \subseteq issues
  /\ FormIssues(found.forms) \subseteq issues /\ TransferIssues(found.services) \subseteq issues
  /\ HeaderIssues(found.headers) \subseteq issues /\ SslIssues(found.ssl) \subseteq issues
  BY DEF issues, generateIssues

LEMMA ConsentOffences ==
  ASSUME SiteInv, phase = "done"
  PROVE  /\ Admits("NO_CONSENT_BANNER") => "NO_CONSENT_BANNER" \in issues
         /\ Shows("banner") =>
               \A c \in {"NO_REJECT_OPTION", "PRE_CHECKED_BOXES", "UNEQUAL_BUTTON_PROMINENCE",
                         "COOKIE_WALL"} : Admits(c) => c \in issues \cup Overlooked
  <1>1. PICK seen \in Views :
           IF "banner" \in seen THEN BannerSeen(found.banner, seen) ELSE found.banner = Nothing.banner
    BY AtDone
  <1>2. seen \subseteq site.banner /\ site.banner \ seen \subseteq lost
    BY DEF Views
  <1>3. ASSUME ~Shows("banner")
        PROVE  "NO_CONSENT_BANNER" \in ConsentIssues(found.banner)
    <2>1. found.banner = Nothing.banner
      BY <1>1, <1>2, <1>3 DEF Shows
    <2>2. Nothing.banner = [found |-> FALSE, accept |-> FALSE]
      BY DEF Nothing
    <2>3. ~found.banner.found
      BY <2>1, <2>2
    <2>4. QED
      BY <2>3 DEF ConsentIssues
  <1>4. ASSUME Shows("banner"),
               NEW c \in {"NO_REJECT_OPTION", "PRE_CHECKED_BOXES", "UNEQUAL_BUTTON_PROMINENCE",
                          "COOKIE_WALL"}, Admits(c)
        PROVE  c \in ConsentIssues(found.banner) \cup Overlooked
    <2>1. CASE "banner" \notin seen
      <3>1. "banner" \in lost
        BY <1>2, <1>4, <2>1 DEF Shows
      <3>2. QED
        BY <3>1 DEF Overlooked
    <2>2. CASE "banner" \in seen
      <3>1. /\ found.banner.found /\ found.banner.reject = ("reject" \in seen)
            /\ found.banner.preChecked = ("preChecked" \in seen)
            /\ found.banner.equalProminence = EqualProminence(seen)
            /\ found.banner.cookieWall = CookieWall(seen)
        BY <1>1, <2>2 DEF BannerSeen
      <3>2. CASE c = "NO_REJECT_OPTION"
        <4>1. "reject" \notin seen
          BY <1>2, <1>4, <3>2, AdmitsConsent DEF Shows
        <4>2. QED
          BY <3>1, <3>2, <4>1 DEF ConsentIssues, Push
      <3>3. CASE c = "PRE_CHECKED_BOXES"
        <4>1. "preChecked" \in seen \cup lost
          BY <1>2, <1>4, <3>3, AdmitsConsent DEF Shows
        <4>2. QED
          BY <3>1, <3>3, <4>1 DEF ConsentIssues, Push, Overlooked
      <3>4. CASE c = "UNEQUAL_BUTTON_PROMINENCE"
        <4>1. ~EqualProminence(seen) \/ lost \cap {"accept", "smallReject"} # {}
          BY <1>2, <1>4, <3>4, AdmitsConsent DEF EqualProminence, Shows
        <4>2. QED
          BY <3>1, <3>4, <4>1 DEF ConsentIssues, Push, Overlooked
      <3>5. CASE c = "COOKIE_WALL"
        <4>1. CookieWall(seen) \/ "blocking" \in lost
          BY <1>2, <1>4, <3>5, AdmitsConsent DEF CookieWall, Shows
        <4>2. QED
          BY <3>1, <3>5, <4>1 DEF ConsentIssues, Push, Overlooked
      <3>6. QED
        BY <3>2, <3>3, <3>4, <3>5
    <2>3. QED
      BY <2>1, <2>2
  <1>5. QED
    BY <1>3, <1>4, AdmitsConsent, Groups

LEMMA CookieOffences ==
  ASSUME SiteInv, phase = "done", NEW c \in site.cookies, c.before,
         "necessary" \notin {c.exact, c.prefix, c.pattern}
  PROVE  "COOKIES_BEFORE_CONSENT" \in issues
  <1>1. mapCookie(c) \in found.cookies
    BY AtDone DEF EarlyCookies
  <1>2. mapCookie(c).before /\ mapCookie(c).category # "necessary"
    BY DEF mapCookie, findKnownCookie, guessCategory
  <1>3. "COOKIES_BEFORE_CONSENT" \in CookieIssues(found.cookies)
    BY <1>1, <1>2 DEF CookieIssues, Push
  <1>4. QED
    BY <1>3, Groups

LEMMA RequestOffences ==
  ASSUME SiteInv, phase = "done"
  PROVE  /\ HomeHosts \cap Trackers # {} => "TRACKERS_BEFORE_CONSENT" \in issues
         /\ HomeHosts \cap HighRisk # {} => "US_DATA_TRANSFERS" \in issues
         /\ HomeHosts \cap site.scripts \cap Signatures \subseteq found.technologies
  <1>1. ASSUME NEW t \in HomeHosts \cap Trackers
        PROVE  "TRACKERS_BEFORE_CONSENT" \in issues
    <2>1. [host |-> t, before |-> TRUE] \in found.trackers
      BY AtDone
    <2>2. \E k \in found.trackers : k.before
      BY <2>1
    <2>3. QED
      BY <2>2, OfOneGroup
  <1>2. ASSUME NEW h \in HomeHosts \cap HighRisk
        PROVE  "US_DATA_TRANSFERS" \in issues
    <2>1. h \in USServices
      BY SiteAssumption
    <2>2. Service(h) \in found.services
      BY <2>1, AtDone
    <2>3. Service(h).highRisk
      BY <2>1 DEF Service, isHighRisk, isUSService
    <2>4. QED
      BY <2>2, <2>3, OfOneGroup
  <1>3. HomeHosts \cap site.scripts \cap Signatures \subseteq found.technologies
    BY DEF SiteInv, RequestInv
  <1>4. QED
    BY <1>1, <1>2, <1>3

LEMMA ServerOffences ==
  ASSUME SiteInv, phase = "done"
  PROVE  /\ "headers" \notin lost => \A h \in Headers \ site.headers.present :
               {MissingCode[h], "NO_SECURITY_HEADERS"} \cap issues # {}
         /\ "ssl" \notin lost /\ site.scheme = "https" /\ site.cert.days = "past" =>
               calculateOverallRisk(issues) = "CRITICAL"
  <1>1. ASSUME "headers" \notin lost, NEW h \in Headers \ site.headers.present
        PROVE  {MissingCode[h], "NO_SECURITY_HEADERS"} \cap issues # {}
    <2>1. found.headers = site.headers
      BY <1>1, AtDone
    <2>2. {MissingCode[h], "NO_SECURITY_HEADERS"} \cap HeaderIssues(found.headers) # {}
      BY <1>1, <2>1 DEF HeaderIssues
    <2>3. QED
      BY <2>2, Groups
  <1>2. ASSUME "ssl" \notin lost, site.scheme = "https", site.cert.days = "past"
        PROVE  calculateOverallRisk(issues) = "CRITICAL"
    <2>1. found.ssl = CertificateSeen
      BY <1>2, AtDone
    <2>2. ~found.ssl.skipped /\ found.ssl.days = "past"
      BY <1>2, <2>1 DEF CertificateSeen
    <2>3. "SSL_EXPIRED" \in SslIssues(found.ssl)
      BY <2>2 DEF SslIssues, Push
    <2>4. "SSL_EXPIRED" \notin Medium \cup Low
      BY DEF Medium, Low, MissingCode, Headers
    <2>5. RiskLevel("SSL_EXPIRED") = "CRITICAL"
      BY <2>4 DEF RiskLevel, Critical
    <2>6. "SSL_EXPIRED" \in issues
      BY <2>3, Groups
    <2>7. QED
      BY <2>5, <2>6 DEF calculateOverallRisk
  <1>3. QED
    BY <1>1, <1>2

LEMMA PageOffences ==
  ASSUME SiteInv, phase = "done"
  PROVE  /\ Admits("NO_PRIVACY_POLICY") => "NO_PRIVACY_POLICY" \in issues
         /\ Admits("NO_HTTPS") => "NO_HTTPS" \in issues
         /\ (\E x \in HomeForms : AsksWhoYouAre(x) /\ ~x.consent) =>
               "FORMS_WITHOUT_CONSENT" \in issues \/ lost \cap {"headers", "forms"} # {}
  <1>1. ASSUME Admits("NO_PRIVACY_POLICY")
        PROVE  "NO_PRIVACY_POLICY" \in PolicyIssues(found.policy)
    BY <1>1, AtDone, AdmitsPolicy DEF PolicyIssues, Push
  <1>2. ASSUME Admits("NO_HTTPS")
        PROVE  "NO_HTTPS" \in SecurityIssues(found.https, found.mixed, found.cookies)
    BY <1>2, AtDone, AdmitsSecurity DEF SecurityIssues, Push
  <1>3. ASSUME \E x \in HomeForms : AsksWhoYouAre(x) /\ ~x.consent, lost \cap {"headers", "forms"} = {}
        PROVE  "FORMS_WITHOUT_CONSENT" \in FormIssues(found.forms)
    BY <1>3, AtDone DEF FormIssues, Push
  <1>4. QED
    BY <1>1, <1>2, <1>3, Groups

(* OffencesAreReported: whatever the sites are, wherever the page has been and whichever calls failed, a
   scan that executeScan finishes has an issue for each of the offences that the property lists, but for
   what a call that failed would have shown, and a full score means that there is no issue. *)
THEOREM OffencesAlwaysReported == Spec => []OffencesAreReported
  <1>1. SiteInv => OffencesAreReported
    <2> SUFFICES ASSUME SiteInv, phase = "done"
                 PROVE  OffencesAreReported
      BY DEF OffencesAreReported
    <2>1. (\E c \in site.cookies : c.before /\ ~c.necessary
             /\ "necessary" \notin {c.exact, c.prefix, c.pattern}) => "COOKIES_BEFORE_CONSENT" \in issues
      BY CookieOffences
    <2>2. calculateScore(issues) = 100 => issues = {}
      BY FiniteIssues, FullScoreMeansNoIssue
    <2>3. QED
      BY <2>1, <2>2, ConsentOffences, PageOffences, RequestOffences, ServerOffences
      DEF OffencesAreReported, HomeHosts, HomeForms
  <1>2. QED
    BY SiteInvariant, <1>1, PTL

(* The variables of a scan always have the values they are declared to have: no phase writes a finding
   that the issues do not know, and no more calls fail than the bound allows. *)
THEOREM TypeCorrect == Spec => []TypeOK
  <1>1. SiteInv => TypeOK
    BY DEF SiteInv
  <1>2. QED
    BY SiteInvariant, <1>1, PTL

=============================================================================
