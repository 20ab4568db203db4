------------------------------ MODULE Verdict ------------------------------
(***************************************************************************)
(* IssueGeneratorService and ScoreCalculatorService: from what a scan has  *)
(* found to its issues, risk level and score.  The static generateIssues   *)
(* of every analyzer is an operator here; each pushes a code at most once, *)
(* so the issues of a scan are a set of codes.  Titles and texts are left  *)
(* out.                                                                    *)
(***************************************************************************)
EXTENDS Naturals, FiniteSets

CONSTANTS
    ThirdPartyLimit,  \* the 10 of checkThirdPartyIssues
    USServiceLimit,   \* the 10 of EXCESSIVE_US_SERVICES
    SameSiteLimit     \* the 3 of COOKIES_WITHOUT_SAMESITE

ASSUME LimitsAssumption ==
    ThirdPartyLimit \in Nat /\ USServiceLimit \in Nat /\ SameSiteLimit \in Nat

(* An issue is pushed when its condition holds. *)
Push(code, condition) == {c \in {code} : condition}

CookieIssues(cookies) ==
    Push("COOKIES_BEFORE_CONSENT", \E c \in cookies : c.before /\ c.category # "necessary")

TrackerIssues(trackers) == Push("TRACKERS_BEFORE_CONSENT", \E t \in trackers : t.before)

ThirdPartyIssues(n) == Push("EXCESSIVE_THIRD_PARTY", n > ThirdPartyLimit)

ConsentIssues(b) ==
    IF ~b.found THEN {"NO_CONSENT_BANNER"}
    ELSE UNION {
        Push("NO_REJECT_OPTION", ~b.reject),
        Push("PRE_CHECKED_BOXES", b.preChecked),
        Push("UNEQUAL_BUTTON_PROMINENCE", ~b.equalProminence),
        Push("COOKIE_WALL", b.cookieWall),
        Push("NO_GRANULAR_CONSENT", ~b.granular /\ b.accept) }

(* what PRIVACY_POLICY_INCOMPLETE is about; the other elements are optional, or issues of their own *)
RequiredElements == {"controller", "purpose", "legalBasis", "userRights"}
PolicyElements ==
    RequiredElements \cup {"dpo", "retention", "complaint", "sharing", "transfers"}

PolicyIssues(p) ==
    Push("NO_PRIVACY_POLICY", ~p.found) \cup
    IF ~(p.found /\ p.analyzed) THEN {}
    ELSE UNION {
        Push("PRIVACY_POLICY_INCOMPLETE", ~(RequiredElements \subseteq p.elements)),
        Push("NO_DATA_RETENTION_INFO", "retention" \notin p.elements),
        Push("NO_COMPLAINT_RIGHT_INFO", "complaint" \notin p.elements) }

(* security: HTTPS, mixed content and the flags of the merged cookies *)
SecurityIssues(https, mixed, cookies) == UNION {
    Push("NO_HTTPS", ~https),
    Push("MIXED_CONTENT", mixed),
    Push("COOKIE_EXCESSIVE_EXPIRATION", \E c \in cookies : c.long),
    Push("COOKIES_WITHOUT_SECURE", https /\ \E c \in cookies : ~c.secure),
    Push("COOKIES_WITHOUT_SAMESITE", Cardinality({c \in cookies : ~c.sameSite}) > SameSiteLimit) }

(* The counts of analyzeForms are compared with 0 and with one another, so sets of forms will do. A form
   with a telephone field alone collects data but is not looked at for its consent or its link. *)
AsksWhoYouAre(x) == x.email \/ x.name
DataCollection(forms) == {x \in forms : AsksWhoYouAre(x) \/ x.phone}
WithPrivacyLink(forms) == {x \in forms : x.link /\ AsksWhoYouAre(x)}

FormIssues(forms) == UNION {
    Push("FORMS_WITHOUT_CONSENT", \E x \in forms : AsksWhoYouAre(x) /\ ~x.consent),
    Push("FORMS_PRECHECKED_MARKETING", \E x \in forms : x.preChecked),
    Push("FORMS_NO_PRIVACY_LINK",
         Cardinality(DataCollection(forms)) > Cardinality(WithPrivacyLink(forms))) }

(* services: the US services found, each [host, highRisk] *)
TransferIssues(services) ==
    Push("US_DATA_TRANSFERS", \E s \in services : s.highRisk) \cup
    Push("EXCESSIVE_US_SERVICES", Cardinality(services) > USServiceLimit)

MissingCode ==
    [CSP |-> "MISSING_CSP", HSTS |-> "MISSING_HSTS", frame |-> "MISSING_X_FRAME_OPTIONS",
     contentType |-> "MISSING_X_CONTENT_TYPE_OPTIONS", referrer |-> "MISSING_REFERRER_POLICY",
     permissions |-> "MISSING_PERMISSIONS_POLICY"]
Headers == DOMAIN MissingCode

HeaderIssues(h) ==
    IF Cardinality(Headers \ h.present) >= 5 THEN {"NO_SECURITY_HEADERS"}
    ELSE UNION {
        {MissingCode[x] : x \in Headers \ h.present},
        Push("WEAK_CSP", "CSP" \in h.present /\ h.unsafeCsp),
        Push("WEAK_HSTS", "HSTS" \in h.present /\ h.shortHsts) }

(* s.days: whole days until expiry, "past" for less than none, or "null" without a certificate *)
SslIssues(s) ==
    IF s.skipped THEN {}
    ELSE UNION {
        Push("SSL_SELF_SIGNED", s.selfSigned),
        Push("SSL_INVALID", ~s.valid /\ ~s.selfSigned /\ s.error),
        Push("SSL_EXPIRED", s.days \in {"past", "none"}),
        Push("SSL_EXPIRING_SOON", s.days = "upTo30"),
        Push("SSL_WEAK_PROTOCOL", s.weakProtocol) }

generateIssues(f) == UNION {
    CookieIssues(f.cookies), TrackerIssues(f.trackers), ConsentIssues(f.banner),
    PolicyIssues(f.policy), ThirdPartyIssues(f.thirdParty),
    SecurityIssues(f.https, f.mixed, f.cookies), FormIssues(f.forms), TransferIssues(f.services),
    HeaderIssues(f.headers), SslIssues(f.ssl) }

-----------------------------------------------------------------------------
(***************************************************************************)
(* ScoreCalculatorService                                                  *)
(***************************************************************************)
Critical == {"NO_CONSENT_BANNER", "COOKIE_WALL", "SSL_EXPIRED"}
Medium == {"EXCESSIVE_THIRD_PARTY", "NO_GRANULAR_CONSENT", "NO_PRIVACY_POLICY",
           "NO_DATA_RETENTION_INFO", "NO_COMPLAINT_RIGHT_INFO", "MIXED_CONTENT",
           "COOKIE_EXCESSIVE_EXPIRATION", "COOKIES_WITHOUT_SECURE", "FORMS_NO_PRIVACY_LINK",
           "EXCESSIVE_US_SERVICES", "MISSING_CSP", "MISSING_HSTS", "SSL_EXPIRING_SOON"}
Low == {"COOKIES_WITHOUT_SAMESITE", "WEAK_CSP", "WEAK_HSTS"} \cup
       {MissingCode[x] : x \in Headers \ {"CSP", "HSTS"}}

RiskLevel(code) ==
    CASE code \in Critical -> "CRITICAL"
      [] code \in Medium -> "MEDIUM"
      [] code \in Low -> "LOW"
      [] OTHER -> "HIGH"

Deduction == [CRITICAL |-> 30, HIGH |-> 20, MEDIUM |-> 10, LOW |-> 5]

calculateOverallRisk(issues) ==
    LET Some(level) == \E i \in issues : RiskLevel(i) = level IN
    CASE Some("CRITICAL") -> "CRITICAL"
      [] ~Some("CRITICAL") /\ Some("HIGH") -> "HIGH"
      [] ~Some("CRITICAL") /\ ~Some("HIGH") /\ Some("MEDIUM") -> "MEDIUM"
      [] OTHER -> "LOW"

calculateScore(issues) ==
    LET Lost(level) == Deduction[level] * Cardinality({i \in issues : RiskLevel(i) = level})
        lost == Lost("CRITICAL") + Lost("HIGH") + Lost("MEDIUM") + Lost("LOW")
    IN IF lost >= 100 THEN 0 ELSE 100 - lost
-----------------------------------------------------------------------------
(***************************************************************************)
(* ScannerReportService: what the stored report says of an issue.          *)
(***************************************************************************)
(* generateEvidence: the names it lists, of which the report has the first five; the other issues get a
   fixed sentence, or none *)
Evidence(code, f) ==
    CASE code = "COOKIES_BEFORE_CONSENT" ->
             {c.name : c \in {d \in f.cookies : d.before /\ d.category # "necessary"}}
      [] code = "TRACKERS_BEFORE_CONSENT" -> {t.host : t \in {u \in f.trackers : u.before}}
      [] code = "PRIVACY_POLICY_INCOMPLETE" ->
             {"controller", "dpo", "legalBasis", "userRights"} \ f.policy.elements
      [] code = "US_DATA_TRANSFERS" -> {s.host : s \in {t \in f.services : t.highRisk}}
      [] OTHER -> {}

=============================================================================
