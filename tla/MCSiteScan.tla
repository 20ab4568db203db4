----------------------------- MODULE MCSiteScan -----------------------------
(* The instance of SiteScan for TLC: a site without faults, and every site that differs from it in one
   or two of the ways listed. *)
EXTENDS SiteScan, Sequences

Cookie(n, before, necessary) ==
    [name |-> n, before |-> before, necessary |-> necessary, secure |-> TRUE, sameSite |-> TRUE,
     long |-> FALSE, exact |-> IF necessary THEN "necessary" ELSE "none", prefix |-> "none",
     pattern |-> "unknown"]

Form == [inForm |-> TRUE, search |-> FALSE, email |-> TRUE, name |-> TRUE, phone |-> FALSE,
         preChecked |-> FALSE, consent |-> "agree", link |-> "privacy"]

(* hosts asked by so many requests *)
Asks(hosts, n) == [hosts |-> hosts, count |-> n]

Clean ==
    [scheme |-> "https", mixed |-> FALSE,
     headers |-> [present |-> Headers, unsafeCsp |-> FALSE, shortHsts |-> FALSE],
     cert |-> [trusted |-> TRUE, ownIssuer |-> FALSE, days |-> "many", weakProtocol |-> FALSE],
     banner |-> {"banner", "accept", "reject", "settings", "categoriesInModal"},
     policy |-> [linked |-> TRUE, readable |-> TRUE, elements |-> PolicyElements],
     cookies |-> {Cookie("session", TRUE, TRUE), Cookie("ads", FALSE, FALSE)},
     loads |-> [home |-> Asks({}, 0)], late |-> {}, consented |-> {"tracker"},
     scripts |-> {"tracker"}, markup |-> {"cms"}, forms |-> [home |-> {Form}],
     sitemap |-> {"contact"}, robots |-> {}, links |-> {}]

Variants == <<
    [f |-> "scheme", v |-> "redirects"], [f |-> "scheme", v |-> "http"], [f |-> "mixed", v |-> TRUE],
    [f |-> "headers", v |-> [Clean.headers EXCEPT !.present = {"CSP", "HSTS"}]],
    [f |-> "headers", v |-> [Clean.headers EXCEPT !.present = {"frame"}]],
    [f |-> "headers", v |-> [Clean.headers EXCEPT !.unsafeCsp = TRUE, !.shortHsts = TRUE]],
    [f |-> "cert", v |-> [Clean.cert EXCEPT !.trusted = FALSE, !.ownIssuer = TRUE]],
    [f |-> "cert", v |-> [Clean.cert EXCEPT !.trusted = FALSE, !.weakProtocol = TRUE]],
    [f |-> "cert", v |-> [Clean.cert EXCEPT !.days = "past"]],
    [f |-> "cert", v |-> [Clean.cert EXCEPT !.days = "none"]],
    [f |-> "cert", v |-> [Clean.cert EXCEPT !.days = "upTo30"]],
    [f |-> "banner", v |-> {}],
    [f |-> "banner", v |-> {"banner", "accept", "blocking"}],
    [f |-> "banner", v |-> {"banner", "accept", "blocking", "settings", "categories"}],
    [f |-> "banner", v |-> {"banner", "accept", "reject", "smallReject", "preChecked"}],
    [f |-> "banner", v |-> Clean.banner \cup {"modalHidesAccept"}],
    [f |-> "policy", v |-> [linked |-> FALSE, readable |-> FALSE, elements |-> {}]],
    [f |-> "policy", v |-> [Clean.policy EXCEPT !.readable = FALSE]],
    [f |-> "policy", v |-> [Clean.policy EXCEPT !.elements = RequiredElements]],
    [f |-> "policy", v |-> [Clean.policy EXCEPT !.elements = {"dpo"}]],
    [f |-> "policy", v |-> [Clean.policy EXCEPT !.elements = @ \ {"purpose"}]],
    [f |-> "cookies", v |-> {Cookie("ads", TRUE, FALSE)}],
    [f |-> "cookies", v |-> {[Cookie("session", TRUE, TRUE) EXCEPT !.secure = FALSE, !.long = TRUE,
                                                                  !.sameSite = FALSE]}],
    [f |-> "cookies", v |-> {[Cookie("frontend", TRUE, TRUE) EXCEPT !.exact = "none", !.prefix = "marketing"],
                             [Cookie("login", TRUE, TRUE) EXCEPT !.exact = "none", !.pattern = "necessary"]}],
    [f |-> "cookies", v |-> {[Cookie("sid_ads", TRUE, FALSE) EXCEPT !.prefix = "necessary"]}],
    [f |-> "loads", v |-> [home |-> Asks({"tracker"}, 2)]],
    [f |-> "loads", v |-> [home |-> Asks({"cdn"}, 1), policy |-> Asks({"tracker"}, 1)]],
    [f |-> "loads", v |-> [home |-> Asks({"cdn", "tracker"}, 3), contact |-> Asks({"tracker"}, 1)]],
    [f |-> "loads", v |-> [home |-> Asks({}, 0), sitemap |-> Asks({"tracker"}, 1)]],
    [f |-> "late", v |-> {"tracker"}],
    [f |-> "forms", v |-> [home |-> {[Form EXCEPT !.consent = "none"]}]],
    [f |-> "forms", v |-> [home |-> {}, contact |-> {[Form EXCEPT !.link = "none", !.preChecked = TRUE]}]],
    [f |-> "forms", v |-> [home |-> {[Form EXCEPT !.search = TRUE],
                                     [Form EXCEPT !.inForm = FALSE, !.consent = "accept"],
                                     [Form EXCEPT !.inForm = FALSE, !.link = "datenschutz"]}]],
    [f |-> "forms", v |-> [home |-> {[Form EXCEPT !.email = FALSE, !.name = FALSE, !.phone = TRUE,
                                                  !.consent = "none"]}]],
    [f |-> "sitemap", v |-> {}], [f |-> "sitemap", v |-> {"blog"}], [f |-> "robots", v |-> {"signup"}],
    [f |-> "links", v |-> {"contact", "signup"}] >>

Vary(s, i) == [s EXCEPT ![Variants[i].f] = Variants[i].v]
MCSites == {Vary(Vary(Clean, i), j) : i, j \in DOMAIN Variants}

=============================================================================
