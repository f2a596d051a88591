--------------------------------- MODULE MCDesk ---------------------------------
(***************************************************************************)
(* An instance of the back office: a board with one feature request and    *)
(* one bug report, two admins and room for a third, two providers, two     *)
(* channels, two plans of one stream a day, payment credentials that are   *)
(* set, missing or only in the environment, and mixes of requests.         *)
(***************************************************************************)
EXTENDS CommunityProps, ConsoleProps, QuotasProps, ListingProps, NoticesProps, GatesProps, MailProps, LedgerProps, AppleKeysProps

CONSTANTS ann, bob, boom, eve, home, k1, k2, kim, lee, w1, w2

Wish == [kind |-> "feature", title |-> "given", platform |-> "mac", status |-> "new",
         notes |-> "none", public |-> TRUE, proposal |-> FALSE, count |-> 0,
         author |-> ann, shot |-> 0]
Fault == [Wish EXCEPT !.kind = "bug", !.title = "none", !.platform = "none", !.author = Nobody]
Board == <<Wish, Fault>>

Body(kind, title, platform, text, trap) ==
  [kind |-> kind, title |-> title, platform |-> platform, text |-> text, trap |-> trap]
Sent == {Body("feature", "given", "mac", "given", FALSE),
         Body("feature", "none", "mac", "given", FALSE),
         Body("feature", "given", "none", "given", FALSE),
         Body("bug", "given", "mac", "given", FALSE),
         Body("bug", "none", "none", "blank", FALSE),
         Body("bug", "none", "none", "given", TRUE),
         Body("other", "none", "none", "given", FALSE)}

Edits == {[status |-> "resolved"], [status |-> "new"], [status |-> "bogus"],
          [notes |-> "given"], [title |-> "none"], [public |-> FALSE]}
Wanted == {[type |-> "number", n |-> 4], [type |-> "text", n |-> 5], [type |-> "null", n |-> 0],
           [type |-> "number", n |-> 0]}

CommunityMixes ==
  {{"vote", "leave"}, {"vote", "deleteBug"},
   {"feedback", "leave"}, {"bug", "leave"},
   {"patch", "suggest", "bugJob"}, {"patch", "deleteBug", "bugJob"},
   {"crash", "deleteError", "leave"}, {"crash", "errorJob", "suggest", "status", "deleteError"}}

-----------------------------------------------------------------------------
Admin(e) == [email |-> e, password |-> "first", active |-> TRUE]
Chiefs   == eve :> Admin("eve@") @@ kim :> Admin("kim@") @@ lee :> NoRow
Rehired  == {[email |-> "lee@"], [active |-> TRUE], [active |-> FALSE, email |-> "kim@"]}

Asked  == <<[dflt |-> FALSE, active |-> TRUE, key |-> "k0"],
            [dflt |-> TRUE, active |-> TRUE, key |-> "k0"], NoRow>>
Saved  == {[dflt |-> TRUE], [active |-> FALSE], [key |-> "masked", dflt |-> TRUE, active |-> FALSE]}
Tuned  == {[key |-> "k1"], [key |-> "masked"], [methods |-> "unknown"],
           [methods |-> "stripe", key |-> "k2"]}
Shipped == [direct |-> [version |-> "v1", sha |-> "v1", enabled |-> TRUE], store |-> NoRow]
Builds == {[version |-> "v2", sha |-> "v2"], [version |-> "v2", sha |-> ""],
           [version |-> "v1", sha |-> "v1", enabled |-> FALSE]}

ConsoleMixes == {{"staff", "login"}, {"provider", "prompt"}, {"settings"}, {"release", "latest"}}

-----------------------------------------------------------------------------
Plan(limit, period) == [limit |-> limit, period |-> period, active |-> TRUE]
Priced  == <<Plan(1, "none"), Plan(1, "monthly"), NoRow>>
Paying  == ann :> 2
Repriced == {Plan(2, "monthly"), Plan(-1, "none"), Plan(0, "yearly")}
Tastes  == {[enabled |-> TRUE], [enabled |-> FALSE], [notes |-> "given"], [notes |-> "long"]}

QuotaMixes ==
  {{"stream", "plans"}, {"stream", "midnight"}, {"stream", "minute"}, {"stream", "subscription"},
   {"rewrite", "plans"}, {"rewrite", "subscription", "stream"}, {"rewrite", "profile", "review"},
   {"trial"}}

-----------------------------------------------------------------------------
Entry(source, key, hit, live) == [source |-> source, key |-> key, hit |-> hit, live |-> live]
Stock   == <<Entry("bug", 2, TRUE, TRUE), Entry("error", 3, TRUE, TRUE),
             Entry("error", 1, TRUE, FALSE), NoRow>>
Written == {Entry("feature", 3, FALSE, TRUE)}

Query(list, page, limit, search, status, up) ==
  [list |-> list, page |-> page, limit |-> limit, search |-> search, status |-> status, up |-> up]
Plain(list, page, limit) == Query(list, page, limit, FALSE, "all", FALSE)
Requests ==
  {Plain("entities", Absent, 1), Plain("entities", 1, 5), Query("entities", Absent, -1, TRUE, "all", TRUE),
   Plain("features", 0, 0), Query("users", -1, 0, FALSE, "active", FALSE), Plain("users", 1, 5),
   Plain("payments", Absent, 1), Plain("payments", 1, -1),
   Plain("transactions", 0, Absent), Plain("transactions", 1, 2),
   Query("emailLogs", Absent, 0, FALSE, "inactive", TRUE)}

Held == {Absent, -1, 1, 3}

ListingMixes == {{"list", "write"}, {"inbox", "write"}, {"counts", "write"}}

-----------------------------------------------------------------------------
Keyring(api, hook) == [api |-> api, hook |-> hook]
Configured == [stripe |-> Keyring(k1, Unset), lemonsqueezy |-> Keyring(k1, k1), paypal |-> Keyring(Unset, k1),
               vietqr |-> [hook |-> k1, sepay |-> Unset]]
Deployed   == [stripe |-> Keyring(Unset, Unset), lemonsqueezy |-> Keyring(Unset, Unset),
               paypal |-> Keyring(k1, Unset), vietqr |-> [hook |-> Unset, sepay |-> k2]]
Sold       == {{"stripe", "lemonsqueezy", "vietqr", "paypal", "apple_pay"}, {"bank_transfer", "google_pay"}}
Bundle(b, e) == [bundle |-> b, env |-> e]
Bundles    == {Bundle(TRUE, "Production"), Bundle(FALSE, ""), Bundle(TRUE, ""), Bundle(FALSE, "Production")}

NoticesMixes == {{"stripe", "operate"}, {"lemonsqueezy", "operate"}, {"vietqr", "operate"}, {"paypal", "operate"},
                 {"apple", "operate"}}

-----------------------------------------------------------------------------
Standing(active, role) == [active |-> active, role |-> role]
Accounts0 == ann :> Standing(TRUE, "admin") @@ eve :> Standing(TRUE, "support")
Changes   == {[active |-> FALSE], [active |-> TRUE], [role |-> "user"], [role |-> "admin"]}

GatesMixes == {{"login", "refresh", "account", "ask"}, {"login", "lifetime", "account", "ask"},
               {"manager", "staff", "ask"},
               {"login", "extension", "ask"}, {"login", "extension", "account"}}

-----------------------------------------------------------------------------
MailMixes == {{"subscribe"}, {"mail", "mailKey"}}

-----------------------------------------------------------------------------
Day(y, m) == [year |-> y, month |-> m]
Tariff == <<[name |-> "Pro", price |-> 500, period |-> "monthly"], [name |-> "Pro Year", price |-> 5000, period |-> "yearly"],
            [name |-> "Free", price |-> 0, period |-> "none"]>>
Cohort == <<[plan |-> 1, status |-> "active", started |-> Day(1, 12), updated |-> Day(1, 12)],
            [plan |-> 2, status |-> "cancelled", started |-> Day(1, 9), updated |-> Day(2, 1)],
            [plan |-> 2, status |-> "active", started |-> Day(1, 11), updated |-> Day(2, 1)]>>
Tariffs == {[price |-> 700], [name |-> "Pro"]}
January == Day(2, 1)
February == Day(2, 2)

LedgerMixes == {{"dashboard", "churn"}, {"dashboard", "menu", "grant"}}

-----------------------------------------------------------------------------
AppleMixes == {{"apple"}}

-----------------------------------------------------------------------------
Mixes == CommunityMixes \cup ConsoleMixes \cup QuotaMixes \cup ListingMixes \cup NoticesMixes \cup GatesMixes
         \cup MailMixes \cup LedgerMixes \cup AppleMixes

MCInit == ServingInit /\ CommunityInit /\ ConsoleInit /\ QuotasInit /\ ListingInit /\ NoticesInit /\ GatesInit /\ MailInit /\ LedgerInit /\ AppleInit
MCNext ==
  \/ ops \in CommunityMixes /\ CommunityNext /\ UNCHANGED <<consoleVars, quotasVars, listingVars, noticesVars, gatesVars, mailVars, ledgerVars, appleVars>>
  \/ ops \in ConsoleMixes /\ ConsoleNext /\ UNCHANGED <<communityVars, quotasVars, listingVars, noticesVars, gatesVars, mailVars, ledgerVars, appleVars>>
  \/ ops \in QuotaMixes /\ QuotasNext /\ UNCHANGED <<communityVars, consoleVars, listingVars, noticesVars, gatesVars, mailVars, ledgerVars, appleVars>>
  \/ ops \in ListingMixes /\ ListingNext /\ UNCHANGED <<communityVars, consoleVars, quotasVars, noticesVars, gatesVars, mailVars, ledgerVars, appleVars>>
  \/ ops \in NoticesMixes /\ NoticesNext /\ UNCHANGED <<communityVars, consoleVars, quotasVars, listingVars, gatesVars, mailVars, ledgerVars, appleVars>>
  \/ ops \in GatesMixes /\ GatesNext /\ UNCHANGED <<communityVars, consoleVars, quotasVars, listingVars, noticesVars, mailVars, ledgerVars, appleVars>>
  \/ ops \in MailMixes /\ MailNext /\ UNCHANGED <<communityVars, consoleVars, quotasVars, listingVars, noticesVars, gatesVars, ledgerVars, appleVars>>
  \/ ops \in LedgerMixes /\ LedgerNext /\ UNCHANGED <<communityVars, consoleVars, quotasVars, listingVars, noticesVars, gatesVars, mailVars, appleVars>>
  \/ ops \in AppleMixes /\ AppleNext /\ UNCHANGED <<communityVars, consoleVars, quotasVars, listingVars, noticesVars, gatesVars, mailVars, ledgerVars>>
deskVars == <<servingVars, communityVars, consoleVars, quotasVars, listingVars, noticesVars, gatesVars, mailVars,
              ledgerVars, appleVars>>
MCSpec == MCInit /\ [][MCNext]_deskVars

Symmetry == Permutations(Workers)

\* Every table is well formed.
DeskTypeOK == CommunityTypeOK /\ ConsoleTypeOK /\ QuotasTypeOK /\ ListingTypeOK /\ NoticesTypeOK
              /\ GatesTypeOK /\ MailTypeOK /\ LedgerTypeOK /\ AppleTypeOK
=============================================================================
