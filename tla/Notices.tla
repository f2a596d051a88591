-------------------------------- MODULE Notices --------------------------------
(***************************************************************************)
(* The payment providers' side of the server: how a checkout is opened and *)
(* a webhook authenticated and decoded (payment/strategy), which methods   *)
(* are enabled (payment/methods), and which credentials are used when: the *)
(* ones loaded at boot for Stripe, Lemon Squeezy and VietQR, the ones of   *)
(* the call for PayPal, with an access token kept until it expires.        *)
(*                                                                         *)
(* What a decoded notice does to payments and subscriptions is Billing.    *)
(***************************************************************************)
EXTENDS Serving

CONSTANTS
  Keys, Unset,       \* credentials: API keys, webhook secrets and webhook ids
  FirstSettings,     \* what the settings hold at first: [provider -> [api, hook, ...]]
  EnvKeys,           \* the same of the environment
  EnvMethods,        \* methods the environment enables, {} for none
  Csvs,              \* values of payment_methods_enabled
  AppleConfigs,      \* APPLE_BUNDLE_ID and APPLE_ENVIRONMENT: [bundle, env]
  MaxNotices         \* bound

Keyed   == {"stripe", "lemonsqueezy", "vietqr", "paypal"}

ASSUME NoticesAssumption ==
  /\ Unset \notin Keys /\ MaxNotices \in Nat
  /\ DOMAIN FirstSettings = Keyed /\ "api" \in DOMAIN EnvKeys["paypal"]
  /\ \A p \in Keyed : "hook" \in DOMAIN EnvKeys[p] /\ FirstSettings[p] \in [DOMAIN EnvKeys[p] -> Keys \cup {Unset}]

MethodProvider ==
  [m \in {"stripe", "apple_pay", "google_pay", "vietqr", "bank_transfer", "lemonsqueezy", "paypal"} |->
     CASE m \in {"apple_pay", "google_pay"} -> "stripe" [] m = "bank_transfer" -> "vietqr" [] OTHER -> m]

\* The fields a notice of a kind comes with.
SentFields ==
  [stripe |-> [session |-> {"ref", "sub"}, intent |-> {"ref"}, invoice |-> {"sub", "end"},
               unpaid |-> {"ref", "sub"}, deleted |-> {"sub"}, dispute |-> {"charge"}, updated |-> {"sub"}],
   paypal |-> [activated |-> {"ref", "sub", "end"}, sale |-> {"sub"}, failed |-> {"sub"}, ended |-> {"sub"},
               updated |-> {"sub"}],
   lemonsqueezy |-> [paid |-> {"ref", "sub", "end"}, failed |-> {"sub"}, ended |-> {"sub"}, updated |-> {"sub"}],
   vietqr |-> [casso |-> {"ref", "amount"}, sepay |-> {"ref", "amount"}, mb |-> {"ref", "amount", "id"}],
   apple  |-> [subscribed |-> {"transaction"}, renewed |-> {"transaction"}, ended |-> {"transaction"},
               retrying |-> {"transaction"}]]

Notices ==
  UNION {[from : {p}, kind : DOMAIN SentFields[p], key : Keys, missing : {"nothing", "ref", "sub", "end", "amount"},
          env : IF p = "apple" THEN {"Production", "Sandbox"} ELSE {"Production"}] : p \in DOMAIN SentFields}
Has(n) == SentFields[n.from][n.kind] \ {n.missing}

VARIABLES
  keyring,       \* app_settings: api key and webhook secrets of each provider
  csv,           \* app_settings.payment_methods_enabled
  theirs,        \* what the provider uses itself
  built,         \* what the strategies were built with at boot
  apple, running,     \* the App Store configuration of this boot; it came up
  token,         \* PayPal's access token: the API key it was issued for
  bought,        \* methods with a checkout opened
  sent,          \* notices the provider will deliver again
  notices,       \* number of notices there were
  acted, lost,   \* observers: notices handed to Billing; acknowledged ones that were not, and why
  saved          \* observer: the keys and App Store environments the server was ever given

configVars  == <<keyring, csv, theirs, built, apple, running, saved>>
noticeVars  == <<sent, notices, acted, lost>>
noticesVars == <<configVars, noticeVars, token, bought>>

-----------------------------------------------------------------------------
(***************************************************************************)
(* Configuration.                                                          *)
(***************************************************************************)
ResolveCredential(stored, fallback) == IF stored # Unset THEN stored ELSE fallback

Credentials(p) == [f \in DOMAIN keyring[p] |-> ResolveCredential(keyring[p][f], EnvKeys[p][f])]

\* What authenticates a webhook; VietQR has two keys, one for each of its sources.
Hooks(c) == {c[f] : f \in DOMAIN c \ {"api"}} \ {Unset}

\* Settings, else the environment, else Stripe; VietQR brings bank transfer along.
EnabledMethods ==
  LET raw == IF csv # {} THEN csv ELSE IF EnvMethods # {} THEN EnvMethods ELSE {"stripe"}
  IN  raw \cup (IF "vietqr" \in raw THEN {"bank_transfer"} ELSE {})

NoApple == [bundle |-> FALSE, env |-> ""]

\* Both or neither; anything else stops the boot.
ValidConfig(c) == IF c.bundle THEN c.env \in {"Production", "Sandbox"} ELSE c.env = ""

SaveSetting(p, f, k) ==
  /\ Served("operate")
  /\ keyring' = [keyring EXCEPT ![p][f] = k]
  /\ saved' = saved \cup {k}
  /\ UNCHANGED <<csv, theirs, built, apple, running, noticeVars, token, bought>>

SaveMethods(ms) ==
  /\ Served("operate")
  /\ csv' = ms
  /\ UNCHANGED <<keyring, theirs, built, apple, running, saved, noticeVars, token, bought>>

RotateAtProvider(p, f, k) ==
  /\ theirs[p][f] # k
  /\ theirs' = [theirs EXCEPT ![p][f] = k]
  /\ UNCHANGED <<servingVars, keyring, csv, built, apple, running, saved, noticeVars, token, bought>>

Boot(c) ==
  /\ built' = [p \in Keyed |-> Credentials(p)]
  /\ apple' = c /\ running' = ValidConfig(c)
  /\ saved' = saved \cup {c.env}
  /\ token' = Unset

Restart(c) ==
  /\ "operate" \in ops /\ requests < MaxRequests
  /\ requests' = requests + 1
  /\ work' = [w \in Workers |-> Idle]
  /\ Boot(c)
  /\ UNCHANGED <<ops, aborts, keyring, csv, theirs, noticeVars, bought>>

\* It is whole and says something of a purchase.
Meant(n) == n.missing = "nothing" /\ n.kind \notin {"updated", "retrying"}

\* Acknowledged: handed to Billing or not.
Acknowledge(n, does, why) ==
  /\ sent' = sent \ {n}
  /\ acted' = IF does THEN acted \cup {n} ELSE acted
  /\ lost' = IF Meant(n) /\ ~does THEN lost \cup {[n |-> n, why |-> why]} ELSE lost
  /\ UNCHANGED notices

\* Refused: the provider delivers it again.
Refuse == UNCHANGED noticeVars

-----------------------------------------------------------------------------
(***************************************************************************)
(* PayPal calls.  The token is looked up, fetched and stored apart; it is  *)
(* used until it expires, whatever the credentials are by then.            *)
(***************************************************************************)

\* A lookup that gets no token looks nothing up; any other call fails.
TokenFails(w) ==
  /\ IF work[w].next = "lookup" THEN Acknowledge(work[w].n, FALSE, "lookup") ELSE Refuse
  /\ Finish(w)

CachedToken(w) ==
  /\ At(w, "token")
  /\ IF token # Unset THEN Goto(w, [work[w] EXCEPT !.pc = work[w].next, !.bearer = token]) /\ Refuse
     ELSE IF work[w].creds.api = Unset THEN TokenFails(w)
     ELSE Goto(w, [work[w] EXCEPT !.pc = "fetch"]) /\ Refuse
  /\ UNCHANGED <<configVars, token, bought>>

FetchToken(w) ==
  /\ At(w, "fetch")
  /\ LET k == work[w].creds.api
     IN  \/ /\ k = theirs["paypal"].api
            /\ token' = k /\ Goto(w, [work[w] EXCEPT !.pc = work[w].next, !.bearer = k])
            /\ Refuse
         \/ TokenFails(w) /\ UNCHANGED token
  /\ UNCHANGED <<configVars, bought>>

TokenExpires ==
  /\ token # Unset
  /\ token' = Unset
  /\ UNCHANGED <<servingVars, configVars, noticeVars, bought>>

Authorized(w) == work[w].bearer = theirs["paypal"].api
Call(next, n) == [pc |-> "token", next |-> next, n |-> n, creds |-> Credentials("paypal"), bearer |-> Unset]

-----------------------------------------------------------------------------
(***************************************************************************)
(* Checkouts.  CheckoutCreate and CheckoutRefused of Billing have the rows.*)
(***************************************************************************)
StripeOpens == built["stripe"].api # Unset /\ built["stripe"].api = theirs["stripe"].api
WalletOpens == StripeOpens
LemonSqueezyOpens ==
  built["lemonsqueezy"].api # Unset /\ built["lemonsqueezy"].api = theirs["lemonsqueezy"].api

\* A transfer needs no provider.
Opens(m) ==
  CASE MethodProvider[m] = "vietqr" -> TRUE
    [] m = "lemonsqueezy" -> LemonSqueezyOpens
    [] m \in {"apple_pay", "google_pay"} -> WalletOpens
    [] OTHER -> StripeOpens

CreateCheckout(m) ==
  /\ running /\ m # "paypal" /\ m \in EnabledMethods
  /\ Served(MethodProvider[m])
  /\ Opens(m)
  /\ bought' = bought \cup {m}
  /\ UNCHANGED <<configVars, noticeVars, token>>

PayPalCheckout(w) ==
  /\ running /\ "paypal" \in EnabledMethods
  /\ Begin(w, "paypal", Call("order", NoRow))
  /\ UNCHANGED noticesVars

PayPalOrder(w) ==
  /\ At(w, "order")
  /\ bought' = IF Authorized(w) THEN bought \cup {"paypal"} ELSE bought
  /\ Finish(w)
  /\ UNCHANGED <<configVars, noticeVars, token>>

-----------------------------------------------------------------------------
(***************************************************************************)
(* Webhooks.                                                               *)
(***************************************************************************)

\* The provider has something to say of what was bought; the App Store sells by itself.
Announce(n) ==
  /\ n.from \in ops /\ notices < MaxNotices
  /\ IF n.from = "apple" THEN n.key = CHOOSE k \in Keys : TRUE
     ELSE n.key \in Hooks(theirs[n.from])
  /\ n.from # "apple" => \E m \in bought : MethodProvider[m] = n.from
  /\ n.missing \in SentFields[n.from][n.kind] \cup {"nothing"}
  /\ sent' = sent \cup {n} /\ notices' = notices + 1
  /\ UNCHANGED <<servingVars, configVars, acted, lost, token, bought>>

\* What each kind is of no use without.
StripeNeeds ==
  [session |-> {}, intent |-> {"ref"}, invoice |-> {"sub", "end"}, unpaid |-> {}, deleted |-> {}, dispute |-> {}]
PayPalNeeds ==
  [activated |-> {"ref", "sub"}, sale |-> {"sub"}, failed |-> {"sub"}, ended |-> {"sub"}]
LemonSqueezyNeeds == [paid |-> {"ref", "sub"}, failed |-> {"sub"}, ended |-> {"sub"}]
VietQRNeeds == [casso |-> {"ref", "amount"}, sepay |-> {"ref", "amount"}, mb |-> {"ref", "amount", "id"}]
AppleNeeds == [k \in {"subscribed", "renewed", "ended"} |-> {"transaction"}]

Needs ==
  [stripe |-> StripeNeeds, paypal |-> PayPalNeeds, lemonsqueezy |-> LemonSqueezyNeeds,
   vietqr |-> VietQRNeeds, apple |-> AppleNeeds]

\* Faulty variant: no payment without its subscription.
ActsOnSubscriptions(n) ==
  n.kind \in DOMAIN Needs[n.from] /\ (Needs[n.from][n.kind] \cup ({"sub"} \ Has(n))) \subseteq Has(n)

ActsOn(n) == n.kind \in DOMAIN Needs[n.from] /\ Needs[n.from][n.kind] \subseteq Has(n)

\* Stripe and Lemon Squeezy acknowledge everything while their secret is unset.
SignedWebhook(n) ==
  LET c == built[n.from]
      unset == c.hook = Unset \/ (n.from = "stripe" /\ c.api = Unset)
  IN  IF unset THEN Acknowledge(n, FALSE, "unset")
      ELSE IF n.key \notin Hooks(c) THEN Refuse
      ELSE Acknowledge(n, ActsOn(n), "kind")

\* VietQR refuses while no key is set; of a statement the first line that names
\* a payment is acted on and the others are lost.
VietQRWebhook(n) ==
  IF n.key \notin Hooks(built["vietqr"]) THEN Refuse ELSE Acknowledge(n, ActsOn(n), "kind")

\* The transaction in an App Store notice is one of the environment wanted, if any.
Claims(n) == apple.env = "" \/ n.env = apple.env

AppleWebhook(n) ==
  IF "transaction" \notin Has(n) \/ ~Claims(n) THEN Refuse ELSE Acknowledge(n, ActsOn(n), "kind")

HandleWebhook(n) ==
  /\ running /\ n \in sent /\ n.from \in {"stripe", "lemonsqueezy", "vietqr"}
  /\ Served(n.from)
  /\ IF n.from \notin EnabledMethods THEN Refuse
     ELSE IF n.from = "vietqr" THEN VietQRWebhook(n) ELSE SignedWebhook(n)
  /\ UNCHANGED <<configVars, token, bought>>

\* The App Store's are not gated by the enabled methods.
HandleProviderNotification(n) ==
  /\ running /\ apple.bundle /\ n \in sent /\ n.from = "apple"
  /\ Served("apple")
  /\ AppleWebhook(n)
  /\ UNCHANGED <<configVars, token, bought>>

PayPalWebhook(w, n) ==
  /\ running /\ n \in sent /\ n.from = "paypal"
  /\ IF n.from \notin EnabledMethods THEN Served("paypal") /\ Refuse
     ELSE IF Credentials("paypal").hook = Unset THEN Served("paypal") /\ Acknowledge(n, FALSE, "unset")
     ELSE Begin(w, "paypal", Call("verify", n)) /\ Refuse
  /\ UNCHANGED <<configVars, token, bought>>

\* PayPal itself checks the signature, for the webhook id it is given.
VerifyPayPal(w) ==
  /\ At(w, "verify")
  /\ LET n == work[w].n
     IN  IF ~Authorized(w) \/ n.key # work[w].creds.hook THEN Refuse /\ Finish(w)
         ELSE IF n.kind = "sale" /\ ActsOn(n)
         THEN Refuse /\ Goto(w, [work[w] EXCEPT !.pc = "token", !.next = "lookup"])
         ELSE Acknowledge(n, ActsOn(n), "kind") /\ Finish(w)
  /\ UNCHANGED <<configVars, token, bought>>

\* A sale does not say how long it pays for; an end that cannot be looked up
\* extends nothing.
FetchNextBilling(w) ==
  /\ At(w, "lookup")
  /\ \E found \in {FALSE, Authorized(w)} : Acknowledge(work[w].n, found, "lookup")
  /\ Finish(w)
  /\ UNCHANGED <<configVars, token, bought>>

-----------------------------------------------------------------------------
NoticesAbort(w) == Abort(w) /\ UNCHANGED noticesVars

NoticesInit ==
  /\ keyring = FirstSettings /\ theirs = FirstSettings /\ csv = {}
  /\ built = [p \in Keyed |-> Credentials(p)]
  /\ apple = NoApple /\ running = TRUE
  /\ token = Unset
  /\ bought = {} /\ sent = {} /\ notices = 0 /\ acted = {} /\ lost = {}
  /\ saved = {apple.env} \cup
       (UNION {{c[f] : f \in DOMAIN c} : c \in {keyring[p] : p \in Keyed} \cup {EnvKeys[p] : p \in Keyed}})

NoticesNext ==
  \/ \E p \in Keyed \cap ops : \E f \in DOMAIN keyring[p], k \in Keys :
       \/ RotateAtProvider(p, f, k)
       \/ \E value \in {k, Unset} : SaveSetting(p, f, value)
  \/ \E ms \in Csvs : SaveMethods(ms)
  \/ \E c \in IF "apple" \in ops THEN AppleConfigs ELSE {apple} : Restart(c)
  \/ TokenExpires
  \/ \E m \in DOMAIN MethodProvider : CreateCheckout(m)
  \/ \E n \in Notices : Announce(n)
  \/ \E n \in sent : HandleWebhook(n) \/ HandleProviderNotification(n)
  \/ \E w \in Workers :
       \/ CachedToken(w) \/ FetchToken(w) \/ PayPalCheckout(w) \/ PayPalOrder(w)
       \/ \E n \in sent : PayPalWebhook(w, n)
       \/ VerifyPayPal(w) \/ FetchNextBilling(w) \/ NoticesAbort(w)
=============================================================================
