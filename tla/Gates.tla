---------------------------------- MODULE Gates ----------------------------------
(***************************************************************************)
(* Who gets past the router (shared/router.go): the JWTs and extension     *)
(* tokens the server issues, how long they last, what each route asks of   *)
(* them, and what happens to the accounts behind them meanwhile.  A JWT is *)
(* good until it expires: no table is read when one is presented, so an    *)
(* account that is deactivated or deleted keeps the access it was given    *)
(* last.  Only Login and Refresh read the account.                         *)
(*                                                                         *)
(* Time is counted in ticks of at least the length of one request.         *)
(***************************************************************************)
EXTENDS Serving

CONSTANTS
  Users, Managers,   \* ids of users and of admin_users
  FirstStandings,    \* the two tables at the start, [active, role] or NoRow
  StandingBodies,    \* what PATCH /admin/users/{id} and PATCH /admin/admin-users/{id} may write
  Lifetimes,         \* access lifetimes token_expiry_minutes may be set to
  FirstLifetime,
  RefreshTTL, ManagerTTL,
  Visited,           \* the routes an instance asks for
  MaxTime

AccountRow == [active : BOOLEAN, role : STRING]

ASSUME GatesAssumption ==
  /\ Lifetimes \subseteq Nat \ {0} /\ FirstLifetime \in Lifetimes
  /\ {RefreshTTL, ManagerTTL} \subseteq Nat \ {0}
  /\ MaxTime \in Nat /\ Users \cap Managers = {}
  /\ FirstStandings \in [Users \cup Managers -> AccountRow \cup {NoRow}] /\ NoRow \notin AccountRow
  /\ \A b \in StandingBodies : /\ "active" \in DOMAIN b => b.active \in BOOLEAN
                               /\ "role" \in DOMAIN b => b.role \in STRING

VARIABLES
  clock,
  standing,    \* users and admin_users: [active, role]
  lifetime,    \* app_settings.token_expiry_minutes
  jwts,        \* the JWTs people hold: [use, sub, admin, role, exp]
  extensions,  \* users with an extension token that is not revoked
  until,       \* observer: when an account was last active, and last an active admin
  admitted     \* observer: the last request let in this tick: [gate, by, sub]

gatesVars == <<clock, standing, lifetime, jwts, extensions, until, admitted>>
accountVars == <<standing, extensions, until>>

Holders == Users \cup Managers

-----------------------------------------------------------------------------
(* The routes, by the middleware they are mounted behind.                  *)

PublicRoutes ==
  {"health", "metrics", "auth", "plans", "tones", "payment/methods", "payment/status", "payment/webhook",
   "ime-packs", "updates/latest", "errors", "rewrite/trial", "webhooks/resend", "bug-reports", "feedback",
   "feedback/vote", "admin/auth/login"}
RewriteRoutes == {"v1/rewrite", "rewrite"}
MemberRoutes ==
  {"auth/me", "me/context", "auth/change-password", "auth/account", "subscription", "subscription/verify-receipt",
   "auth/extension-tokens", "payment/history", "payment/checkout", "payment/portal", "payment/subscription",
   "payment/apple/redeem"}
ConsoleRoutes ==
  {"admin/auth/change-password", "admin/auth/me", "admin/ai-providers", "admin/settings", "admin/plans",
   "admin/users", "admin/admin-users", "admin/admin-user-audit", "admin/email-logs", "admin/email-templates",
   "admin/stats", "admin/analytics", "admin/transactions"}
TriageRoutes ==
  {"admin/training-data", "admin/payments", "admin/errors", "admin/bug-reports", "admin/inbox",
   "admin/releases", "admin/release-policies", "admin/subscriptions/grant"}

Mounted == PublicRoutes \cup RewriteRoutes \cup MemberRoutes \cup ConsoleRoutes \cup TriageRoutes

-----------------------------------------------------------------------------
(* Tokens (platform/auth, settings, exttoken).                             *)

Jwt(use, sub, admin, role, ttl) == [use |-> use, sub |-> sub, admin |-> admin, role |-> role, exp |-> clock + ttl]

\* Access and refresh tokens are signed with different secrets.
Accepted(t, use) == t.use = use /\ clock < t.exp
Presents(t) == t \in jwts /\ Accepted(t, "access")

\* RequireAdmin: by the claims, as they were when the token was signed.
MayAdminister(t) == t.admin \/ t.role = "admin"

\* PATCH /admin/settings; a row without a positive value stands for the default.
SetLifetime(d) ==
  /\ Served("lifetime") /\ lifetime' = d
  /\ UNCHANGED <<clock, accountVars, jwts, admitted>>

-----------------------------------------------------------------------------
(* Signing in.                                                             *)

MayLogin(p) == standing[p] # NoRow /\ standing[p].active

\* generateTokens reads the lifetimes after the account.
Sign(p) == [pc |-> "sign", sub |-> p, role |-> standing[p].role]

Login(w, u) ==
  /\ MayLogin(u) /\ Begin(w, "login", Sign(u))
  /\ UNCHANGED gatesVars

MayRefreshUnread(t) == Accepted(t, "refresh") /\ t.sub \in Users /\ standing[t.sub] # NoRow
\* The claims only name the account: its row is read again.
MayRefresh(t) == Accepted(t, "refresh") /\ t.sub \in Users /\ MayLogin(t.sub)

Refresh(w, t) ==
  /\ t \in jwts /\ MayRefresh(t) /\ Begin(w, "refresh", Sign(t.sub))
  /\ UNCHANGED gatesVars

GenerateTokens(w) ==
  /\ At(w, "sign")
  /\ LET t == work[w]
     IN  jwts' = jwts \cup {Jwt("access", t.sub, FALSE, t.role, lifetime),
                            Jwt("refresh", t.sub, FALSE, t.role, RefreshTTL)}
  /\ Finish(w)
  /\ UNCHANGED <<clock, lifetime, accountVars, admitted>>

\* An admin's lifetimes are fixed; nothing renews an admin's token.
ManagerLogin(m) ==
  /\ MayLogin(m) /\ Served("manager")
  /\ jwts' = jwts \cup {Jwt("access", m, TRUE, standing[m].role, ManagerTTL),
                        Jwt("refresh", m, TRUE, standing[m].role, RefreshTTL)}
  /\ UNCHANGED <<clock, lifetime, accountVars, admitted>>

-----------------------------------------------------------------------------
(* Asking for a route.                                                     *)

Let(gate, by, sub) == admitted' = [gate |-> gate, by |-> by, sub |-> sub]
Routed(r) == r \in Visited \cap Mounted /\ Served("ask") /\ UNCHANGED <<clock, lifetime, accountVars, jwts>>

\* POST /bug-reports, /feedback, /errors: a token that is no good makes the sender anonymous.
AskOptional(r, t) ==
  /\ r \in {"bug-reports", "feedback", "errors"} /\ Routed(r) /\ t \in jwts
  /\ IF Accepted(t, "access") THEN Let("public", "jwt", t.sub) ELSE Let("public", "nothing", NoRow)

\* POST /feedback/{id}/vote is mounted without a gate and asks for a user itself.
AskVote(t) == Routed("feedback/vote") /\ Presents(t) /\ Let("member", "jwt", t.sub)

AskMember(r, t) == r \in MemberRoutes /\ Routed(r) /\ Presents(t) /\ Let("member", "jwt", t.sub)

AskConsole(r, t) ==
  /\ r \in ConsoleRoutes \cup TriageRoutes /\ Routed(r)
  /\ Presents(t) /\ MayAdminister(t)
  /\ Let("console", "jwt", t.sub)

\* ExtOrJWT: an extension token is looked up, anything else is a JWT.
FindActiveByHash(u) == u \in extensions
AskRewriteExt(r, u) == r \in RewriteRoutes /\ Routed(r) /\ FindActiveByHash(u) /\ Let("member", "extension", u)
AskRewrite(r, t) == r \in RewriteRoutes /\ Routed(r) /\ Presents(t) /\ Let("member", "jwt", t.sub)

\* POST and DELETE /auth/extension-tokens: of a user who is there, by a JWT.
Mint(t) ==
  /\ Served("extension") /\ Presents(t) /\ t.sub \in Users /\ standing[t.sub] # NoRow
  /\ extensions' = extensions \cup {t.sub}
  /\ UNCHANGED <<clock, standing, until, lifetime, jwts, admitted>>

Revoke(t) ==
  /\ Served("extension") /\ Presents(t) /\ t.sub \in extensions
  /\ extensions' = extensions \ {t.sub}
  /\ UNCHANGED <<clock, standing, until, lifetime, jwts, admitted>>

-----------------------------------------------------------------------------
(* What happens to the accounts.                                           *)

Member(s) == s # NoRow /\ s.active
Administers(p, s) == Member(s) /\ (p \in Managers \/ s.role = "admin")

Becomes(p, s) ==
  /\ standing' = [standing EXCEPT ![p] = s]
  /\ until' = [until EXCEPT ![p] = [member  |-> IF Member(standing[p]) THEN clock ELSE @.member,
                                    console |-> IF Administers(p, standing[p]) THEN clock ELSE @.console]]

\* The only role PATCH /admin/users/{id} accepts is user.
Whitelisted(b) == "role" \in DOMAIN b => b.role = "user"
UpdateUser(u, b) ==
  /\ Served("account") /\ Whitelisted(b) /\ standing[u] # NoRow
  /\ Becomes(u, [f \in DOMAIN standing[u] |-> IF f \in DOMAIN b THEN b[f] ELSE standing[u][f]])
  /\ UNCHANGED <<clock, lifetime, jwts, extensions, admitted>>

UpdateManager(m, b) ==
  /\ Served("staff") /\ "active" \in DOMAIN b /\ standing[m] # NoRow
  /\ Becomes(m, [standing[m] EXCEPT !.active = b.active])
  /\ UNCHANGED <<clock, lifetime, jwts, extensions, admitted>>

\* DELETE /auth/account takes the extension tokens along, not the JWTs.
DeleteAccount(t) ==
  /\ Served("account") /\ Presents(t) /\ t.sub \in Users /\ standing[t.sub] # NoRow
  /\ Becomes(t.sub, NoRow)
  /\ extensions' = extensions \ {t.sub}
  /\ UNCHANGED <<clock, lifetime, jwts, admitted>>

Tick ==
  /\ clock < MaxTime /\ Busy = {}
  /\ clock' = clock + 1 /\ admitted' = NoRow
  /\ UNCHANGED <<servingVars, accountVars, lifetime, jwts>>

GatesAbort(w) == Abort(w) /\ UNCHANGED gatesVars

-----------------------------------------------------------------------------
GatesInit ==
  /\ clock = 0 /\ jwts = {} /\ extensions = {} /\ admitted = NoRow
  /\ standing = FirstStandings
  /\ lifetime = FirstLifetime
  /\ until = [p \in Holders |-> [member |-> -1, console |-> -1]]

GatesNext ==
  \/ \E w \in Workers :
       \/ \E u \in Users : Login(w, u)
       \/ \E t \in jwts : Refresh(w, t)
       \/ GenerateTokens(w) \/ GatesAbort(w)
  \/ \E m \in Managers : ManagerLogin(m)
  \/ \E t \in jwts, r \in Visited : \/ AskOptional(r, t) \/ AskMember(r, t) \/ AskConsole(r, t) \/ AskRewrite(r, t)
  \/ \E u \in Users, r \in Visited : AskRewriteExt(r, u)
  \/ \E t \in jwts : AskVote(t) \/ Mint(t) \/ Revoke(t) \/ DeleteAccount(t)
  \/ \E b \in StandingBodies : \/ \E u \in Users : UpdateUser(u, b)
                               \/ \E m \in Managers : UpdateManager(m, b)
  \/ \E d \in Lifetimes : SetLifetime(d)
  \/ Tick
=============================================================================
