# DraftRight in TLA+

DraftRight rewrites text with an AI model. Clients on six platforms send the
text to one backend, which checks the caller's quota, streams the answer of an
AI provider and keeps accounts, subscriptions and payments. The backend in use
is the Go one, `src/backend-rewrite-go`; the paths below are relative to
`src/backend-rewrite-go/internal` unless they start with `src/`. The modules
here model that backend, model-check it with TLC on small instances and prove
parts of it with TLAPS.

## 1. Inventory

| Component | State it keeps | What is hard | What makes it correct | Modules |
|---|---|---|---|---|
| **Payments** `payment/` | `payments` rows | several statements per request and no transaction; providers redeliver and reorder; admin and webhook race | a payment is granted once, and only if it was charged or confirmed; a provider's id stays with its buyer | `Billing` |
| **Subscriptions** `subscription/` | `subscriptions` rows | cancel-then-insert in two statements; updates that match what another handler has yet to write | one active row per user; no ended row comes back; lapsed rows expire | `Billing`, `Mail`, `Ledger` |
| **Payment strategies** `payment/strategy/` | credentials, PayPal's bearer token | at-least-once, unordered delivery; credentials read at boot, at the call, or cached | each event becomes the right action; a notice counts only under the server's own secret | `Billing`, `Notices` |
| **Scheduler** `platform/scheduler` | none | the daily job races webhooks, and a run may be missed | every lapsed row is expired, every reminder goes out once | `Billing`, `Mail` |
| **Streaming rewrite** `rewrite/usecase`, `rewrite/transport` | goroutines, channels, usage rows | the client leaves mid-stream; closing channels race; error after tokens | no goroutine is stranded; usage is logged exactly for a clean finish | `RewriteStream`, `Quotas` |
| **Provider chain** `rewrite/adapter` | provider order | a provider fails before or after its first token | two answers are never spliced | `RewriteStream` |
| **Parity rewrite** `rewrite/parity`, `usage/` | usage and sample rows | the count is read before the AI call | the quota is exceeded by what was in flight at most | `Quotas` |
| **Rate and trial limits** `adapter/redislimit`, `adapter/redistrial` | Redis counters | INCR and EXPIRE are two commands; fail open | at most the limit, plus what failed open | `Quotas` |
| **Auth and accounts** `auth/`, `user/`, `platform/auth` | users, codes, social ids | user and free row in two statements; attempts counted read-then-write; tokens are not stored | an account has a plan; a code is tried a bounded number of times; access lapses | `Accounts`, `Gates`, `AppleKeys` |
| **Extension tokens** `exttoken/` | tokens per device | revoke-then-insert | the token handed out works | `Accounts`, `Gates` |
| **Admin auth** `adminauth/` | admins, audit rows | count, then deactivate | an admin remains | `Console`, `Gates` |
| **Feedback, bug reports, inbox** `feedback/`, `bugreports/`, `inbox/` | items, votes, counters, screenshots | count then store; a status written back after an AI call of seconds | the counter equals the votes; what an admin closed stays closed | `Community`, `Listing` |
| **Error reports** `errreport/` | one row per fingerprint | find, then insert or bump | no crash that was accepted is lost from the counts | `Community` |
| **AI providers, settings** `aiprovider/`, `appsettings/` | providers, one settings row | demote-then-promote; a failover order walked through slow calls | one default; everything on offer is tried | `Console`, `Notices` |
| **Plans, updates, user context, rewrite log** | rows | read-merge-write of partial bodies | a partial write touches nothing else | `Quotas`, `Console`, `Accounts` |
| **Mail** `email/` | `email_logs`, suppression list | reports repeated, and before the row they are about; sends nobody waits for | nobody who bounced is written to again | `Mail` |
| **Lists and dashboard** `shared/listquery`, `adminstats/` | none | page and total in two statements; many sums in as many statements | nothing is skipped; months tile | `Listing`, `Ledger` |
| **Router** `shared/` | none | no table is read when a JWT is presented | access lapses | `Gates` |
| **Clients, console, website, tooling** | UI | platform input hooks | - | not modelled |

How they interact: the payment handlers call `subscription.WebhookWriter`
directly (`Grant`, `StampStoreRef`, `ExtendByStoreRef`, `CancelByStoreRef`,
`ExpireByStoreRef`), the scheduler calls `ExpiryCron`, and the rewrite
endpoints read the newest active subscription to decide the quota. Deleting a
user sweeps the rows of every other component. Everything meets in PostgreSQL
tables (and two counters in Redis): there are no queues, no locks over a
handler (two mutexes guard the caches of Apple's keys and PayPal's token), and
no transactions but two (deleting a user, removing an admin). The only
callbacks are the providers' webhooks.

`PROJECT.json` lists the components with what is modelled of each, and under
`hazards` the places where something hard to test can go wrong, with the
properties that watch them.

## 2. Plan

The payment and subscription handlers came first: they move money, and they are
where handlers of different origin (buyer, provider, admin, job) meet in shared
rows. The streamed rewrite was next: four goroutines, a failover and a client
that may leave. Then the accounts, and then the back office, one module for
each group of tables that is written together. Each of these groups is checked
in the mixes of operations that share a table, never all at once.

Done:

1. Payments and subscriptions: `BillingTables`, `Billing`, `BillingProps`,
   `BillingProofs`, `MCBilling`.
2. The streamed rewrite: `RewriteStream`, which composes the adapters, the
   chain, the use case and the HTTP handler; `Answer`, the abstract
   specification it implements; `StreamProps`, `StreamProofs`, `MCStream`.
3. Accounts: `SecretCipher`, `AccountTables`, `Accounts`, `AccountProps`,
   `AccountProofs`, `MCAccounts`.
4. The back office, over `Serving`: `Community`, `Console`, `Quotas`, `Listing`,
   `Notices`, `Gates`, `Mail`, `Ledger`, `AppleKeys`, each with its `...Props`,
   composed by `MCDesk`; `DeskProofs` about `Console`, `Community` and `Notices`,
   `ServiceProofs` about `Quotas`, `Gates`, `Mail` and `AppleKeys`, `ReportProofs`
   about `Ledger` and `Listing`, over `SumTheorems`, and `DeskComposition` about
   the nine together.

Left: an abstract `Entitlement` (free, Pro until, ended) that `Billing` with one
worker implements.

## 3. Modules

| Module | Models |
|---|---|
| `BillingTables` | the rows of `payments` and `subscriptions`, and each SQL statement the handlers run on them, as an operator on the table |
| `Billing` | the handlers of `payment/` and `subscription/`, the job, the clock, handler failures and the providers |
| `RewriteStream` | one streamed rewrite: goroutines, channels, logs and metrics |
| `Answer` | what a streamed rewrite promises its client |
| `SecretCipher` | what a stored secret decrypts to under which key |
| `AccountTables` | users, the rows other tables keep for a user, extension tokens, writing profiles, and their statements |
| `Accounts` | registration, codes, sign-in, deletion, extension tokens, profiles |
| `Serving` | a server that answers each request in a goroutine: what the nine modules below have in common |
| `Community` | the board, bug reports, crash groups, the hourly jobs |
| `Console` | admins, AI providers, the settings row, releases |
| `Quotas` | rate limit, daily quotas, trial, plans, the writing profile as the rewrite reads it, samples |
| `Listing` | page-by-page lists and the inbox |
| `Notices` | credentials, checkout and the authentication of webhooks, per strategy |
| `Gates` | JWTs and extension tokens against the routes |
| `Mail` | sends, delivery reports, suppression, the two passes of the daily job |
| `Ledger` | the dashboard's statements over plans and subscriptions |
| `AppleKeys` | the cache of Apple's signing keys |
| `...Props` | the properties, and the fairness they assume |
| `BillingProofs`, `StreamProofs`, `AccountProofs`, `DeskProofs`, `ServiceProofs`, `ReportProofs`, `DeskComposition` | theorems, with proofs |
| `SumTheorems` | induction over finite sets, and sums over them, for the proofs |
| `MCBilling`, `MCStream`, `MCAccounts`, `MCDesk` | instances for TLC |

### Payments and subscriptions

**Tables.** `subs` is a sequence in `created_at` order; a row's position stands
for its creation time, since the queries only order by it (two rows created in
one microsecond are not modelled). `Newest(M)` is `ORDER BY created_at DESC
LIMIT 1`. Two fields of a row are history variables that no action reads: `src`,
the purchase the grant was made for, and `horizon`, the length of the table
when the grant's first statement ran. Each statement is atomic, as PostgreSQL
runs a single statement under READ COMMITTED; the order of statements inside a
handler is the code's.

**Handlers.** A handler of several statements is a worker (`work[w]`) with a
program counter; each step is one statement or one provider call. A handler of
one statement (`HookRenewed`, `HookCancelled`, `HookExpired`, `HookApple`,
`CronExpireLapsed`) is one action. `Workers` is how many requests run at once.

| Code | Actions |
|---|---|
| `CreateCheckout` | `CheckoutCreate`, then `CheckoutOpened`, or `CheckoutRefused` and `CheckoutMarkFailed` |
| `applyWebhookAction`, completed | `HookCompleted`, `LinkCustomer` (when a customer id came), `completePayment`, `StampByReference` (when a subscription id came) |
| `applyWebhookAction`, failed | `HookFailed`, `ReadPayment`, `MarkFailedByRef` |
| ... Lemon Squeezy and PayPal success | `HookSuccess`, `LinkCustomer`, `CheckPending`, then `Replan` and `completePayment` and stamp, or `ExtendSettled` |
| ... PayPal sale | `HookSale`, `ExtendSettled` |
| ... the rest | `HookRenewed`, `HookCancelled`, `HookExpired`, `HookApple` |
| `completePayment`, `activateSubscription` | `ReadPayment`, `MarkCompleted`, then `Grant` |
| `WebhookWriter.Grant` | `GrantCancelPrior`, `GrantInsert` |
| `AdminConfirm` | `AdminConfirmLoad`, `AdminConfirmMark`, then `Grant` |
| `Refund` | `RefundLoad`, `RefundLookup`, `RefundCharge` (or `RefundNoCharge` in a trial), `RefundCancelAtStripe`, `RefundMark`, `RefundCancelSub` |
| `RedeemAppleTransaction` | `RedeemBegin`, then `Grant`, `StampByUser` |
| `subscription.Writer.Grant` (admin) | `AdminGrant`, then `Grant` |
| `CancelActiveSubscription` | `UserCancelRead`, `UserCancelCall` |
| `ExpiryCron.RunOnce`, second pass | `CronExpireLapsed` |

A payment's `Method` decides its path. `apple_pay` and `google_pay` are
PaymentIntents of Stripe: no subscription id and no customer id comes with
them. VietQR and bank transfers have no subscription either.

**Failures.** `Abort` ends a handler between two statements (a failed
statement, a cancelled request context, a process that dies); what it wrote
stays. `SkipIgnored` is the failure of the two updates whose error the code
discards. The discarded error of a webhook of one statement is the same as the
webhook not arriving, which the model always allows.

**Environment.** The providers are modelled from what the strategies decode and
call. `events` only grows: an announced event may be handled at any time, in
any order and again. A charge is announced with the period it pays for;
`paidThrough` is the end of the last one. A purchase may be refused, declined
and then charged, renewed, ended by the customer. `Traffic` switches event
kinds and operations on, so that a run looks at the interplay it is about.

**Faulty variants.** In every module, a few operators before a definition are a
plausible mistake in that code, under a name that says so. They are not part of the
specification; `mutants` in `PROJECT.json` says which property fails when the
definition is replaced by the variant, so that no property holds vacuously.

### The streamed rewrite

`RewriteStream` is one request. `link[c]` holds the two channels of producer
`c`: the token on offer (the channel is unbuffered, so a producer with an offer
standing is blocked in its send), the error in the buffer of one, and how far
the producer's deferred closes have come. A step of a goroutine is one case of
one of its selects; a token received and the send it leads to are one step,
since nothing happens between them. `gone` is the request's context, done when
the client leaves or the handler has returned. Everything a `select` may choose
is a disjunct: a goroutine that sees a closed token channel, an error and a done
context at once takes any of them.

| Code | Actions |
|---|---|
| `Client.Stream`, `parseSSE`, `parseNDJSON` of an adapter | `Leaf`: `LeafEmit`, `LeafFinish`, `LeafFail`, `LeafCanceled`, `CloseStep` |
| `chain.Provider.Stream`, `tryOne` | `ChainTry`, `ChainToken`, `ChainToksClosed`, `ChainErrsClosed`, `ChainClean`, `ChainError`, `ChainCanceled`, `ChainExhausted` |
| `chain.drain` | `Drain` |
| `usecase.Rewrite` before its goroutine | `UseRefuse`, `UseAdmit` |
| its goroutine | `UseToken`, `UseToksClosed`, `UseErrsClosed`, `UseError`, `UseCanceled`, `UseLog` |
| `streamSSE`, `streamJSON`, `drain` | the `Handler...` actions |

`streamSSE` and `streamJSON` have one shape; `sse` decides whether a token is
written (and the write may fail) or collected. `providers` is the configured
number: `buildProviderChain` returns a single provider as it is and wraps two or
more in a chain. `sent` and `verdict` record what the providers did, and no
action of the chain, the use case or the handler reads them. An adapter whose
body ends without a terminal marker counts as finished, as in the code. The
handler's failover to JSON when the writer cannot flush is the case `sse =
FALSE`.

### Accounts

`AccountTables` holds the rows and the statements on them, `Accounts` the
handlers of `auth/`, `user/`, `exttoken/` and `usercontext/`, with a worker per
request as in `Billing`. A mailed code is a number drawn once: two codes are
equal only when they are the same code, so a lucky guess is not modelled, and a
wrong code is one drawn for something else. `Addresses` may be two spellings of
one mailbox (`Normal`). `Identities` are what a social provider answers:
`vouched` is its verified-address claim. `alone` holds as long as no two
requests have overlapped.

| Code | Actions |
|---|---|
| `Register` | `Register`, `RegisterCreate`, `CreateFree` |
| `VerifyEmail`, `ResendVerification` | `VerifyEmail`, `VerifyWrite`; `ResendVerification`, `ResendWrite` |
| `ForgotPassword`, `ResetPassword` | `ForgotPassword`, `ForgotWrite`; `ResetPassword`, `ResetPatch`, `ResetWrite` |
| `SocialLogin` | `SocialLogin`, `SocialByEmail`, `SocialLink`, `SocialReload`, `SocialCreate`, `CreateFree` |
| `Login`, `Refresh`, `ChangePassword`, `SetPassword` | `Login`, `Refresh`, `ChangePassword` and `ChangeWrite` |
| `PgRepo.DeleteAccount` | `DeleteAccount`, a `Sweep` per statement, `DeleteUser` |
| `exttoken` | `Mint`, `MintInsert`, `RevokeToken`, `Verify` |
| `usercontext` | `PutProfile`, `ProfileUpsert`, `DeleteProfile`, under keys that `Rekey` changes |

Deletion is the one transaction: other requests see nothing of it before
`DeleteUser`, and rows they insert meanwhile make that statement fail.

### The back office

Nine modules extend `Serving`, in which a worker is idle or holds a record of
what a request has read, and an operation is admitted if the behaviour's mix
`ops` has it. A request of one statement is one action; others are `Begin` and
an action per statement, call or commit. `Abort` ends a request anywhere.

| Module | Its subject |
|---|---|
| `Community` | Submissions with the checks of their bodies, the five statements of a vote toggle, screenshots written before the row, console edits that merge a body into a row loaded before, fix proposals with the AI call in between, crash reports found by fingerprint and then inserted or bumped. `dirty`, `settled`, `accepted` and `gone` are observers. |
| `Console` | The last-admin guard in two counts and a transaction, the promotion of a provider (demote, then write), the failover of a completion, masked secrets, the settings row made by whoever finds none, release upserts that merge, the two channels an update is looked for in. |
| `Quotas` | The limiter's increment and comparison, the plan read, the usage count, the stream and its usage row; the same of `POST /rewrite`, which logs no usage; the trial counter; plans and subscriptions that change meanwhile; midnight. |
| `Listing` | A list is a page and a total, with the clamping of `listquery.Parse` and of the lists that parse for themselves (whole users and plans, payments, transactions, mail logs); a client walks the pages. The inbox reads its sources and merges them. |
| `Notices` | What each strategy is built with at boot, what it reads per call, which webhook it refuses, acts on, or acknowledges without effect; the PayPal token and its cache; the methods that are enabled. What an accepted notice does is `Billing`. |
| `Gates` | The middleware of each mounted route, JWTs with what their claims said when signed, lifetimes from the settings, extension tokens, accounts that are deactivated, demoted and deleted. A tick is at least the length of a request. |
| `Mail` | A send is four steps nobody waits for; reports repeat until acknowledged and may come before the row; the reminder window and the expiry pass of the daily job in half-days, missed runs included. |
| `Ledger` | The dashboard's statements one by one while grants, churn, prices and the month go on; months by `time.Date` arithmetic. |
| `AppleKeys` | The mutex held across the fetch, the expiry of the cache, the eviction on a miss, failed fetches, restarts, Apple's rotations. |

## 4. Runs

| Run | Instance | Checks |
|---|---|---|
| `concurrent` | one buyer, Stripe and Apple Pay purchases, 2 workers, confirm, refund, renewals, 1 abort | `TypeOK`, `GrantSupersedes`, `GrantBacked` |
| `accounts` | two buyers, Stripe and a Lemon Squeezy purchase whose variant is switched, 2 workers, checkout, confirm, admin grants, in-app cancel, free rows | `TxnStaysWithOwner`, `BilledPlanGranted` |
| `serial` | two Stripe purchases of different plans, 1 worker, checkout, declines, trials, confirm, refund, renewals, cancellations, a free row | `GrantedOnce`, `RefundEndsAccess`, `PaymentSettlesOnce` |
| `renewals` | Lemon Squeezy and App Store, 1 worker, renewals, ends, redemption, the job, 1 abort, fair | `StampMatchesGrant`, `NothingRevives`, `LapsedIsExpired` |
| `progress` | Stripe and PayPal with its sale event, 2 workers, admin confirm, fair | `ChargedIsGranted`, `CompletedIsGranted` |
| `stream` | one or two providers, SSE and JSON, a client that may leave, failing writes and inserts, fair | `TypeOK`, `ErrorIsReal`, `LogsCleanFinish`, `NoneStranded`, and `AnswerSpec`: the stream implements `Answer`, liveness included |
| `identity` | two accounts, three addresses, five identities, two devices, eight mixes of operations, 2 workers, 1 abort | `TypeOK`, `VerifiedIsProven`, `ResetCodeHolds`, `AccountHasPlan`, `LinkIsVouched`, `OneAccountPerIdentity`, `MintedTokenWorks`, `DeletionAllOrNothing` |
| `desk` | the nine modules of the back office, one mix of operations per behaviour, 2 workers, 1 abort | `DeskTypeOK`, `VoteCountExact`, `ClosedStaysClosed`, `CrashesCounted`, `AdminRemains`, `FailoverExhausts`, `QuotaBounded`, `ListsComplete`, `NoticesHonoured`, `AccessLapses`, `RemindedOnce`, `SuppressionHolds`, `DashboardAdds`, `RotationHeals` |

The properties of `concurrent` and `accounts`, and `NothingRevives`, hold with
any number of requests at once; those of `serial` and `StampMatchesGrant` only
when requests come one at a time, `StampMatchesGrant` only where no older
purchase's completion is delivered again. `ResetCodeHolds` and parts of
`OneAccountPerIdentity` and `DeletionAllOrNothing` are promised only while no
two requests overlapped; `AccountHasPlan` while none was cut short.
`VoteCountExact`, `ClosedStaysClosed` and the single default of `ConsoleTypeOK`
tell in their definitions which overlap they exempt: the code repairs itself
with the next request that runs on its own, and that is what is checked.
`RefundEndsAccess` is about payments the provider reported.

`DeskTypeOK` is the conjunction of the nine modules' type invariants, and these are
more than types. They hold the relations between rows that the statements are
meant to keep: a removed admin is in the audit log, a secret is never stored as its mask, a hash belongs to its
version (`ConsoleTypeOK`), a feature request has a title, a report's screenshot is
on the disk (`CommunityTypeOK`), no address gets more trials than the limit and the
failures of Redis, personalisation stays off (`QuotasTypeOK`), no extension token
outlives its account (`GatesTypeOK`), no message the provider has is on record as
never sent (`MailTypeOK`), the mutex has one holder (`AppleTypeOK`).

Each of the following runs shows where a comment or a test promises more than
the code does; they are described in `PROJECT.json` under `findings`.

| Run | Counterexample |
|---|---|
| `granted_twice` | a webhook delivered twice at once is granted twice |
| `crash` | a handler cut short after marking the payment: retries see it settled, nothing is granted |
| `uncounted` | with two or more providers the usage row carries the chain's own id, which the foreign key refuses: nothing is counted against the quota |
| `social_first` | the first sign-in with a social identity creates the account and is answered 401, for `Create` returns the user without `IsActive` |

**Bounds.** Two workers everywhere an interleaving is the question: the
properties are about pairs of requests, or about one request and many short
ones, and a third adds requests of the same kinds. Workers are interchangeable,
and symmetry is used in the safety runs with two of them. *`Billing`*: two
purchases (a second one is what stamps and lookups can confuse with the first),
`MaxSubs` (a handler starts only while there is room for its row, so none is cut
short by the bound), `MaxTime` (a period is one or two days, so that renewal and
lapse both happen), `MaxAborts`. *`RewriteStream`*: two providers (a single one,
and a chain that can fail over once and be exhausted), two tokens per answer (a
provider can fail before, between and after them, and a splice needs one).
*`Accounts`*: three codes and two ticks with codes that live for one (a code is
replaced, and expires), `maxResetAttempts` of two for the code's five (one
failure that leaves the code, one that burns it), four requests. *Back office*:
four requests (two that overlap, one before and one after), four reports and two
crash groups (two first reports of one fingerprint at once make two), a rate of
two and plans of one stream a day (limits are passed), pages of one and two rows
over up to four, one notice at a time per kind but handled any number of times, access
tokens of one or two ticks in four, terms below, at and above the reminder
window in five days, two months across the turn of a year, two keys of Apple's
cached for one hour of four (a rotation inside and outside the cache's life).
Only one dashboard is built at a time.

The mixes are the sets of operations that read or write a common table. Two
operations without one cannot affect each other in these models, so putting them
into one behaviour would only multiply the states.

Deadlock checking is off in `accounts`, `serial`, `identity` and `desk`: the
bounds on requests and rows end their behaviours, and in `serial` and `accounts`
every checkout may have been refused. It is on in the others; the end of a
stream is a step that changes nothing.

**Fairness.** `progress` and `renewals` assume: a handler that has begun runs on
(a goroutine whose database calls return; weak fairness per worker); every
announced completion is handled again and again as long as it can be (providers
repeat a webhook until it is acknowledged and `net/http` gives every request a
goroutine; strong fairness per kind and purchase, since in the model a worker
is not always free); the daily job runs (weak fairness). Nothing is assumed of
buyers, admins or of the providers' charges. `crash` drops only one thing, the
absence of failures; `LapsedIsExpired` needs the job alone and is checked with
one. `stream` assumes that every goroutine that can run does, that an adapter's
call ends (the HTTP client has a timeout and an answer is finite), and that the
server cancels the context of a request whose handler has returned. Nothing is
assumed of the client. `identity` and `desk` check safety only.

## 5. Proofs

| Module | Theorem | States |
|---|---|---|
| `BillingProofs` | `TypeInvariant` | `Spec => []Typed` |
| | `TypeCorrectness` | `Spec => []TypeOK` |
| | `NothingRevivesTheorem` | `Spec => NothingRevives` |
| | `GrantSupersedesTheorem` | `Spec => []GrantSupersedes` |
| | `TxnStaysWithOwnerTheorem` | `Spec => []TxnStaysWithOwner` |
| | `GrantBackedTheorem` | `Spec => []GrantBacked` |
| | `BilledPlanGrantedTheorem` | `Spec => [](aborts = 0 => BilledPlanGranted)` |
| | `PaymentsSettleOnce` | one at a time: `Spec => PaymentSettlesOnce` |
| | `GrantedOnceTheorem` | one at a time: `Spec => []GrantedOnce` |
| | `StampMatchesGrantTheorem` | one at a time, no Stripe purchase: `Spec => []StampMatchesGrant` |
| | `RefundEndsAccessTheorem` | one at a time: `Spec => [](aborts = 0 => RefundEndsAccess)` |
| `StreamProofs` | `StreamTypes` | `Spec => []TypeOK` |
| | `ErrorsAreReal` | `Spec => []ErrorIsReal` |
| | `LogsAreExact` | `Spec => []LogsCleanFinish` |
| | `AnswerImplemented` | `Spec => Ans!Init /\ [][Ans!Next]_(Ans!vars)` |
| `AccountProofs` | `AccountTypes` | `Spec => []TypeOK` |
| | `MintedTokensWork` | `Spec => []MintedTokenWorks` |
| | `AccountsHavePlans` | `Spec => []AccountHasPlan` |
| | `LinksAreVouched` | `Spec => []LinkIsVouched` |
| | `VerifiedMeansProven` | `Spec => []VerifiedIsProven` |
| | `IdentitiesUnique` | `Spec => []OneAccountPerIdentity` |
| | `ResetCodesHold` | `Spec => []ResetCodeHolds` |
| | `DeletionsAllOrNothing` | `Spec => DeletionAllOrNothing` |
| `DeskProofs` | `AdminAlwaysRemains` | `SomeAdmin /\ ConsoleSpec => []AdminRemains` |
| | `FailoverAlwaysExhausts` | `ConsoleSpec => []FailoverExhausts` |
| | `VoteCountsExact` | `CommunitySpec => []VoteCountExact` |
| | `ClosedAlwaysStays` | `CommunitySpec => []ClosedStaysClosed` |
| | `CommunityTyped` | `CommunitySpec => []CommunityTypeOK` |
| | `CrashesAlwaysCounted` | `CommunitySpec => []CrashesCounted` |
| | `ConsoleTyped` | `SomeAdmin /\ ConsoleSpec => []ConsoleTypeOK` |
| | `NoticesAlwaysHonoured` | `NoticesSpec => []NoticesHonoured` |
| | `NoticesTyped` | `NoticesSpec => []NoticesTypeOK` |
| `ServiceProofs` | `QuotaAlwaysBounded` | `QuotasSpec => []QuotaBounded` |
| | `AccessAlwaysLapses` | `GatesSpec => []AccessLapses` |
| | `SuppressionAlwaysHolds` | `MailSpec => []SuppressionHolds` |
| | `RemindersAreSent` | `MailSpec => []RemindedOnce` |
| | `RotationAlwaysHeals` | `AppleSpec => []RotationHeals` |
| | `QuotasTyped` | `QuotasSpec => []QuotasTypeOK` |
| | `GatesTyped` | `GatesSpec => []GatesTypeOK` |
| | `MailTyped` | `MailSpec => []MailTypeOK` |
| | `AppleTyped` | `AppleSpec => []AppleTypeOK` |
| `ReportProofs` | `LedgerTyped` | `LedgerSpec => []LedgerTypeOK` |
| | `DashboardAlwaysAdds` | `LedgerSpec => []DashboardAdds` |
| | `ListingTyped` | `ListingSpec => []ListingTypeOK` |
| | `ListsAlwaysComplete` | `ListingSpec => []ListsComplete` |
| `DeskComposition` | `DeskTyped` | `SomeAdmin /\ MCSpec => []DeskTypeOK` |
| | `DeskRunsOneModule` | `MCSpec => (ops \in CommunityMixes => CommunitySpec) /\ ...`, for each of the nine |

They hold for any values of the constants, and for any number of requests at
once but where the table says *one at a time*: there a theorem has the hypothesis
`OneAtATime` (`\A v, w \in Workers : v = w`), for the property is false without
it, as the run `granted_twice` shows of `GrantedOnce`. `StampMatchesGrant` needs
besides that no purchase was made by Stripe, whose redelivered notice stamps the
newest active row; `renewals`, which checks it, has Lemon Squeezy and Apple.
`aborts = 0` is the premise the runs have by their bounds: a handler cut short
between two statements leaves what `BilledPlanGranted` and `RefundEndsAccess`
exclude. `SomeAdmin` says that one of the first admins can log in.

**Assumptions** are those the modules declare, and TLC evaluates them in every
run of those modules:

- `BillingTables`, `Billing`: payments and StoreKit transactions are different
  things with an owner, a method and a plan (`PurchaseAssumption`), a period is a
  positive number of days (`PeriodAssumption`), `None` is none of them
  (`NoneAssumption`), what is billed is a plan (`BilledAssumption`), the bounds
  are numbers (`BoundAssumption`).
- `RewriteStream`: there is a provider, and an answer is finite
  (`StreamAssumption`).
- `AccountTables`, `Accounts`: normalising an address twice changes nothing more
  (`AddressAssumption`); ids are numbers, and a missing row or password is none of
  them (`IdAssumption`, `TextAssumption`); finitely many requests are served at
  once (`WorkerAssumption`); identities are well formed (`IdentityAssumption`);
  lifetimes and the limit of attempts are positive (`LimitAssumption`).
- `Console`: the first rows have the columns of their tables, the bodies of
  requests name columns by values of their types, there are two channels
  (`ConsoleAssumption`); of the first rows, e-mails are unique, every admin is
  active, one provider at most is the default, no secret is the mask, and a hash,
  where a row or a body has one, is that of its version (`RowsAssumption`). `Community`: the bounds are positive, nobody is no
  member, a missing row is neither a report nor a crash group, the first reports
  are presentable rows without votes and screenshots, and the bodies of requests
  have values of the columns' types (`CommunityAssumption`). `Notices`: the environment and
  the settings name the same credentials of the same providers, and PayPal has one
  for its API (`NoticesAssumption`).
- `Quotas`: finitely many requests are served at once, plans have whole limits,
  and whoever starts with a row has one for a plan that exists
  (`QuotasAssumption`). `Gates`: lifetimes are positive, users and admins are
  different people, both tables have an entry for each id, and bodies have values
  of the columns' types (`GatesAssumption`). `Mail`: finitely many subscribers, with
  terms of at least half a day, and a report is not one of the statuses only a send
  writes (`MailAssumption`). `AppleKeys`: its bounds are numbers
  (`AppleKeysAssumption`). In each, a missing row is not a row, and nobody is no
  worker.
- `Ledger`: a report covers a month at least, the first plans and subscriptions
  are rows, no subscription starts after the first month, prices are integers
  (`LedgerAssumption`). `Listing`: the table is finite, what is asked for is a
  request, limits are integers or absent, and a list's default is within its cap
  (`ListingAssumption`; 10, 20 or 50 rows against 100 and 200 in the code).

**Payments.** Three lemmas say what any step does, and each theorem uses only
them. `TableStep`: a step leaves the subscription rows alone, applies one of the
statements of `BillingTables`, or appends one row. `TaskStep`: a worker stays, or
goes on from one point of its handler to the next. `LedgerStep`: charges and
confirmations are never taken back, and a payment's status moves only along the
edges the handlers write.

- *Types.* `TypeOK` is not inductive: a grant can only insert a well-typed row if
  the request carries a purchase and a plan at that point. `Typed` adds `TaskInv`,
  which says for every operation and program point what the request holds, and
  `EventsOK`, which says which events exist for which method.
- *`NothingRevives`.* Every statement of `TableStep` moves statuses up or leaves
  them; this is an action property, proved from `Typed`.
- *`GrantSupersedes`.* A row's `horizon` is the table's length when its grant
  began. `SupersedeInv` adds the grants under way: between the statement that
  cancels and the one that inserts, every row up to the worker's horizon is
  inactive, and by the argument of `NothingRevives` it stays so whatever others
  do meanwhile.
- *`TxnStaysWithOwner`.* Each stamp writes the id of a purchase to rows of its
  owner with the store of its method; grants insert rows without an id. What the
  stamping requests carry comes from `TaskInv`.
- *`GrantBacked`.* `BackedInv` adds the requests under way: whoever is about to
  mark a payment completed handles one that was charged, and from the mark on the
  payment is no longer pending; `LedgerStep` keeps both true for good.

**Payments, one request at a time.** `EveryMove` says of every step that a worker
begins a handler (`Begins`), goes on along its program (`Proceeds`), is cut short
(`Breaks`), or that none of them moves (`Aside`); the invariants below are
carried along these four kinds. Each was model-checked on instances with one
worker before it was proved.

- *`BilledPlanGranted`.* A success notice replans the payment before it completes
  it, if the plan billed differs; `BilledTask` says of each point of that handler
  which plan it has read or written. Whatever runs beside it, nobody else writes
  the plan of a Lemon Squeezy payment, so `OneAtATime` is not needed.
- *`PaymentSettlesOnce`, `GrantedOnce`.* A handler writes what it decided on the
  status it read, so alone it decides on what is there (`Holds`).
  `NoticesOK` says which purchases are completed by which kind of notice, and
  `RowTask` that a handler about to grant finds no row of its purchase in the
  table yet.
- *`StampMatchesGrant`.* The id on a row is its own purchase's, or one of
  Stripe's (`OwnIds`): of a handler that is alone, the active rows at its stamp
  are those it granted (`RowTask`).
- *`RefundEndsAccess`.* The refund finds the row by user, plan and newest id and
  not by the payment. `RowsFindable` says that every active row of a Stripe
  payment no admin confirmed is of the payment's plan and user and has an id, or
  has the handler that will stamp it; `RefundTask` that the id a refund looked up
  is the one on that row; `RefundedEnd` that a refunded payment has no active row,
  or its handler is at the last statement (`Ending`).

**The streamed rewrite.** `StreamInv` adds eleven conjuncts to the types, which
follow a token from the adapter to the client: `LeavesOK` and `ChainOK` (what a
provider has produced, what the chain has tried and committed to), `SingleOK` (one
leaf at most is under way), `UseOK`, `HandlerOK` and `OffersOK` (who stands at
which send, receive or select), `ChannelsOK`, `CountOK` and `DeliveredOK` (tokens
arrive in order and none is lost between the channels), `LogsOK`, `ErrorsOK`.
`ErrorIsReal` and `LogsCleanFinish` are read off it. `AnswerImplemented` is the
refinement: the initial states map to those of `Answer`, and under `StreamInv`
each step maps to one of its steps or to none; most are stutters, for `Answer`
sees only what reaches the client. The fairness of `AnswerSpec` stays with TLC.

**Accounts.** `Typed` strengthens `TypeOK` with what a request carries at each of
its statements. `EveryStep` sorts the steps into kinds by what they write: a
request starts or ends, a code is stored or used, an identity is linked, an
account is founded, given its row, or deleted; each theorem goes through the kinds
and not through the actions. What had to be added to make the properties inductive:

- *`LinkIsVouched`*: a sign-in about to link was vouched for, and the account it
  found keeps its address, for ids are not used again (`LinkersOK`, `IdsSpent`).
- *`VerifiedIsProven`*: a code is mailed for one account, and one not yet mailed
  is held by one request (`CodesOK`); whoever is about to mark an account verified
  presented a code mailed for it (`Presenting`).
- *`OneAccountPerIdentity`, `ResetCodeHolds`, `DeletionAllOrNothing`*: while none
  has overlapped, one request is in flight (`SoloOK`). Then the identity a sign-in
  looks for is nobody's (`FreshOK`), a code in a row still works and is in that row
  alone, and what a request read of it is what is there (`Standing`, `Issuing`,
  `Redeeming`), and the tables a deletion went through hold nothing of the user
  any more that it did not sweep (`SweptOK`).

**An admin remains.** Whoever passed the last-admin guard is alone with it and
leaves another active admin behind (`GuardHolds`), unless the observer
`unguarded` says that a second removal ran beside it.

**Failover.** Whatever was on offer ever since a request's first read was tried
already or is still on its list (`Pursues`): a list by age leaves no active
provider out (`ByAgeLists`; such a list exists because counting who is no younger
numbers the members of a finite set), both channels are asked, and what is
switched off or removed meanwhile is no longer `steady`.

**The board.** A toggle that ran alone so far is the only one of its feature, and
the number it is about to write is the number of votes (`SoloOnly`); a feature
nothing disturbed has the right count whenever nobody is between vote and count
(`CleanCounts`). A request at work on a closed bug has read that it is closed, or
names a status itself (`Upheld`).

**Crashes are counted.** `CommunityInv` keeps for each fingerprint that what was
accepted is at most what went with deleted groups and what the counts of its
groups add up to (`Counted`). A sum is the number of its units
(`SumTheorems`: `Total(f, S)` counts the pairs of an element and a number up to its
value), so that a step that adds one row or one occurrence adds that many units.
`Fits` says what a request holds between two statements: a `PATCH` writes back the
columns of the row it loaded, so that row must be presentable and of an unchanged
kind.

**The dashboard.** A report is built one statement at a time while rows are written.
`LedgerInv` says of each report under way that its new subscriptions are at least
the rows of the months gone through that were there when it began, and at most
those there now (`Bounded`), and, for a report no row was written during, that
every figure so far is exact (`Exact`); grants and churn keep the first and end
the second. `RowsSplit` is the point that could be wrong: what a month adds and
what was there before are disjoint and make the longer span, for any report date,
since a month's number is recovered from `time.Date` (`OneMonth`). Money is a sum
over the rows of a plan and then over the plans (`NetByGroups`); prices may be
negative, so a sum is what its gains exceed its losses by.

**Lists and inbox.** Lists are invariant in what they have shown. `WalkOK`: while
no row is written and no two sort keys are equal, the pages a client was shown are
the beginning of the one order of the rows (`OneOrder`), as long as pages times
their size; `PageOK`: the page on its way was cut at that offset, so that it
continues them (`CutsAdjoin`), and the total it is shown with is the number of
rows. A walk ends at an empty page or when as many rows were shown as the total
says, and then all were (`PageEnds`), in spite of the clamping of the page and of the size, and of the lists that do not
clamp. While a walk goes on it is the only reader (`OneReader`). The inbox reads the newest of each source up to the limit and merges them:
`TopMerged` says that the newest of two sources are among the newest of each, and
`BugsOK` what the first was when the second is read. The counts of the badge add
up because the sources are disjoint (`CountOfBoth`).

**Sums and orders.** The library's induction theorems take an operator and cannot
be used; `FiniteSetDescent` is an induction over the subsets of a finite set that
takes the *set* of those the claim holds of, by the library's theorem that strict
inclusion is well founded on them. The folds of the community modules are brought
to it by `SumIs` and `SumIsNet`, since a recursive sum's equation has one
solution. Nothing in the proofs depends on RECURSIVE definitions.

**Notices.** What the strategies were built with, and what a PayPal call took
along, was saved or in the environment before (`KeysOK`, `CallOK`), so that
nothing is acted on under another secret.

**The quota is bounded.** `QuotaBounded` compares the day's finished streams with
the highest limit one of them was let in under; it is not inductive, because it
forgets the streams under way. `QuotasInv` counts them: `RoomLeft`, the streams
logged and those let in leave room for one request less than may run together
(whoever is let in was below the limit when it counted, and the others let in
are at most the other workers); `Requested`, every stream counted or under way
was asked for, so that a plan without a limit, whose streams nothing but the
number of requests bounds, fits the same inequality; and in `CountsOK` a finished
stream was logged or refused by the database. Midnight empties the counts but
not the streams let in, and the allowance of the new day starts with theirs
(`MidnightKeeps`, the only place that needs the largest of a finite set,
`FiniteHasMax`). What moves plans and subscriptions meanwhile disturbs none of
it, for a request keeps the limit it read.

**Access lapses.** `AccessLapses` speaks of the moment somebody is let in and is
not inductive. `GatesInv` adds what makes it true earlier: `TokensBounded`, an
access token ends within a lifetime of the last moment its holder was entitled to
what its claims open, and `SigningIsFresh`, whoever is between the check of the
account and the signature was a member in this very tick. Entitlements only grow
(`Grows`): `CalmGrows` and `BecomesGrows` show it of every kind of step, and
`TokenKept`, `SigningKept` and `LapseKept` carry the invariant along. The proof
needs that the role is read with the account in one statement; a refresh that
took the role from its claims, or skipped the account, would break
`SigningIsFresh`.

**Suppression holds.** `MailInv` adds, for sends under way, that one which began
when its address was already listed gets no further than the look-up
(`HeldBack`), and for the reports that each one that is no longer repeated, and
is of a kind that lists an address, has listed it (`Listed`). A report names a send by its id:
`Carried` shows that no step changes whom a send is for.

**Reminders.** The job fires at every second half-day and looks at a window that is
closed at both ends; `ClockOK` says that it fired at the last hour or is about to.
By the parity of the half-day a row ends at, its window meets one hour or two
(`FirstPast`, `LastPast`): it has no more reminders than windows are past, and if
no run was missed one at least when the last is (`ReminderOK`).

**Rotations heal.** `AppleInv` adds to `RotationHeals` that a cached key was
published a cache's lifetime before the cache runs out (`CachedWasPublished`, for
the first half), and that every published key up to some cached key younger than
all misses is cached too (`MissesPaidFor`, for the second): a miss therefore
needs a key that was published since, and empties the cache.

**The rows of the console.** `ConsoleTypeOK` is about four tables, and the steps that
are not about one leave it and the requests about it as they are (`ConsoleApart`).
`TrailOK`: e-mails are unique and removals are logged, for a removal and its log row
are one commit. `SecretsOK`: a request about to write a provider carries no mask,
since `Unmasked` took it out of the body at the first statement. `OneDefault`: unless
promotions overlapped (`rivals`), one request at most is between demoting and
writing, and while it is there is no default. `SettingsOK`: while the row is single
it has the key asked for last. `ReleasesOK`: the row a release request is about to
save has no hash or that of its own version.

**Trials and profiles.** An address was let in for no more trials than its counter
shows up to the limit, plus the requests whose counting Redis failed (`TrialsOK`),
since incrementing and comparing are one step of Redis. A request about to write a
profile merges into a row it read before: `OffOrAsked` says that its row has
personalisation off, or that its body asks for it to be on, whenever the user
switched it off with no other write beside it (`ProfilesOK`).

**Accounts, messages and keys.** A deletion takes the extension tokens along, and
none is minted without an account (`StandingOK`). A message handed to the provider
is about to be logged as sent, or is logged as sent or as the last report said
(`Handed`); a report that overtakes the row changes nothing. `LockHeld`: whoever
fetches Apple's keys holds the mutex, and whoever holds it is fetching them.

**PayPal's token.** A token is requested with a key that is PayPal's at that moment,
so what is cached is one of the keys (`TokensOK`), whatever is rotated meanwhile; a
method is bought only at a provider that has it (`SalesOK`).

**The back office as a whole.** A behaviour of `MCDesk` keeps the mix of operations
it starts with (`MixKept`), and a mix belongs to one of the nine modules
(`OneModule`), so that it is a behaviour of that module's specification
(`DeskRunsOneModule`). The other eight keep what they start with, with two
exceptions: the counters of `Serving`, which every module moves (`Serves`), and
the workers, of which `AppleTypeOK` says that whoever is at the download holds the
mutex. `NoneDownloads` therefore says that no request of another module is ever
there; a call to PayPal, which goes on at a point it took along, needs `AllCallOn`
for that.

**Only model-checked.** The liveness properties, which rest on fairness
(`ChargedIsGranted`, `CompletedIsGranted`, `LapsedIsExpired`, `NoneStranded`, the
progress part of `AnswerSpec`): the prover has no rule for them. Every
safety invariant of the passing runs is a theorem.

## 6. Known limits of the code

Met while modelling and in the models as the code has them, so that every
property is stated around them:

- *Payments.* A redelivered completion of an older payment stamps its id on the
  newest row, and a renewal that overtakes the stamp, or another renewal, is
  lost or moves the expiry back. A payment confirmed by an admin has no stamp:
  its refund leaves Pro. The `cancelled` webhook ends Pro at once, before the
  paid period is over. In-app cancellation acts on the row read before the
  provider call (`payment/portal.go:112`): a grant in between is not the one that
  is cancelled.
- *Strategies.* Stripe, Lemon Squeezy and VietQR keep the credentials of the
  last boot; PayPal reads them at the call but keeps its bearer token through a
  rotation (`payment/strategy/paypal/paypal.go:115`). A checkout opens with the
  webhook secret unset (`stripe.go:222`). A wallet or bank-transfer method may be
  enabled without its provider, and its webhooks are answered 404. A PayPal sale
  without a next billing time is acknowledged without effect (`paypal.go:278`).
- *Accounts.* A deactivated user's tokens work until they expire, for an access
  lifetime. `PATCH` may switch the last admin off, unguarded and unaudited, and
  two admins may delete each other. A wrong code tried in overlapping requests
  is counted once. A request cut short between user and free row leaves an
  account without one. A profile saved after its notes failed to decrypt stores
  them empty. A profile deleted while a `PUT` is under way comes back.
- *Quotas.* A user without an active row is unlimited on the stream, where
  `rewrite/domain/user.go:54` says "hard zero", and has the free limit on
  `POST /rewrite`. A row past its expiry counts on `POST /rewrite` until the job
  runs, and not on the stream. `POST /rewrite` counts the streams and logs no
  usage of its own (`rewrite/parity/service.go:18`).
- *Console.* A promotion of an unknown provider demotes all. Two first reads of
  the settings insert two rows.
- *Lists.* `page=0` is a negative offset and an error in some lists; the limit
  of the payments list is not clamped; lists order by one column and break no
  tie, so equal values may repeat or vanish between pages.
- *Mail.* A row whose end falls on the edge of two windows is reminded twice,
  and a missed run reminds nobody. A late `delivered` overwrites `bounced`.
- *Dashboard.* Revenue is at today's prices. A report read while rows are
  written is a mixture.
- *Apple.* A withdrawn key is accepted for up to a day, and each new key may
  refuse one genuine sign-in.

## 7. Not modelled

QR payloads and transfer notes, several statement lines in one Casso notice
(the model has one line each), signature arithmetic (an equality of keys), the
billing portal, metrics and tracing, error envelopes. Refunds are per purchase,
not per period. Provider customer ids are modelled as whether a user has one. A
StoreKit transaction is redeemed by the account that bought it. Of the rewrite
endpoints, request parsing, prompts, tones, token counts and response wording are
left out, and in `RewriteStream` the checks before streaming are one choice
(`Quotas` has them). Of accounts: guessed codes, profile texts, rows whose user
is already NULL, `last_used_at` of extension tokens, the verification calls of
the social providers other than Apple. Texts, images, fingerprints, scrubbing and
e-mail templates are data no property tells apart. The mail library emailkit,
PostgreSQL, Redis and `net/http` are external, modelled from how the code uses
them. Clients, the console's front end, the website and the tooling around the
backend keep no state the properties are about; `PROJECT.json` lists them as
`not_modelled`.
