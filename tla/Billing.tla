------------------------------- MODULE Billing -------------------------------
(***************************************************************************)
(* Payments and subscriptions of the Go backend: checkout, the provider    *)
(* webhooks, admin confirm / grant / refund, StoreKit redemption, in-app   *)
(* cancel and the expiry cron, over the tables of BillingTables.           *)
(*                                                                         *)
(* Nothing in the code wraps a handler in a database transaction, and      *)
(* net/http runs every request in its own goroutine.  So a handler is a    *)
(* worker with a program counter, each statement it executes is one step,  *)
(* and the steps of different workers interleave.  Handlers that execute a *)
(* single statement are single actions and need no worker.                 *)
(*                                                                         *)
(* The payment providers are the environment.  They deliver what they      *)
(* announced at least once and in any order: an event stays in events and  *)
(* may be handled again at any time.                                       *)
(***************************************************************************)
EXTENDS BillingTables, FiniteSets

CONSTANTS
  Workers,       \* requests the server can be serving at one time
  BilledPlan,    \* the plan the provider bills; a Lemon Squeezy buyer may
                 \* switch variant in the hosted checkout
  Traffic,       \* the event kinds and operations an instance admits
  MaxTime,       \* bound on the clock
  MaxSubs,       \* bound on granted rows
  MaxAborts      \* bound on handlers cut short

ASSUME BilledAssumption == BilledPlan \in [Purchases -> Plans]
ASSUME BoundAssumption == MaxTime \in Nat /\ MaxSubs \in Nat /\ MaxAborts \in Nat

VARIABLES
  payments,      \* the payments table, by reference_code
  subs,          \* the subscriptions table, in created_at order
  linked,        \* users whose provider customer id is stored
  work,          \* what each worker is executing
  now,           \* the clock, in days
  opened,        \* payments whose checkout page the customer has
  paidThrough,   \* provider: end of the last period charged, 0 before
  ended,         \* provider: subscriptions that will not renew
  events,        \* provider: webhooks announced
  refunds,       \* provider: purchases whose charge was given back
  confirmed,     \* observer: payments an admin confirmed by hand
  warned,        \* log: Apple transactions reported as unmatched
  aborts         \* handlers cut short so far

dbVars       == <<payments, subs, linked>>
providerVars == <<opened, paidThrough, ended, events, refunds>>
observerVars == <<confirmed, warned, aborts>>
vars == <<dbVars, work, now, providerVars, observerVars>>

-----------------------------------------------------------------------------
(***************************************************************************)
(* Provider events.                                                        *)
(***************************************************************************)
EventKinds == {"completed", "failed", "success", "sale", "renewed", "apple",
               "cancelled", "expired"}
Event == [kind : EventKinds, x : Purchases, end : Nat]
Ev(k, x, end) == [kind |-> k, x |-> x, end |-> end]

Announce(E) == events' = events \cup {e \in E : e.kind \in Traffic}

\* Methods whose provider keeps a subscription the backend stores the id of.
Recurring(x) == Method[x] \in {"stripe", "lemonsqueezy", "paypal", "apple_iap"}
StampRef(x) == IF Recurring(x) THEN x ELSE None

FirstCycle(x, end) ==
  CASE Method[x] = "stripe"       -> {Ev("completed", x, 0), Ev("renewed", x, end)}
    [] Method[x] = "lemonsqueezy" -> {Ev("success", x, end)}
    [] Method[x] = "paypal"       -> {Ev("success", x, end), Ev("sale", x, 0)}
    [] Method[x] = "apple_iap"    -> {Ev("apple", x, end)}
    [] OTHER                      -> {Ev("completed", x, 0)}

Renewal(x, end) ==
  CASE Method[x] = "stripe"       -> {Ev("renewed", x, end)}
    [] Method[x] = "lemonsqueezy" -> {Ev("success", x, end)}
    [] Method[x] = "paypal"       -> {Ev("sale", x, 0)}
    [] OTHER                      -> {Ev("apple", x, end)}

(***************************************************************************)
(* Workers.                                                                *)
(***************************************************************************)
Pc == {"idle", "provider", "markFailed", "link", "check", "replan", "read",
       "mark", "fail", "confirm", "cancel", "insert", "stamp", "stampUser",
       "extend", "lookup", "stripeRefund", "stripeCancel", "refundMark",
       "refundCancel", "providerCancel"}

Op == {"none", "checkout", "complete", "fail", "confirm", "redeem", "grant",
       "refund", "usercancel"}

Task ==
  [pc : Pc, op : Op, x : Purchases \cup {None}, user : Users \cup {None},
   plan : Plans \cup {None}, store : StoreTypes \cup {None},
   exp : Nat \cup {NoExpiry}, txn : Purchases \cup {None}, horizon : Nat]

Idle == [pc |-> "idle", op |-> "none", x |-> None, user |-> None,
         plan |-> None, store |-> None, exp |-> 0, txn |-> None, horizon |-> 0]

\* The task of a handler that works on purchase x.
TaskFor(op, pc, x, end) ==
  [Idle EXCEPT !.pc = pc, !.op = op, !.x = x, !.user = Owner[x],
               !.plan = PlanOf[x], !.store = StoreTypeForMethod(Method[x]),
               !.exp = end]

Begin(w, task) == work[w] = Idle /\ work' = [work EXCEPT ![w] = task]
Goto(w, pc)    == work' = [work EXCEPT ![w].pc = pc]
Done(w)        == work' = [work EXCEPT ![w] = Idle]

\* A handler in flight inserts at most one row, so no insert meets the bound.
Room == Len(subs) + Cardinality({w \in Workers : work[w].pc # "idle"}) < MaxSubs
-----------------------------------------------------------------------------
(***************************************************************************)
(* Checkout (payment/checkout.go).                                         *)
(***************************************************************************)
CheckoutCreate(w, p) ==
  /\ "checkout" \in Traffic
  /\ payments[p].status = "none"
  /\ payments' = [payments EXCEPT ![p] = [status |-> "pending", plan |-> PlanOf[p]]]
  /\ Begin(w, TaskFor("checkout", "provider", p, 0))
  /\ UNCHANGED <<subs, linked, now, providerVars, observerVars>>

CheckoutOpened(w) ==
  /\ work[w].pc = "provider"
  /\ opened' = opened \cup {work[w].x}
  /\ Done(w)
  /\ UNCHANGED <<dbVars, now, paidThrough, ended, events, refunds, observerVars>>

CheckoutRefused(w) ==
  /\ work[w].pc = "provider"
  /\ Goto(w, "markFailed")
  /\ UNCHANGED <<dbVars, now, providerVars, observerVars>>

CheckoutMarkFailed(w) ==
  /\ work[w].pc = "markFailed"
  /\ payments' = [payments EXCEPT ![work[w].x].status = "failed"]
  /\ Done(w)
  /\ UNCHANGED <<subs, linked, now, providerVars, observerVars>>

-----------------------------------------------------------------------------
(***************************************************************************)
(* Webhooks that settle a payment (payment/webhook.go).                    *)
(***************************************************************************)

\* Stripe checkout.session.completed / payment_intent.succeeded, and the bank
\* transfer notices of Casso, SePay and MB Bank, which name no customer.
HookCompleted(w, e) ==
  /\ e.kind = "completed" /\ Room
  /\ LET pc == IF Method[e.x] \in {"stripe", "apple_pay", "google_pay"}
               THEN "link" ELSE "read"
     IN  Begin(w, TaskFor("complete", pc, e.x, 0))
  /\ UNCHANGED <<dbVars, now, providerVars, observerVars>>

\* Stripe invoice.payment_failed.
HookFailed(w, e) ==
  /\ e.kind = "failed"
  /\ Begin(w, TaskFor("fail", "read", e.x, 0))
  /\ UNCHANGED <<dbVars, now, providerVars, observerVars>>

\* Lemon Squeezy subscription_created / _payment_success, PayPal ACTIVATED.
HookSuccess(w, e) ==
  /\ e.kind = "success" /\ Room
  /\ LET pc == IF Method[e.x] = "lemonsqueezy" THEN "link" ELSE "check"
     IN  Begin(w, TaskFor("complete", pc, e.x, e.end))
  /\ UNCHANGED <<dbVars, now, providerVars, observerVars>>

LinkCustomer(w) ==
  /\ work[w].pc = "link"
  /\ linked' = linked \cup {work[w].user}
  /\ Goto(w, IF Method[work[w].x] = "lemonsqueezy" THEN "check" ELSE "read")
  /\ UNCHANGED <<payments, subs, now, providerVars, observerVars>>

\* Faulty variants: a settled payment is completed again; a notice that
\* carries a period is always taken for a renewal.
CheckNothing(w) ==
  /\ work[w].pc = "check"
  /\ Goto(w, "read")
  /\ UNCHANGED <<dbVars, now, providerVars, observerVars>>

CheckPeriod(w) ==
  /\ work[w].pc = "check"
  /\ Goto(w, IF work[w].exp > 0 THEN "extend" ELSE "read")
  /\ UNCHANGED <<dbVars, now, providerVars, observerVars>>

CheckPending(w) ==
  /\ work[w].pc = "check"
  /\ LET x == work[w].x
     IN  Goto(w, IF payments[x].status # "pending" THEN "extend"
                 ELSE IF /\ Method[x] = "lemonsqueezy"
                         /\ BilledPlan[x] # payments[x].plan
                 THEN "replan" ELSE "read")
  /\ UNCHANGED <<dbVars, now, providerVars, observerVars>>

Replan(w) ==
  /\ work[w].pc = "replan"
  /\ payments' = [payments EXCEPT ![work[w].x].plan = BilledPlan[work[w].x]]
  /\ Goto(w, "read")
  /\ UNCHANGED <<subs, linked, now, providerVars, observerVars>>

\* completePayment reads the payment.  A settled one is reported as handled,
\* and the caller goes on to stamp when its provider has a subscription.
ReadPaymentIn(w, unsettled, plan) ==
  /\ work[w].pc = "read"
  /\ LET t == work[w]
     IN  IF payments[t.x].status \in unsettled
         THEN work' = [work EXCEPT ![w].plan = plan,
                                   ![w].pc = IF t.op = "fail" THEN "fail" ELSE "mark"]
         ELSE IF t.op = "complete" /\ StampRef(t.x) # None
         THEN Goto(w, "stamp")
         ELSE Done(w)
  /\ UNCHANGED <<dbVars, now, providerVars, observerVars>>

\* Faulty variants: no status check; a failed payment counts as unsettled; the
\* plan read before the variant was resolved.
ReadUnchecked(w) == ReadPaymentIn(w, PaymentStatus, payments[work[w].x].plan)
ReadFailedToo(w) == ReadPaymentIn(w, {"pending", "failed"}, payments[work[w].x].plan)
ReadStalePlan(w) == ReadPaymentIn(w, {"pending"}, work[w].plan)

ReadPayment(w) == ReadPaymentIn(w, {"pending"}, payments[work[w].x].plan)

\* MarkPaymentCompleted, then activateSubscription computes expires_at.
MarkCompleted(w) ==
  /\ work[w].pc = "mark"
  /\ payments' = [payments EXCEPT ![work[w].x].status = "completed"]
  /\ work' = [work EXCEPT ![w].pc = "cancel",
                          ![w].exp = now + Period[work[w].plan]]
  /\ UNCHANGED <<subs, linked, now, providerVars, observerVars>>

MarkFailedByRef(w) ==
  /\ work[w].pc = "fail"
  /\ payments' = [payments EXCEPT ![work[w].x].status = "failed"]
  /\ Done(w)
  /\ UNCHANGED <<subs, linked, now, providerVars, observerVars>>

-----------------------------------------------------------------------------
(***************************************************************************)
(* Grant (subscription/webhook_writer.go) and the stamp that follows it.   *)
(***************************************************************************)
GrantCancelPrior(w) ==
  /\ work[w].pc = "cancel"
  /\ subs' = CancelActiveSubsByUser(subs, work[w].user)
  /\ work' = [work EXCEPT ![w].pc = "insert", ![w].horizon = Len(subs)]
  /\ UNCHANGED <<payments, linked, now, providerVars, observerVars>>

AfterGrant(t) ==
  CASE t.op = "complete" /\ StampRef(t.x) # None -> "stamp"
    [] t.op = "redeem"                           -> "stampUser"
    [] OTHER                                     -> "idle"

GrantedRow(t) ==
  [user |-> t.user, plan |-> t.plan, status |-> "active", store |-> t.store,
   txn |-> None, exp |-> t.exp, src |-> t.x, horizon |-> t.horizon]

GrantInsert(w) ==
  /\ work[w].pc = "insert"
  /\ subs' = InsertGrantedSubscription(subs, GrantedRow(work[w]))
  /\ IF AfterGrant(work[w]) = "idle" THEN Done(w) ELSE Goto(w, AfterGrant(work[w]))
  /\ UNCHANGED <<payments, linked, now, providerVars, observerVars>>

StampByReference(w) ==
  /\ work[w].pc = "stamp"
  /\ LET x == work[w].x
     IN  subs' = StampStoreRefByReference(subs, x, StoreTypeForMethod(Method[x]), x)
  /\ Done(w)
  /\ UNCHANGED <<payments, linked, now, providerVars, observerVars>>

StampByUser(w) ==
  /\ work[w].pc = "stampUser"
  /\ subs' = StampStoreRefByUser(subs, work[w].user, "apple_iap", work[w].x)
  /\ Done(w)
  /\ UNCHANGED <<payments, linked, now, providerVars, observerVars>>

-----------------------------------------------------------------------------
(***************************************************************************)
(* Webhooks of a running subscription.                                     *)
(***************************************************************************)
StoreOf(x) == StoreTypeForMethod(Method[x])

\* The renewal branch of the Lemon Squeezy and PayPal success webhooks.
ExtendSettled(w) ==
  /\ work[w].pc = "extend"
  /\ LET t == work[w]
     IN  subs' = ExtendByStoreRef(subs, StoreOf(t.x), t.x, t.exp)
  /\ Done(w)
  /\ UNCHANGED <<payments, linked, now, providerVars, observerVars>>

\* PayPal PAYMENT.SALE.COMPLETED carries no period: the handler asks PayPal
\* for the next billing time, which a cancelled agreement does not have.
HookSale(w, e) ==
  /\ e.kind = "sale" /\ e.x \notin ended
  /\ Begin(w, TaskFor("complete", "extend", e.x, paidThrough[e.x]))
  /\ UNCHANGED <<dbVars, now, providerVars, observerVars>>

\* Stripe invoice.payment_succeeded.
HookRenewed(e) ==
  /\ e.kind = "renewed"
  /\ subs' = ExtendByStoreRef(subs, StoreOf(e.x), e.x, e.end)
  /\ UNCHANGED <<payments, linked, work, now, providerVars, observerVars>>

\* Apple SUBSCRIBED / DID_RENEW: an unmatched notification is only logged.
HookApple(e) ==
  /\ e.kind = "apple"
  /\ subs' = ExtendByStoreRef(subs, "apple_iap", e.x, e.end)
  /\ warned' = IF ActiveByStoreRef(subs, "apple_iap", e.x) = {}
               THEN warned \cup {e.x} ELSE warned
  /\ UNCHANGED <<payments, linked, work, now, providerVars, confirmed, aborts>>

HookCancelled(e) ==
  /\ e.kind = "cancelled"
  /\ subs' = CancelByStoreRef(subs, StoreOf(e.x), e.x)
  /\ UNCHANGED <<payments, linked, work, now, providerVars, observerVars>>

\* Lemon Squeezy, PayPal and Apple expiry, suspension and refund.
HookExpired(e) ==
  /\ e.kind = "expired"
  /\ subs' = ExpireByStoreRef(subs, StoreOf(e.x), e.x, now)
  /\ UNCHANGED <<payments, linked, work, now, providerVars, observerVars>>
-----------------------------------------------------------------------------
(***************************************************************************)
(* StoreKit redemption, admin confirm and admin grant.                     *)
(***************************************************************************)

\* The client posts any signed transaction it holds, as often as it likes.
RedeemBegin(w, e) ==
  /\ "redeem" \in Traffic /\ e.kind = "apple" /\ Room
  /\ Begin(w, TaskFor("redeem", "cancel", e.x, e.end))
  /\ UNCHANGED <<dbVars, now, providerVars, observerVars>>

\* Faulty variant: activates before the payment is marked.
AdminConfirmGrantsFirst(w, p) ==
  /\ "confirm" \in Traffic /\ Room
  /\ payments[p].status = "pending"
  /\ Begin(w, [TaskFor("confirm", "cancel", p, 0) EXCEPT !.plan = payments[p].plan])
  /\ UNCHANGED <<dbVars, now, providerVars, observerVars>>

AdminConfirmLoad(w, p) ==
  /\ "confirm" \in Traffic /\ Room
  /\ payments[p].status = "pending"
  /\ Begin(w, [TaskFor("confirm", "confirm", p, 0) EXCEPT !.plan = payments[p].plan])
  /\ UNCHANGED <<dbVars, now, providerVars, observerVars>>

\* Faulty variant: marks the payment and activates nothing.
AdminConfirmMarkOnly(w) ==
  /\ work[w].pc = "confirm"
  /\ payments' = [payments EXCEPT ![work[w].x].status = "completed"]
  /\ confirmed' = confirmed \cup {work[w].x}
  /\ Done(w)
  /\ UNCHANGED <<subs, linked, now, providerVars, warned, aborts>>

AdminConfirmMark(w) ==
  /\ work[w].pc = "confirm"
  /\ payments' = [payments EXCEPT ![work[w].x].status = "completed"]
  /\ confirmed' = confirmed \cup {work[w].x}
  /\ work' = [work EXCEPT ![w].pc = "cancel",
                          ![w].exp = now + Period[work[w].plan]]
  /\ UNCHANGED <<subs, linked, now, providerVars, warned, aborts>>

AdminGrant(w, u, pl, end) ==
  /\ "grant" \in Traffic /\ Room
  /\ Begin(w, [Idle EXCEPT !.pc = "cancel", !.op = "grant", !.user = u,
                           !.plan = pl, !.store = "admin_granted", !.exp = end])
  /\ UNCHANGED <<dbVars, now, providerVars, observerVars>>

-----------------------------------------------------------------------------
(***************************************************************************)
(* Admin refund (payment/admin_usecase.go).                                *)
(***************************************************************************)
RefundLoad(w, p) ==
  /\ "refund" \in Traffic
  /\ payments[p].status = "completed" /\ Method[p] = "stripe"
  /\ Begin(w, [TaskFor("refund", "lookup", p, 0) EXCEPT !.plan = payments[p].plan])
  /\ UNCHANGED <<dbVars, now, providerVars, observerVars>>

RefundLookup(w) ==
  /\ work[w].pc = "lookup"
  /\ LET txn == FindLatestStripeForUserPlan(subs, work[w].user, work[w].plan)
     IN  work' = [work EXCEPT ![w].txn = txn,
                              ![w].pc = IF txn = None THEN "refundMark"
                                        ELSE "stripeRefund"]
  /\ UNCHANGED <<dbVars, now, providerVars, observerVars>>

\* Stripe refuses to refund a charge twice; the error ends the request.
RefundCharge(w) ==
  /\ work[w].pc = "stripeRefund"
  /\ refunds' = refunds \cup {work[w].txn}
  /\ IF work[w].txn \in refunds THEN Done(w) ELSE Goto(w, "stripeCancel")
  /\ UNCHANGED <<dbVars, now, opened, paidThrough, ended, events, observerVars>>

\* The latest invoice carries no charge: a trial.
RefundNoCharge(w) ==
  /\ "trial" \in Traffic
  /\ work[w].pc = "stripeRefund"
  /\ Goto(w, "stripeCancel")
  /\ UNCHANGED <<dbVars, now, providerVars, observerVars>>

\* Cancelling at Stripe is not fatal when it fails.
RefundCancelAtStripe(w) ==
  /\ work[w].pc = "stripeCancel"
  /\ \/ /\ ended' = ended \cup {work[w].txn}
        /\ Announce({Ev("cancelled", work[w].txn, 0)})
     \/ UNCHANGED <<ended, events>>
  /\ Goto(w, "refundMark")
  /\ UNCHANGED <<dbVars, now, opened, paidThrough, refunds, observerVars>>

\* Faulty variant: leaves the row to the webhook Stripe may never send.
RefundMarkOnly(w) ==
  /\ work[w].pc = "refundMark"
  /\ payments' = [payments EXCEPT ![work[w].x].status = "refunded"]
  /\ Done(w)
  /\ UNCHANGED <<subs, linked, now, providerVars, observerVars>>

RefundMark(w) ==
  /\ work[w].pc = "refundMark"
  /\ payments' = [payments EXCEPT ![work[w].x].status = "refunded"]
  /\ IF work[w].txn = None THEN Done(w) ELSE Goto(w, "refundCancel")
  /\ UNCHANGED <<subs, linked, now, providerVars, observerVars>>

RefundCancelSub(w) ==
  /\ work[w].pc = "refundCancel"
  /\ subs' = CancelByStoreRef(subs, "stripe", work[w].txn)
  /\ Done(w)
  /\ UNCHANGED <<payments, linked, now, providerVars, observerVars>>

-----------------------------------------------------------------------------
(***************************************************************************)
(* In-app cancel (payment/portal.go): the row is only read; its status     *)
(* follows with the provider's webhook.                                    *)
(***************************************************************************)
UserCancelRead(w, u) ==
  /\ "usercancel" \in Traffic
  /\ \E i \in Newest(ActiveOf(subs, u)) :
       /\ subs[i].txn # None
       /\ subs[i].store \in {"stripe", "lemonsqueezy", "paypal"}
       /\ Begin(w, [Idle EXCEPT !.pc = "providerCancel", !.op = "usercancel",
                                !.user = u, !.txn = subs[i].txn])
  /\ UNCHANGED <<dbVars, now, providerVars, observerVars>>

\* Stripe is told to stop at the period end and announces that later.
UserCancelCall(w) ==
  /\ work[w].pc = "providerCancel"
  /\ ended' = ended \cup {work[w].txn}
  /\ Announce(IF Method[work[w].txn] = "stripe" THEN {}
              ELSE {Ev("cancelled", work[w].txn, 0)})
  /\ Done(w)
  /\ UNCHANGED <<dbVars, now, opened, paidThrough, refunds, observerVars>>

-----------------------------------------------------------------------------
(***************************************************************************)
(* Cron, clock, failures.                                                  *)
(***************************************************************************)

\* The daily job's second pass; with nothing lapsed it changes no row.
CronExpireLapsed ==
  /\ Lapsed(subs, now) # {}
  /\ subs' = ExpireLapsedSubs(subs, now)
  /\ UNCHANGED <<payments, linked, work, now, providerVars, observerVars>>

Tick ==
  /\ now < MaxTime
  /\ now' = now + 1
  /\ UNCHANGED <<dbVars, work, providerVars, observerVars>>

\* A statement fails, the request context is cancelled or the process dies:
\* the statements already executed stay, the rest of the handler is lost.
Abort(w) ==
  /\ work[w].pc # "idle" /\ aborts < MaxAborts
  /\ aborts' = aborts + 1
  /\ Done(w)
  /\ UNCHANGED <<dbVars, now, providerVars, confirmed, warned>>

\* The errors of these two updates are discarded and the handler goes on.
SkipIgnored(w) ==
  /\ aborts < MaxAborts
  /\ \/ /\ work[w].pc = "link"
        /\ Goto(w, IF Method[work[w].x] = "lemonsqueezy" THEN "check" ELSE "read")
     \/ work[w].pc = "replan" /\ Goto(w, "read")
  /\ aborts' = aborts + 1
  /\ UNCHANGED <<dbVars, now, providerVars, confirmed, warned>>

-----------------------------------------------------------------------------
(***************************************************************************)
(* The payment providers.                                                  *)
(***************************************************************************)
ProviderCharge(x) ==
  /\ paidThrough[x] = 0 /\ (x \in Payments => x \in opened)
  /\ LET end == now + Period[BilledPlan[x]]
     IN  /\ paidThrough' = [paidThrough EXCEPT ![x] = end]
         /\ Announce(FirstCycle(x, end))
  /\ UNCHANGED <<dbVars, work, now, opened, ended, refunds, observerVars>>

ProviderDecline(p) ==
  /\ "failed" \in Traffic
  /\ Method[p] = "stripe" /\ p \in opened
  /\ paidThrough[p] = 0 \/ now >= paidThrough[p]
  /\ Announce({Ev("failed", p, 0)})
  /\ UNCHANGED <<dbVars, work, now, opened, paidThrough, ended, refunds, observerVars>>

ProviderRenew(x) ==
  /\ "renew" \in Traffic
  /\ Recurring(x) /\ x \notin ended
  /\ paidThrough[x] # 0 /\ now >= paidThrough[x]
  /\ LET end == paidThrough[x] + Period[BilledPlan[x]]
     IN  /\ paidThrough' = [paidThrough EXCEPT ![x] = end]
         /\ Announce(Renewal(x, end))
  /\ UNCHANGED <<dbVars, work, now, opened, ended, refunds, observerVars>>

\* The customer cancels at the provider.
ProviderEnd(x) ==
  /\ "end" \in Traffic
  /\ Recurring(x) /\ paidThrough[x] # 0 /\ x \notin ended
  /\ ended' = ended \cup {x}
  /\ Announce(IF Method[x] \in {"lemonsqueezy", "paypal"}
              THEN {Ev("cancelled", x, 0)} ELSE {})
  /\ UNCHANGED <<dbVars, work, now, opened, paidThrough, refunds, observerVars>>

\* Stripe announces customer.subscription.deleted, the others expiry.
ProviderPeriodOver(x) ==
  /\ x \in ended /\ now >= paidThrough[x]
  /\ Announce({Ev(IF Method[x] = "stripe" THEN "cancelled" ELSE "expired", x, 0)})
  /\ UNCHANGED <<dbVars, work, now, opened, paidThrough, ended, refunds, observerVars>>
-----------------------------------------------------------------------------
\* What registration leaves (CreateFree); an account may also have no row.
FreeRow(u) ==
  [user |-> u, plan |-> FreePlan, status |-> "active", store |-> "admin_granted",
   txn |-> None, exp |-> NoExpiry, src |-> None, horizon |-> 0]

Init ==
  /\ payments = [p \in Payments |->
                   [status |-> IF "checkout" \in Traffic THEN "none" ELSE "pending",
                    plan |-> PlanOf[p]]]
  /\ opened = IF "checkout" \in Traffic THEN {} ELSE Payments
  /\ subs \in {<<>>} \cup IF "free" \in Traffic THEN {<<FreeRow(u)>> : u \in Users} ELSE {}
  /\ linked = {}
  /\ work = [w \in Workers |-> Idle]
  /\ now = 0
  /\ paidThrough = [x \in Purchases |-> 0]
  /\ ended = {} /\ events = {} /\ refunds = {}
  /\ confirmed = {} /\ warned = {} /\ aborts = 0

\* The webhooks whose handler runs over several statements.
Hook(w, e) ==
  HookCompleted(w, e) \/ HookFailed(w, e) \/ HookSuccess(w, e) \/ HookSale(w, e)

Arrive(w) ==
  \/ \E e \in events : Hook(w, e) \/ RedeemBegin(w, e)
  \/ \E p \in Payments : \/ CheckoutCreate(w, p) \/ AdminConfirmLoad(w, p)
                         \/ RefundLoad(w, p)
  \/ \E u \in Users : \/ UserCancelRead(w, u)
                      \/ \E pl \in Plans : \E end \in {NoExpiry, now + Period[pl]} :
                           AdminGrant(w, u, pl, end)

Continue(w) ==
  \/ CheckoutOpened(w) \/ CheckoutRefused(w) \/ CheckoutMarkFailed(w)
  \/ LinkCustomer(w) \/ CheckPending(w) \/ Replan(w) \/ ReadPayment(w)
  \/ MarkCompleted(w) \/ MarkFailedByRef(w) \/ AdminConfirmMark(w)
  \/ GrantCancelPrior(w) \/ GrantInsert(w) \/ StampByReference(w) \/ StampByUser(w)
  \/ ExtendSettled(w)
  \/ RefundLookup(w) \/ RefundCharge(w) \/ RefundNoCharge(w) \/ RefundCancelAtStripe(w)
  \/ RefundMark(w) \/ RefundCancelSub(w)
  \/ UserCancelCall(w)

Notify(e) ==
  HookRenewed(e) \/ HookApple(e) \/ HookCancelled(e) \/ HookExpired(e)

Provider ==
  \/ \E x \in Purchases : \/ ProviderCharge(x) \/ ProviderRenew(x)
                          \/ ProviderEnd(x) \/ ProviderPeriodOver(x)
  \/ \E p \in Payments : ProviderDecline(p)

Next ==
  \/ \E w \in Workers : Arrive(w) \/ Continue(w) \/ Abort(w) \/ SkipIgnored(w)
  \/ \E e \in events : Notify(e)
  \/ Provider
  \/ CronExpireLapsed \/ Tick

Spec == Init /\ [][Next]_vars

TypeOK ==
  /\ payments \in [Payments -> PaymentRow]
  /\ subs \in Seq(SubRow)
  /\ linked \subseteq Users
  /\ work \in [Workers -> Task]
  /\ now \in Nat
  /\ opened \subseteq Payments
  /\ paidThrough \in [Purchases -> Nat]
  /\ ended \subseteq Purchases /\ refunds \subseteq Purchases
  /\ events \subseteq Event
  /\ confirmed \subseteq Payments /\ warned \subseteq AppleTxns
  /\ aborts \in Nat
=============================================================================
