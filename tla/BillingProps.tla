----------------------------- MODULE BillingProps -----------------------------
(***************************************************************************)
(* What the payment and subscription handlers promise.  Each property says *)
(* under which traffic it is meant; the configurations of MCBilling choose *)
(* the traffic.                                                            *)
(***************************************************************************)
EXTENDS Billing

Quiet == \A w \in Workers : work[w] = Idle

-----------------------------------------------------------------------------
(***************************************************************************)
(* Any number of requests at once.                                         *)
(***************************************************************************)

\* A grant leaves nothing active of what its user had when it began, however
\* grants, stamps, renewals and the cron interleave: two rows of a user are
\* active together only if their grants overlapped (Grant cancels, then
\* inserts, in two statements: webhook_writer.go:53-66).
GrantSupersedes ==
  \A j \in DOMAIN subs : \A i \in 1 .. subs[j].horizon :
    subs[i].user = subs[j].user => subs[i].status # "active"

\* No one gets Pro for a payment unless the provider charged it or an admin
\* confirmed it, and the payment has left pending by then: the status update
\* comes before the grant in every path (webhook.go:321-327,
\* admin_usecase.go:235-245).
GrantBacked ==
  \A i \in DOMAIN subs : subs[i].src \in Payments =>
    /\ paidThrough[subs[i].src] # 0 \/ subs[i].src \in confirmed
    /\ payments[subs[i].src].status \in {"completed", "failed", "refunded"}

\* A provider's subscription id ends up only on rows of the account that
\* bought it and under the store of its method, however stamps and grants of
\* different accounts interleave: what renewals, cancellations and refunds
\* match on never touches another account's row (queries_auth.sql:215-239).
TxnStaysWithOwner ==
  \A i \in DOMAIN subs : subs[i].txn # None =>
    subs[i].user = Owner[subs[i].txn] /\ subs[i].store = StoreOf(subs[i].txn)

\* A Lemon Squeezy buyer who switched variant in the hosted checkout gets the
\* plan that was billed and not the one first chosen, unless an admin
\* confirmed the payment by hand (webhook.go:159-163).  Meant without handler
\* failures, whose update of the plan the code lets fail.
BilledPlanGranted ==
  \A i \in DOMAIN subs :
    LET x == subs[i].src IN
    x \in Payments \ confirmed /\ Method[x] = "lemonsqueezy"
      => subs[i].plan = BilledPlan[x]

\* A row only ever moves from active over cancelled to expired, and stays the
\* same account's, whatever arrives late or twice: no webhook, stamp or
\* renewal brings a revoked row back (queries_auth.sql:195-251).
Rank == [active |-> 0, cancelled |-> 1, expired |-> 2]

StatusStep ==
  \A i \in DOMAIN subs :
    /\ i \in DOMAIN subs'
    /\ subs'[i].user = subs[i].user
    /\ Rank[subs'[i].status] >= Rank[subs[i].status]

NothingRevives == [][StatusStep]_vars

-----------------------------------------------------------------------------
(***************************************************************************)
(* One request at a time.                                                  *)
(***************************************************************************)

\* A payment is granted once, however often its webhook is redelivered and
\* whoever else confirms it (webhook.go:306-309).
GrantedOnce ==
  \A i, j \in DOMAIN subs :
    subs[i].src \in Payments /\ subs[i].src = subs[j].src => i = j

\* A payment leaves pending once, and only a completed one is refunded.
LegalPaymentStep ==
  \A p \in Payments : payments'[p].status # payments[p].status =>
    <<payments[p].status, payments'[p].status>> \in
      {<<"none", "pending">>, <<"pending", "completed">>,
       <<"pending", "failed">>, <<"completed", "refunded">>}

PaymentSettlesOnce == [][LegalPaymentStep]_vars

\* The subscription id on a row is the one of the purchase it was granted for,
\* so that renewals and refunds of a purchase act on its own row.
StampMatchesGrant ==
  \A i \in DOMAIN subs : subs[i].txn # None => subs[i].txn = subs[i].src

\* "Refund refunds a completed Stripe payment and cancels its subscription so
\* the user loses access immediately" (admin_usecase.go:253-254): of a payment
\* the provider reported, whatever other purchases and confirmations there are.
NoRowActive(p) ==
  \A i \in DOMAIN subs : subs[i].src = p => subs[i].status # "active"

RefundEndsAccess ==
  Quiet => \A p \in Payments \ confirmed :
             payments[p].status = "refunded" => NoRowActive(p)

-----------------------------------------------------------------------------
(***************************************************************************)
(* Progress.  A handler that has begun runs on: it is a goroutine, and its *)
(* database calls return.  A provider repeats a webhook until it is        *)
(* acknowledged, and every request gets a goroutine, so each announced     *)
(* event is handled again and again as long as handling it is possible.    *)
(* The cron runs daily.                                                    *)
(***************************************************************************)
Deliver(k, x) == \E e \in events : e.kind = k /\ e.x = x /\ \E w \in Workers : Hook(w, e)

Fairness ==
  /\ \A w \in Workers : WF_vars(Continue(w))
  /\ \A k \in {"completed", "success"} : \A p \in Payments : SF_vars(Deliver(k, p))
  /\ WF_vars(CronExpireLapsed)

FairSpec == Spec /\ Fairness

\* Whoever was charged is granted the subscription in the end.
ChargedIsGranted ==
  \A p \in Payments :
    paidThrough[p] # 0 ~> \E i \in DOMAIN subs : subs[i].src = p

\* "completePayment flips a pending payment to completed/failed by reference
\* and, for the completed path, activates the subscription" (webhook.go:306).
CompletedIsGranted ==
  \A p \in Payments :
    payments[p].status = "completed" ~> \E i \in DOMAIN subs : subs[i].src = p

\* A row past its expiry, active or cancelled, does not stay that way: the
\* daily job expires it unless a renewal moved the expiry (cron.go:55-75).
LapsedIsExpired ==
  \A i \in 1 .. MaxSubs : i \in Lapsed(subs, now) ~> i \notin Lapsed(subs, now)
=============================================================================
