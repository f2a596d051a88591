---------------------------- MODULE BillingTables ----------------------------
(***************************************************************************)
(* The two tables the payment and subscription packages share, and the SQL *)
(* statements that touch them (internal/shared/pg/queries_auth.sql and     *)
(* queries_payment.sql).  Every statement runs in its own implicit         *)
(* transaction, so each operator below is one atomic step of a handler.    *)
(*                                                                         *)
(* The subscriptions table is a sequence: a row is never deleted while its *)
(* user lives, and the position of a row stands for its created_at, which  *)
(* is all the queries order by.                                            *)
(***************************************************************************)
EXTENDS Integers, Sequences

CONSTANTS
  Users,          \* accounts
  Plans,          \* paid plans
  FreePlan,       \* the plan a new account starts on
  Payments,       \* payments, each named by its unique reference_code
  AppleTxns,      \* StoreKit original transaction ids
  Owner,          \* the account that makes a purchase
  Method,         \* the payment method a purchase is made with
  PlanOf,         \* the plan a purchase is for
  Period,         \* length of a plan's billing period
  None            \* SQL NULL, and the empty string

Purchases == Payments \cup AppleTxns

Methods == {"stripe", "apple_pay", "google_pay", "vietqr", "bank_transfer",
            "momo", "lemonsqueezy", "paypal", "apple_iap"}

StoreTypes == {"stripe", "vietqr", "bank_transfer", "lemonsqueezy", "paypal",
               "apple_iap", "admin_granted"}

ASSUME PurchaseAssumption ==
  /\ Owner \in [Purchases -> Users]
  /\ PlanOf \in [Purchases -> Plans]
  /\ Method \in [Purchases -> Methods]
  /\ \A x \in Purchases : Method[x] = "apple_iap" <=> x \in AppleTxns
  /\ Payments \cap AppleTxns = {}

ASSUME PeriodAssumption == Period \in [Plans -> Nat \ {0}]

ASSUME NoneAssumption ==
  /\ None \notin Users \cup Plans \cup Purchases \cup StoreTypes
  /\ FreePlan \notin Plans

\* Faulty variant: the wallet methods are written as they are.
StoreTypeIsMethod(m) == IF m = "momo" THEN "admin_granted" ELSE m

(***************************************************************************)
(* The store_type written by a grant.  The wallets run on Stripe.          *)
(***************************************************************************)
StoreTypeForMethod(m) ==
  CASE m \in {"apple_pay", "google_pay"} -> "stripe"
    [] m = "momo"                        -> "admin_granted"
    [] OTHER                             -> m

(***************************************************************************)
(* Rows.  src and horizon are not columns: src is the purchase a grant was *)
(* made for, horizon the length of the table when the first statement of   *)
(* that grant ran.  Neither is ever read by an action.                     *)
(***************************************************************************)
NoExpiry == -1
SubStatus == {"active", "cancelled", "expired"}

SubRow ==
  [user : Users, plan : Plans \cup {FreePlan}, status : SubStatus, store : StoreTypes,
   txn : Purchases \cup {None}, exp : Nat \cup {NoExpiry},
   src : Purchases \cup {None}, horizon : Nat]

PaymentStatus == {"none", "pending", "completed", "failed", "refunded"}
PaymentRow == [status : PaymentStatus, plan : Plans]

(***************************************************************************)
(* WHERE clauses: the positions of the rows a statement selects.           *)
(***************************************************************************)
ActiveOf(T, u) ==
  {i \in DOMAIN T : T[i].user = u /\ T[i].status = "active"}

ByStoreRef(T, s, x) ==
  {i \in DOMAIN T : T[i].store = s /\ T[i].txn = x}

ActiveByStoreRef(T, s, x) ==
  {i \in ByStoreRef(T, s, x) : T[i].status = "active"}

\* ORDER BY created_at DESC LIMIT 1: empty, or the one newest position.
Newest(M) == {i \in M : \A j \in M : j <= i}

Lapsed(T, time) ==
  {i \in DOMAIN T : /\ T[i].status \in {"active", "cancelled"}
                    /\ T[i].exp # NoExpiry
                    /\ T[i].exp < time}

(***************************************************************************)
(* The statements.                                                         *)
(***************************************************************************)
SetStatus(T, M, st) ==
  [i \in DOMAIN T |-> IF i \in M THEN [T[i] EXCEPT !.status = st] ELSE T[i]]

\* Faulty variant: LIMIT 1.
CancelNewestOnly(T, u) == SetStatus(T, Newest(ActiveOf(T, u)), "cancelled")

CancelActiveSubsByUser(T, u) == SetStatus(T, ActiveOf(T, u), "cancelled")

InsertGrantedSubscription(T, row) == Append(T, row)

StampRows(T, M, s, x) ==
  [i \in DOMAIN T |->
     IF i \in M THEN [T[i] EXCEPT !.store = s, !.txn = x] ELSE T[i]]

\* Faulty variant: the join to the payer is missing.
StampNewestOfAll(T, p, s, x) ==
  StampRows(T, Newest({i \in DOMAIN T : T[i].status = "active"}), s, x)

\* Joined to payments by reference_code: the newest active row of the payer.
StampStoreRefByReference(T, p, s, x) ==
  StampRows(T, Newest(ActiveOf(T, Owner[p])), s, x)

StampStoreRefByUser(T, u, s, x) ==
  StampRows(T, Newest({i \in ActiveOf(T, u) : T[i].store = s}), s, x)

ExtendByStoreRef(T, s, x, end) ==
  [i \in DOMAIN T |->
     IF i \in ActiveByStoreRef(T, s, x) THEN [T[i] EXCEPT !.exp = end] ELSE T[i]]

\* Faulty variant: no status in the WHERE clause.
CancelAnyByStoreRef(T, s, x) == SetStatus(T, ByStoreRef(T, s, x), "cancelled")

CancelByStoreRef(T, s, x) ==
  SetStatus(T, ActiveByStoreRef(T, s, x), "cancelled")

\* Any status matches: a cancelled row is revoked as well.
ExpireByStoreRef(T, s, x, time) ==
  [i \in DOMAIN T |->
     IF i \in ByStoreRef(T, s, x)
     THEN [T[i] EXCEPT !.status = "expired", !.exp = time]
     ELSE T[i]]

\* Faulty variant: only active rows lapse.
ExpireLapsedActive(T, time) ==
  SetStatus(T, {i \in Lapsed(T, time) : T[i].status = "active"}, "expired")

ExpireLapsedSubs(T, time) == SetStatus(T, Lapsed(T, time), "expired")

\* The store_transaction_id of the newest Stripe row of (user, plan), in any
\* status; None when there is no such row or it was never stamped.
FindLatestStripeForUserPlan(T, u, pl) ==
  LET M == Newest({i \in DOMAIN T : /\ T[i].user = u
                                    /\ T[i].plan = pl
                                    /\ T[i].store = "stripe"})
  IN  IF M = {} THEN None ELSE T[CHOOSE i \in M : TRUE].txn

(***************************************************************************)
(* What GET /subscription and the quota of POST /rewrite read: the newest  *)
(* active row (GetActiveSubWithPlan), whatever its expires_at.             *)
(***************************************************************************)
IsPro(T, u) == \E i \in Newest(ActiveOf(T, u)) : T[i].plan # FreePlan
=============================================================================
