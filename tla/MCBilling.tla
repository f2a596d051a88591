------------------------------- MODULE MCBilling -------------------------------
(***************************************************************************)
(* Instances of Billing: who buys what, how, and with which traffic.       *)
(***************************************************************************)
EXTENDS BillingProps, TLC

CONSTANTS u1, u2, p1, p2, a1, a2, month, year, w1, w2

OneOwner  == [x \in Purchases |-> u1]
TwoOwners == [x \in Purchases |-> IF x \in {p2, a2} THEN u2 ELSE u1]

Bought(m) == [x \in Purchases |-> IF x \in AppleTxns THEN "apple_iap" ELSE m]
AllStripe == Bought("stripe")
AllLS     == Bought("lemonsqueezy")
StripeAndLS ==
  [x \in Purchases |-> IF x \in AppleTxns THEN "apple_iap"
                       ELSE IF x = p2 THEN "lemonsqueezy" ELSE "stripe"]
StripeAndPayPal ==
  [x \in Purchases |-> IF x \in AppleTxns THEN "apple_iap"
                       ELSE IF x = p2 THEN "paypal" ELSE "stripe"]
StripeAndWallet ==
  [x \in Purchases |-> IF x \in AppleTxns THEN "apple_iap"
                       ELSE IF x = p2 THEN "apple_pay" ELSE "stripe"]

SamePlan == [x \in Purchases |-> month]
\* The second buyer chose the monthly plan and is billed yearly.
AllYearly    == [x \in Purchases |-> year]
SwitchedPlan == [x \in Purchases |-> IF x = p2 THEN year ELSE month]

Periods == [pl \in Plans |-> IF pl = year THEN 2 ELSE 1]

WorkerSymmetry == Permutations(Workers)
=============================================================================
