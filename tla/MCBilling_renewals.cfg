CONSTANTS
  u1 = u1  u2 = u2  p1 = p1  p2 = p2  a1 = a1  a2 = a2
  month = month  year = year  w1 = w1  w2 = w2
  Users = {u1}  Payments = {p1}  AppleTxns = {a1}
  Plans = {month, year}  FreePlan = FreePlan  None = None
  Owner <- OneOwner  Method <- AllLS  PlanOf <- SamePlan  BilledPlan <- AllYearly  Period <- Periods
  Workers = {w1}
  Traffic = {"success", "renew", "end", "cancelled", "expired", "apple", "redeem"}
  MaxTime = 2  MaxSubs = 2  MaxAborts = 1
SPECIFICATION FairSpec
INVARIANTS StampMatchesGrant
PROPERTIES NothingRevives LapsedIsExpired
