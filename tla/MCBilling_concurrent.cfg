CONSTANTS
  u1 = u1  u2 = u2  p1 = p1  p2 = p2  a1 = a1  a2 = a2
  month = month  year = year  w1 = w1  w2 = w2
  Users = {u1}  Payments = {p1, p2}  AppleTxns = {}
  Plans = {month, year}  FreePlan = FreePlan  None = None
  Owner <- OneOwner  Method <- StripeAndWallet  PlanOf <- SamePlan  BilledPlan <- SamePlan  Period <- Periods
  Workers = {w1, w2}
  Traffic = {"completed", "renewed", "cancelled", "confirm", "refund", "end"}
  MaxTime = 0  MaxSubs = 4  MaxAborts = 1
SPECIFICATION Spec
SYMMETRY WorkerSymmetry
INVARIANTS TypeOK GrantSupersedes GrantBacked
