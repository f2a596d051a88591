CONSTANTS
  u1 = u1  u2 = u2  p1 = p1  p2 = p2  a1 = a1  a2 = a2
  month = month  year = year  w1 = w1  w2 = w2
  Users = {u1, u2}  Payments = {p1, p2}  AppleTxns = {}
  Plans = {month, year}  FreePlan = FreePlan  None = None
  Owner <- TwoOwners  Method <- StripeAndLS  PlanOf <- SamePlan  BilledPlan <- SwitchedPlan  Period <- Periods
  Workers = {w1, w2}
  Traffic = {"checkout", "completed", "success", "usercancel", "cancelled", "grant", "confirm", "free"}
  MaxTime = 0  MaxSubs = 3  MaxAborts = 0
SPECIFICATION Spec
SYMMETRY WorkerSymmetry
INVARIANTS TxnStaysWithOwner 
CHECK_DEADLOCK FALSE
