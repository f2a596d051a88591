--------------------------------- MODULE Ledger ---------------------------------
(***************************************************************************)
(* The admin dashboard (package adminstats) over the tables of plans and   *)
(* subscriptions: GET /admin/analytics reads the active rows by plan, then *)
(* three sums for each of the last months, then the plans, each with a     *)
(* statement of its own while grants, renewals, cancellations and new      *)
(* prices go on.  Months are computed from the date the request came in.   *)
(***************************************************************************)
EXTENDS Serving, Sequences, FiniteSetsExt

CONSTANTS
  Months,            \* how many months the report spans
  FirstMenu,         \* plans at the start, by created_at: [name, price, period]
  FirstGrants,       \* subscriptions at the start: [plan, status, started, updated]
  FirstDate, LastDate,
  MenuBodies,        \* what PATCH /admin/plans/{id} may write
  MaxGrants

Dates   == [year : Int, month : 1..12]
Ordinal(d) == 12 * d.year + d.month

\* A plan has a price, which PATCH takes as it comes; a subscription began by now.
MenuRow(row) == DOMAIN row = {"name", "price", "period"} /\ row.price \in Int
GrantRow(plans, now) ==
  [plan : plans, status : {"active", "cancelled", "expired"}, updated : Dates,
   started : {d \in Dates : Ordinal(d) <= Ordinal(now)}]

ASSUME LedgerAssumption ==
  /\ Months \in Nat \ {0} /\ MaxGrants \in Nat /\ FirstDate \in Dates
  /\ Len(FirstMenu) \in Nat /\ DOMAIN FirstMenu = 1..Len(FirstMenu)
  /\ \A p \in DOMAIN FirstMenu : MenuRow(FirstMenu[p])
  /\ FirstGrants \in Seq(GrantRow(DOMAIN FirstMenu, FirstDate))
  /\ \A b \in MenuBodies : "price" \in DOMAIN b => b.price \in Int

VARIABLES
  today,        \* [year, month]
  menu, granted,
  dashboard,    \* observer: the last answer, NoRow once a row is written
  quiet         \* observer: the requests that saw no row written so far

ledgerVars == <<today, menu, granted, dashboard, quiet>>

-----------------------------------------------------------------------------
(* Dates.                                                                  *)

\* Faulty variant: the month wraps and the year stays.
DateInYear(y, m) == [year |-> y, month |-> ((m - 1) % 12) + 1]

\* time.Date normalizes a month out of range.
Date(y, m) == [year |-> y + ((m - 1) \div 12), month |-> ((m - 1) % 12) + 1]

Start(d, back) == Date(d.year, d.month - back)
Window(d, back) ==
  LET start == Start(d, back)
      end   == Date(start.year, start.month + 1)
  IN  Ordinal(start)..(Ordinal(end) - 1)

-----------------------------------------------------------------------------
(* Statements.                                                             *)

SumOf(values) == MapThenSumSet(LAMBDA x : values[x], DOMAIN values)

Active == {s \in DOMAIN granted : granted[s].status = "active"}
Bill(s) == menu[granted[s].plan]

\* GROUP BY name and price: two plans with the same are one line.
PlansBreakdown ==
  LET lines == {[name |-> Bill(s).name, price |-> Bill(s).price] : s \in Active}
  IN  {[line |-> l, count |-> Cardinality({s \in Active : Bill(s).name = l.name /\ Bill(s).price = l.price})] :
         l \in lines}

NewIn(w) == {s \in DOMAIN granted : Ordinal(granted[s].started) \in w}
CountNewSubsInWindow(w) == Cardinality(NewIn(w))

\* The plan's price of today, whatever was paid and whether.
SumRevenueInWindow(w) == SumOf([s \in NewIn(w) |-> Bill(s).price])

CountChurnedInWindow(w) ==
  Cardinality({s \in DOMAIN granted : granted[s].status # "active" /\ Ordinal(granted[s].updated) \in w})

-----------------------------------------------------------------------------
(* GET /admin/analytics.                                                   *)

Reading(w, pc) == At(w, pc) /\ UNCHANGED <<today, menu, granted>>
Adds(w, field, n, pc) ==
  /\ Goto(w, [work[w] EXCEPT ![field] = @ + n, !.pc = pc])
  /\ UNCHANGED <<dashboard, quiet>>
Span(w) == Window(work[w].asof, work[w].back)

\* The clock is read once.  least is no part of the request: the rows of its
\* span so far.  Reports touch nothing and each other even less: one at a time.
Analytics(w) ==
  /\ Busy = {}
  /\ Begin(w, "dashboard", [pc |-> "new", asof |-> today, back |-> Months - 1, lines |-> PlansBreakdown,
                            new |-> 0, revenue |-> 0, churned |-> 0,
                            least |-> Cardinality({s \in DOMAIN granted :
                                        Ordinal(granted[s].started) > Ordinal(today) - Months})])
  /\ quiet' = quiet \cup {w}
  /\ UNCHANGED <<today, menu, granted, dashboard>>

NewSubs(w) == Reading(w, "new") /\ Adds(w, "new", CountNewSubsInWindow(Span(w)), "revenue")
Revenue(w) == Reading(w, "revenue") /\ Adds(w, "revenue", SumRevenueInWindow(Span(w)), "churned")
Churned(w) ==
  /\ Reading(w, "churned")
  /\ Goto(w, [work[w] EXCEPT !.churned = @ + CountChurnedInWindow(Span(w)),
                             !.pc = IF work[w].back = 0 THEN "plans" ELSE "new",
                             !.back = IF @ = 0 THEN 0 ELSE @ - 1])
  /\ UNCHANGED <<dashboard, quiet>>

\* The first plan of that name, by created_at.
FindPlan(name) == {p \in DOMAIN menu : menu[p].name = name /\ \A q \in 1..(p - 1) : menu[q].name # name}

Rounded(n, d) == (2 * n + d) \div (2 * d)

MonthlyPrice(p) ==
  CASE p.period = "monthly" -> p.price
    [] p.period = "yearly"  -> Rounded(p.price, 12)
    [] OTHER                -> 0

Mrr(lines) ==
  SumOf([l \in lines |-> l.count * SumOf([p \in FindPlan(l.line.name) |-> MonthlyPrice(menu[p])])])

ListPlans(w) ==
  /\ Reading(w, "plans")
  /\ LET t == work[w]
     IN  dashboard' = [asof |-> t.asof, new |-> t.new, revenue |-> t.revenue, churned |-> t.churned,
                       mrr |-> Mrr(t.lines), active |-> SumOf([l \in t.lines |-> l.count]),
                       least |-> t.least, quiet |-> w \in quiet]
  /\ Finish(w) /\ quiet' = quiet \ {w}

-----------------------------------------------------------------------------
(* What goes on meanwhile.                                                 *)

Recorded == dashboard' = NoRow /\ quiet' = {}

\* A grant to somebody new.
Grant(p) ==
  /\ Served("grant") /\ Len(granted) < MaxGrants
  /\ granted' = Append(granted, [plan |-> p, status |-> "active", started |-> today, updated |-> today])
  /\ Recorded /\ UNCHANGED <<today, menu>>

\* Cancelled, or expired by a refund or the daily job, cancelled or not.
Churn(s, status) ==
  /\ Served("churn") /\ status # granted[s].status /\ granted[s].status # "expired"
  /\ granted' = [granted EXCEPT ![s].status = status, ![s].updated = today]
  /\ Recorded /\ UNCHANGED <<today, menu>>

PatchMenu(p, b) ==
  /\ Served("menu")
  /\ menu' = [menu EXCEPT ![p] = [f \in DOMAIN @ |-> IF f \in DOMAIN b THEN b[f] ELSE @[f]]]
  /\ Recorded /\ UNCHANGED <<today, granted>>

NextMonth ==
  /\ "dashboard" \in ops /\ Ordinal(today) < Ordinal(LastDate)
  /\ today' = Date(today.year, today.month + 1)
  /\ UNCHANGED <<servingVars, menu, granted, dashboard, quiet>>

LedgerAbort(w) == Abort(w) /\ quiet' = quiet \ {w} /\ UNCHANGED <<today, menu, granted, dashboard>>

-----------------------------------------------------------------------------
LedgerInit ==
  /\ today = FirstDate /\ menu = FirstMenu /\ granted = FirstGrants
  /\ dashboard = NoRow /\ quiet = {}

LedgerNext ==
  \/ \E w \in Workers : Analytics(w) \/ NewSubs(w) \/ Revenue(w) \/ Churned(w) \/ ListPlans(w) \/ LedgerAbort(w)
  \/ \E p \in DOMAIN menu : Grant(p) \/ \E b \in MenuBodies : PatchMenu(p, b)
  \/ \E s \in DOMAIN granted, status \in {"cancelled", "expired"} : Churn(s, status)
  \/ NextMonth
=============================================================================
