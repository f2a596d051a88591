------------------------------- MODULE LedgerProps -------------------------------
(* What the dashboard promises.                                            *)
EXTENDS Ledger

LedgerSpec == ServingInit /\ LedgerInit /\ [][LedgerNext]_<<servingVars, ledgerVars>>

\* Types; no subscription starts in a month that has not come, so that the last
\* months hold all of them (Writer.Grant).
LedgerTypeOK ==
  /\ today \in Dates
  /\ DOMAIN menu = DOMAIN FirstMenu /\ \A p \in DOMAIN menu : MenuRow(menu[p])
  /\ granted \in Seq(GrantRow(DOMAIN menu, today))
  /\ quiet \subseteq Workers

Reported(d) == (Ordinal(dashboard.asof) - Months + 1)..Ordinal(dashboard.asof)
NamesDiffer == \A p, q \in DOMAIN menu : menu[p].name = menu[q].name => p = q

\* The dashboard adds up.  The months of a report tile its span, across the
\* turn of a year and of the month it is read in, so that its new
\* subscriptions are all of that span, each once: at least those there when
\* it was asked for and at most those there when it is answered.  A report no
\* row was written during is exact: active rows, new ones at today's price,
\* those that ended, and, when no two plans share a name, the monthly revenue
\* (subscription/reader.go:331, adminstats/usecase.go:170).
DashboardAdds ==
  dashboard # NoRow =>
    LET span  == Reported(dashboard)
        new   == {s \in DOMAIN granted : Ordinal(granted[s].started) \in span}
        ended == {s \in DOMAIN granted : granted[s].status # "active" /\ Ordinal(granted[s].updated) \in span}
    IN  /\ dashboard.least <= dashboard.new /\ dashboard.new <= Cardinality(new)
        /\ dashboard.quiet =>
             /\ dashboard.active = Cardinality(Active)
             /\ dashboard.new = Cardinality(new)
             /\ dashboard.revenue = SumOf([s \in new |-> Bill(s).price])
             /\ dashboard.churned = Cardinality(ended)
             /\ NamesDiffer => dashboard.mrr = SumOf([s \in Active |-> MonthlyPrice(Bill(s))])
=============================================================================
