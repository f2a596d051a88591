------------------------------ MODULE ReportProofs ------------------------------
(***************************************************************************)
(* What an admin is shown: the dashboard, the lists and the inbox, for any *)
(* tables, months, queries, limits and number of requests.                 *)
(*                                                                         *)
(* A report is invariant in two ways.  Whatever happens meanwhile, the     *)
(* months it has counted tile the part of its span it is past, so that it  *)
(* has at least the rows of those months that were there when it began     *)
(* (Bounded); while no row is written, each of its figures is that of the  *)
(* rows of its past months (Exact).  Its sums are those of SumTheorems.    *)
(*                                                                         *)
(* A list is invariant in what it has shown: while no row is written the   *)
(* pages so far are the beginning of the one order of its rows, and the    *)
(* offset of the next is where they end.  The inbox rests on a lemma about *)
(* merging: the newest rows of two sources are among the newest of each.   *)
(***************************************************************************)
EXTENDS LedgerProps, ListingProps, SumTheorems, FiniteSetTheorems, SequenceTheorems, TLAPS

(***************************************************************************)
(* Sums and dates.                                                         *)
(***************************************************************************)
LEMMA SumIs ==
  ASSUME NEW f, IsFiniteSet(DOMAIN f), \A x \in DOMAIN f : f[x] \in Int
  PROVE  SumOf(f) = Net(f, DOMAIN f)
<1> DEFINE S == DOMAIN f
           Recurs(any) == any = [T \in SUBSET S |-> IF T = {} THEN 0
                   ELSE f[CHOOSE x \in T : TRUE] + any[T \ {CHOOSE x \in T : TRUE}]]
           sum == CHOOSE any : Recurs(any)
<1>1. \A any : Recurs(any) <=> Summed(any, f, S)
  BY DEF Summed
<1>2. Recurs(sum)
  <2>1. Summed([T \in SUBSET S |-> Net(f, T)], f, S)
    <3>1. IsFiniteSet(S) /\ \A x \in S : f[x] \in Int
      OBVIOUS
    <3> HIDE DEF S
    <3> QED
      BY <3>1, NetSolves
  <2>2. \E any : Recurs(any)
    <3> HIDE DEF Recurs
    <3> QED
      BY <1>1, <2>1
  <2> HIDE DEF Recurs
  <2> QED
    BY <2>2
<1>3. sum[S] = Net(f, S)
  <2>1. Summed(sum, f, S)
    BY <1>1, <1>2
  <2> HIDE DEF S, sum
  <2> QED
    BY <2>1, SummedIsNet DEF S
<1> QED
  BY <1>3 DEF SumOf, MapThenSumSet, MapThenFoldSet

\* Whatever the month is, time.Date finds the date of that ordinal.
LEMMA OrdinalOfDate ==
  ASSUME NEW y \in Int, NEW m \in Int
  PROVE  Date(y, m) \in Dates /\ Ordinal(Date(y, m)) = 12 * y + m
<1> DEFINE q == (m - 1) \div 12
           r == (m - 1) % 12
<1>1. q \in Int /\ r \in 0..11 /\ m - 1 = 12 * q + r
  OBVIOUS
<1>2. Date(y, m) = [year |-> y + q, month |-> r + 1]
  BY DEF Date
<1> HIDE DEF q, r
<1>3. y + q \in Int /\ r + 1 \in 1..12 /\ 12 * (y + q) + (r + 1) = 12 * y + m
  BY <1>1
<1> QED
  BY <1>2, <1>3 DEF Dates, Ordinal

\* A window is one month.
LEMMA OneMonth ==
  ASSUME NEW d \in Dates, NEW back \in Nat
  PROVE  Window(d, back) = {Ordinal(d) - back}
<1> DEFINE start == Start(d, back)
           end == Date(start.year, start.month + 1)
<1>1. d.year \in Int /\ d.month \in Int /\ Ordinal(d) = 12 * d.year + d.month
  BY DEF Dates, Ordinal
<1>2. start \in Dates /\ Ordinal(start) = Ordinal(d) - back
  <2>1. d.month - back \in Int
    BY <1>1
  <2>2. start \in Dates /\ Ordinal(start) = 12 * d.year + (d.month - back)
    BY <1>1, <2>1, OrdinalOfDate DEF Start
  <2> QED
    BY <1>1, <2>2
<1> HIDE DEF start
<1>3. start.year \in Int /\ start.month \in Int /\ start.month + 1 \in Int
      /\ Ordinal(start) = 12 * start.year + start.month
  BY <1>2 DEF Dates, Ordinal
<1>4. Ordinal(end) = 12 * start.year + (start.month + 1)
  BY <1>3, OrdinalOfDate
<1> HIDE DEF end
<1>5. Ordinal(d) - back \in Int /\ Ordinal(start) = Ordinal(d) - back /\ Ordinal(end) - 1 = Ordinal(d) - back
  BY <1>1, <1>2, <1>3, <1>4
<1>6. Window(d, back) = Ordinal(start)..(Ordinal(end) - 1)
  BY DEF Window, start, end
<1>7. \A n \in Int : n..n = {n}
  OBVIOUS
<1> QED
  BY <1>5, <1>6, <1>7

-----------------------------------------------------------------------------
(***************************************************************************)
(* The statements of the report.                                           *)
(***************************************************************************)
\* What a row of a subscription is worth to the report.
Prices  == [s \in DOMAIN granted |-> Bill(s).price]
Monthly == [s \in DOMAIN granted |-> MonthlyPrice(Bill(s))]
EndedIn(w) == {s \in DOMAIN granted : granted[s].status # "active" /\ Ordinal(granted[s].updated) \in w}

LEMMA OrdinalIsInt == ASSUME NEW d \in Dates PROVE Ordinal(d) \in Int
  BY DEF Dates, Ordinal

LEMMA MonthlyIsInt == ASSUME NEW p, MenuRow(p) PROVE MonthlyPrice(p) \in Int
<1>1. p.price \in Int
  BY DEF MenuRow
<1>2. Rounded(p.price, 12) \in Int
  <2>1. \A n \in Int : (2 * n + 12) \div 24 \in Int
    OBVIOUS
  <2>2. Rounded(p.price, 12) = (2 * p.price + 12) \div 24
    BY <1>1 DEF Rounded
  <2> QED
    BY <1>1, <2>1, <2>2
<1> QED
  BY <1>1, <1>2 DEF MonthlyPrice

LEMMA RowsAre ==
  ASSUME LedgerTypeOK
  PROVE  /\ Len(granted) \in Nat /\ DOMAIN granted = 1..Len(granted) /\ IsFiniteSet(DOMAIN granted)
         /\ \A s \in DOMAIN granted :
              /\ granted[s] \in GrantRow(DOMAIN menu, today)
              /\ granted[s].plan \in DOMAIN menu
              /\ granted[s].started \in Dates /\ Ordinal(granted[s].started) \in Int
              /\ Ordinal(granted[s].updated) \in Int
              /\ Ordinal(granted[s].started) <= Ordinal(today)
              /\ Prices[s] \in Int /\ Monthly[s] \in Int
         /\ Ordinal(today) \in Int
<1>1. /\ Len(granted) \in Nat /\ DOMAIN granted = 1..Len(granted)
      /\ \A s \in DOMAIN granted : granted[s] \in GrantRow(DOMAIN menu, today)
  <2>1. granted \in Seq(GrantRow(DOMAIN menu, today))
    BY DEF LedgerTypeOK
  <2> QED
    BY <2>1
<1>2. IsFiniteSet(DOMAIN granted)
  BY <1>1, FS_Interval
<1>3. \A s \in DOMAIN granted :
        /\ granted[s].plan \in DOMAIN menu /\ granted[s].updated \in Dates
        /\ granted[s].started \in Dates /\ Ordinal(granted[s].started) <= Ordinal(today)
  BY <1>1 DEF GrantRow
<1>4. \A s \in DOMAIN granted : MenuRow(Bill(s))
  BY <1>3 DEF LedgerTypeOK, Bill
<1>5. \A s \in DOMAIN granted : Prices[s] \in Int
  BY <1>4 DEF Prices, MenuRow
<1>6. \A s \in DOMAIN granted : Monthly[s] \in Int
  BY <1>4, MonthlyIsInt DEF Monthly
<1>7. today \in Dates
  BY DEF LedgerTypeOK
<1> QED
  BY <1>1, <1>2, <1>3, <1>5, <1>6, <1>7, OrdinalIsInt

\* The sums of the statements.
LEMMA RevenueIs ==
  ASSUME LedgerTypeOK, NEW S \in SUBSET DOMAIN granted
  PROVE  SumOf([s \in S |-> Bill(s).price]) = Net(Prices, S) /\ Net(Prices, S) \in Int
<1> DEFINE f == [s \in S |-> Bill(s).price]
<1>1. IsFiniteSet(S) /\ \A s \in S : Prices[s] \in Int
  BY RowsAre, FS_Subset
<1>2. DOMAIN f = S /\ \A s \in S : f[s] = Prices[s]
  BY DEF Prices
<1> HIDE DEF f
<1>3. SumOf(f) = Net(f, S)
  BY <1>1, <1>2, SumIs
<1>4. Net(f, S) = Net(Prices, S)
  BY <1>2, NetSame
<1>5. Net(Prices, S) \in Int
  BY <1>1, NetParts
<1> QED
  BY <1>3, <1>4, <1>5 DEF f

LEMMA MonthlyIs ==
  ASSUME LedgerTypeOK
  PROVE  SumOf([s \in Active |-> MonthlyPrice(Bill(s))]) = Net(Monthly, Active)
<1> DEFINE f == [s \in Active |-> MonthlyPrice(Bill(s))]
<1>1. Active \subseteq DOMAIN granted
  BY DEF Active
<1>2. IsFiniteSet(Active) /\ \A s \in Active : Monthly[s] \in Int
  BY <1>1, RowsAre, FS_Subset
<1>3. DOMAIN f = Active /\ \A s \in Active : f[s] = Monthly[s]
  BY <1>1 DEF Monthly
<1> HIDE DEF f
<1>4. SumOf(f) = Net(f, Active)
  BY <1>2, <1>3, SumIs
<1>5. Net(f, Active) = Net(Monthly, Active)
  BY <1>3, NetSame
<1> QED
  BY <1>4, <1>5 DEF f

\* The lines are the groups of the active rows.
LEMMA LinesAre ==
  ASSUME LedgerTypeOK
  PROVE  \E key : /\ PlansBreakdown = KeysOf(Active, key)
                  /\ \A s \in Active : key[s].line.name = Bill(s).name
                  /\ \A l \in PlansBreakdown : /\ l.count = Cardinality(HavingKey(Active, key, l))
                                               /\ l.count \in Nat
<1> DEFINE line(s) == [name |-> Bill(s).name, price |-> Bill(s).price]
           same(l) == {s \in Active : Bill(s).name = l.name /\ Bill(s).price = l.price}
           row(l) == [line |-> l, count |-> Cardinality(same(l))]
           key == [s \in Active |-> row(line(s))]
<1>1. PlansBreakdown = KeysOf(Active, key)
  <2>1. PlansBreakdown = {row(l) : l \in {line(s) : s \in Active}}
    BY DEF PlansBreakdown
  <2> QED
    BY <2>1, ZenonT(60) DEF KeysOf
<1>2. \A s \in Active : key[s].line = line(s) /\ key[s].count = Cardinality(same(line(s)))
  OBVIOUS
<1>3. \A r, s \in Active : key[s] = key[r] <=> s \in same(line(r))
  <2> SUFFICES ASSUME NEW r \in Active, NEW s \in Active PROVE key[s] = key[r] <=> s \in same(line(r))
    OBVIOUS
  <2>1. s \in same(line(r)) <=> line(s) = line(r)
    OBVIOUS
  <2>2. key[s] = key[r] <=> line(s) = line(r)
    BY <1>2
  <2> QED
    BY <2>1, <2>2
<1>4. ASSUME NEW r \in Active PROVE HavingKey(Active, key, key[r]) = same(line(r))
  <2>1. same(line(r)) \subseteq Active
    OBVIOUS
  <2> HIDE DEF key, line, same
  <2> QED
    BY <1>3, <2>1 DEF HavingKey
<1>5. \A l : IsFiniteSet(same(l)) /\ Cardinality(same(l)) \in Nat
  <2>1. Active \subseteq DOMAIN granted
    BY DEF Active
  <2>2. IsFiniteSet(Active)
    BY <2>1, RowsAre, FS_Subset
  <2> QED
    BY <2>2, FS_Subset, FS_CardinalityType
<1>6. \A s \in Active : key[s].line.name = Bill(s).name
  BY <1>2
<1> HIDE DEF key, same, line
<1>7. \A l \in PlansBreakdown : l.count = Cardinality(HavingKey(Active, key, l)) /\ l.count \in Nat
  <2> SUFFICES ASSUME NEW r \in Active
               PROVE  key[r].count = Cardinality(HavingKey(Active, key, key[r])) /\ key[r].count \in Nat
    BY <1>1 DEF KeysOf
  <2> QED
    BY <1>2, <1>4, <1>5
<1> QED
  BY <1>1, <1>6, <1>7

\* Every active row is in one line, whose count adds one for it.
LEMMA LinesCountActive ==
  ASSUME LedgerTypeOK
  PROVE  SumOf([l \in PlansBreakdown |-> l.count]) = Cardinality(Active)
<1> DEFINE K == PlansBreakdown
           f == [l \in K |-> l.count]
           v == [l \in K |-> 1]
           g == [s \in Active |-> 1]
<1>1. PICK key : /\ K = KeysOf(Active, key)
                 /\ \A l \in K : l.count = Cardinality(HavingKey(Active, key, l)) /\ l.count \in Nat
  BY LinesAre
<1>2. IsFiniteSet(Active) /\ Cardinality(Active) \in Nat
  BY RowsAre, FS_Subset, FS_CardinalityType DEF Active
<1>3. /\ DOMAIN f = K /\ \A l \in K : f[l] = l.count /\ v[l] = 1
      /\ \A s \in Active : g[s] = 1
  OBVIOUS
<1> HIDE DEF K, f, v, g
<1>4. \A s \in Active : key[s] \in K
  BY <1>1 DEF KeysOf
<1>5. \A l \in K : f[l] = Cardinality(HavingKey(Active, key, l)) * v[l] /\ f[l] \in Int /\ v[l] \in Int
  <2>1. \A n \in Nat : n = n * 1
    OBVIOUS
  <2> QED
    BY <1>1, <1>3, <2>1
<1>6. \A s \in Active : g[s] = v[key[s]]
  BY <1>3, <1>4
<1>7. IsFiniteSet(K) /\ Net(f, K) = Net(g, Active)
  BY <1>1, <1>2, <1>5, <1>6, NetByGroups
<1>8. Net(g, Active) = Cardinality(Active) * 1
  BY <1>2, <1>3, NetOfEqual
<1>9. SumOf(f) = Net(f, K)
  BY <1>3, <1>5, <1>7, SumIs
<1>10. SumOf(f) = Cardinality(Active)
  BY <1>2, <1>7, <1>8, <1>9
<1> QED
  BY <1>10 DEF f, K

\* With no two plans of a name, a line finds its plan.
LEMMA FindsPlan ==
  ASSUME LedgerTypeOK, NamesDiffer, NEW s \in DOMAIN granted
  PROVE  SumOf([p \in FindPlan(Bill(s).name) |-> MonthlyPrice(menu[p])]) = Monthly[s]
<1> DEFINE q == granted[s].plan
           f == [p \in {q} |-> MonthlyPrice(menu[p])]
<1>1. q \in DOMAIN menu /\ Monthly[s] = MonthlyPrice(menu[q]) /\ Monthly[s] \in Int /\ Bill(s) = menu[q]
  BY RowsAre DEF Monthly, Bill
<1>2. FindPlan(Bill(s).name) = {q}
  <2>1. \A p \in DOMAIN menu : menu[p].name = menu[q].name <=> p = q
    BY <1>1 DEF NamesDiffer
  <2>2. DOMAIN menu = 1..Len(FirstMenu) /\ Len(FirstMenu) \in Nat
    BY LedgerAssumption DEF LedgerTypeOK
  <2>3. \A r \in 1..(q - 1) : r \in DOMAIN menu /\ r # q
    BY <1>1, <2>2
  <2> HIDE DEF q
  <2>4. FindPlan(menu[q].name) = {q}
    BY <1>1, <2>1, <2>3 DEF FindPlan
  <2> QED
    BY <1>1, <2>4
<1>3. IsFiniteSet({q}) /\ DOMAIN f = {q} /\ f[q] = Monthly[s]
  BY <1>1, FS_Singleton
<1> HIDE DEF f
<1>4. SumOf(f) = Net(f, {q})
  BY <1>1, <1>3, SumIs
<1>5. Net(f, {q}) = f[q]
  BY <1>1, <1>3, NetOfOne
<1> QED
  BY <1>2, <1>3, <1>4, <1>5 DEF f

LEMMA MrrIs ==
  ASSUME LedgerTypeOK, NamesDiffer
  PROVE  Mrr(PlansBreakdown) = Net(Monthly, Active)
<1> DEFINE K == PlansBreakdown
           each(l) == SumOf([p \in FindPlan(l.line.name) |-> MonthlyPrice(menu[p])])
           f == [l \in K |-> l.count * each(l)]
           v == [l \in K |-> each(l)]
<1>1. PICK key : /\ K = KeysOf(Active, key)
                 /\ \A s \in Active : key[s].line.name = Bill(s).name
                 /\ \A l \in K : l.count = Cardinality(HavingKey(Active, key, l)) /\ l.count \in Nat
  BY LinesAre
<1>2. IsFiniteSet(Active) /\ Active \subseteq DOMAIN granted /\ \A s \in Active : Monthly[s] \in Int
  BY RowsAre, FS_Subset DEF Active
<1>3. \A s \in Active : each(key[s]) = Monthly[s]
  BY <1>1, <1>2, FindsPlan
<1>4. Mrr(K) = SumOf(f)
  BY DEF Mrr
<1>5. DOMAIN f = K /\ \A l \in K : f[l] = l.count * v[l] /\ v[l] = each(l)
  OBVIOUS
<1> HIDE DEF each, f, v, K
<1>6. \A l \in K : v[l] \in Int /\ f[l] = Cardinality(HavingKey(Active, key, l)) * v[l]
  <2> SUFFICES ASSUME NEW s \in Active
               PROVE  /\ v[key[s]] \in Int
                      /\ f[key[s]] = Cardinality(HavingKey(Active, key, key[s])) * v[key[s]]
    BY <1>1 DEF KeysOf
  <2> QED
    BY <1>1, <1>2, <1>3, <1>5 DEF KeysOf
<1>7. \A s \in Active : Monthly[s] = v[key[s]]
  BY <1>1, <1>3, <1>5 DEF KeysOf
<1>8. \A l \in K : f[l] \in Int
  <2>1. \A n \in Nat : \A c \in Int : n * c \in Int
    OBVIOUS
  <2> QED
    BY <1>1, <1>5, <1>6, <2>1
<1>9. IsFiniteSet(K) /\ Net(f, K) = Net(Monthly, Active)
  <2>1. K = KeysOf(Active, key) /\ IsFiniteSet(Active)
    BY <1>1, <1>2
  <2>2. /\ \A l \in KeysOf(Active, key) : v[l] \in Int
        /\ \A l \in KeysOf(Active, key) : f[l] = Cardinality(HavingKey(Active, key, l)) * v[l]
    BY <1>6, <2>1
  <2> QED
    BY <1>7, <2>1, <2>2, NetByGroups
<1>10. SumOf(f) = Net(f, K)
  BY <1>5, <1>8, <1>9, SumIs
<1> QED
  BY <1>4, <1>9, <1>10 DEF K

-----------------------------------------------------------------------------
(***************************************************************************)
(* What a report has, and how a month adds to it.                          *)
(***************************************************************************)
ReportPcs    == {"new", "revenue", "churned", "plans"}
ReportFields == {"pc", "asof", "back", "lines", "new", "revenue", "churned", "least"}

Past(d, k)   == (Ordinal(d) - Months + 1)..(Ordinal(d) - k)
NewTill(t)   == IF t.pc = "new" THEN t.back + 1 ELSE t.back
PaidTill(t)  == IF t.pc \in {"new", "revenue"} THEN t.back + 1 ELSE t.back
EndedTill(t) == IF t.pc = "plans" THEN t.back ELSE t.back + 1
Early(n, w)  == {s \in 1..n : Ordinal(granted[s].started) \in w}

ReportTyped(t) ==
  /\ DOMAIN t = ReportFields
  /\ t.asof \in Dates /\ t.back \in 0..(Months - 1) /\ (t.pc = "plans" => t.back = 0)
  /\ t.new \in Int /\ t.churned \in Int /\ t.least \in Int /\ t.revenue \in Int

Bounded(t) ==
  /\ \E n \in 0..Len(granted) :
       /\ t.least = Cardinality(Early(n, Past(t.asof, 0)))
       /\ Cardinality(Early(n, Past(t.asof, NewTill(t)))) <= t.new
  /\ t.new <= Cardinality(NewIn(Past(t.asof, NewTill(t))))

Exact(t) ==
  /\ t.lines = PlansBreakdown
  /\ t.new = Cardinality(NewIn(Past(t.asof, NewTill(t))))
  /\ t.revenue = Net(Prices, NewIn(Past(t.asof, PaidTill(t))))
  /\ t.churned = Cardinality(EndedIn(Past(t.asof, EndedTill(t))))

Keeps(w) ==
  work[w].pc \in ReportPcs =>
    ReportTyped(work[w]) /\ Bounded(work[w]) /\ (w \in quiet => Exact(work[w]))

Told ==
  dashboard # NoRow =>
    LET span == Reported(dashboard)
    IN  /\ dashboard.asof \in Dates
        /\ dashboard.least <= dashboard.new /\ dashboard.new <= Cardinality(NewIn(span))
        /\ dashboard.quiet =>
             /\ dashboard.active = Cardinality(Active)
             /\ dashboard.new = Cardinality(NewIn(span))
             /\ dashboard.revenue = Net(Prices, NewIn(span))
             /\ dashboard.churned = Cardinality(EndedIn(span))
             /\ NamesDiffer => dashboard.mrr = Net(Monthly, Active)

LedgerInv ==
  /\ LedgerTypeOK /\ DOMAIN work = Workers
  /\ Told
  /\ \A w \in Workers : Keeps(w)

LEMMA MonthsAre == Months \in Nat /\ Months > 0
  BY LedgerAssumption

LEMMA MonthAdds ==
  ASSUME NEW d \in Dates, NEW back \in 0..(Months - 1)
  PROVE  Past(d, back) = Past(d, back + 1) \cup Window(d, back) /\ Past(d, back + 1) \cap Window(d, back) = {}
<1>1. Ordinal(d) \in Int /\ Months \in Nat /\ back \in Nat /\ back <= Months - 1
  BY OrdinalIsInt, MonthsAre
<1>2. Window(d, back) = {Ordinal(d) - back}
  BY <1>1, OneMonth
<1> QED
  BY <1>1, <1>2 DEF Past

LEMMA NoMonths == ASSUME NEW d \in Dates PROVE Past(d, Months) = {}
  BY OrdinalIsInt, MonthsAre DEF Past

LEMMA RowsSplit ==
  ASSUME LedgerTypeOK, NEW v, NEW w, v \cap w = {}
  PROVE  /\ NewIn(v \cup w) = NewIn(v) \cup NewIn(w) /\ NewIn(v) \cap NewIn(w) = {}
         /\ EndedIn(v \cup w) = EndedIn(v) \cup EndedIn(w) /\ EndedIn(v) \cap EndedIn(w) = {}
         /\ \A n \in 0..Len(granted) : /\ Early(n, v \cup w) = Early(n, v) \cup Early(n, w)
                                       /\ Early(n, w) \subseteq NewIn(w)
<1>1. DOMAIN granted = 1..Len(granted) /\ Len(granted) \in Nat
  BY RowsAre
<1>2. \A n \in 0..Len(granted) : 1..n \subseteq DOMAIN granted
  BY <1>1
<1>3. \A n \in 0..Len(granted) : Early(n, w) \subseteq NewIn(w)
  BY <1>2 DEF Early, NewIn
<1> QED
  BY <1>3 DEF Early, NewIn, EndedIn

LEMMA RowSetsFinite ==
  ASSUME LedgerTypeOK, NEW w
  PROVE  /\ IsFiniteSet(NewIn(w)) /\ Cardinality(NewIn(w)) \in Nat /\ NewIn(w) \subseteq DOMAIN granted
         /\ IsFiniteSet(EndedIn(w)) /\ Cardinality(EndedIn(w)) \in Nat
         /\ \A n \in 0..Len(granted) : IsFiniteSet(Early(n, w)) /\ Cardinality(Early(n, w)) \in Nat
         /\ Net(Prices, NewIn(w)) \in Int
<1>1. /\ IsFiniteSet(DOMAIN granted) /\ DOMAIN granted = 1..Len(granted) /\ Len(granted) \in Nat
      /\ \A s \in DOMAIN granted : Prices[s] \in Int
  BY RowsAre
<1>2. \A n \in 0..Len(granted) : Early(n, w) \subseteq DOMAIN granted
  BY <1>1 DEF Early
<1>3. NewIn(w) \subseteq DOMAIN granted /\ EndedIn(w) \subseteq DOMAIN granted
  BY DEF NewIn, EndedIn
<1>4. Net(Prices, NewIn(w)) \in Int
  BY <1>3, RevenueIs
<1> QED
  BY <1>1, <1>2, <1>3, <1>4, FS_Subset, FS_CardinalityType

\* The counts of two disjoint spans add up.
LEMMA CountsSplit ==
  ASSUME LedgerTypeOK, NEW v, NEW w, v \cap w = {}
  PROVE  /\ Cardinality(NewIn(v \cup w)) = Cardinality(NewIn(v)) + CountNewSubsInWindow(w)
         /\ Net(Prices, NewIn(v \cup w)) = Net(Prices, NewIn(v)) + SumRevenueInWindow(w)
         /\ Cardinality(EndedIn(v \cup w)) = Cardinality(EndedIn(v)) + CountChurnedInWindow(w)
         /\ \A n \in 0..Len(granted) :
              Cardinality(Early(n, v \cup w)) <= Cardinality(Early(n, v)) + CountNewSubsInWindow(w)
         /\ CountNewSubsInWindow(w) \in Nat /\ SumRevenueInWindow(w) \in Int /\ CountChurnedInWindow(w) \in Nat
<1>1. /\ CountNewSubsInWindow(w) = Cardinality(NewIn(w))
      /\ CountChurnedInWindow(w) = Cardinality(EndedIn(w))
      /\ SumRevenueInWindow(w) = Net(Prices, NewIn(w))
  BY RowSetsFinite, RevenueIs DEF CountNewSubsInWindow, CountChurnedInWindow, SumRevenueInWindow, EndedIn
<1>3. Cardinality(NewIn(v \cup w)) = Cardinality(NewIn(v)) + Cardinality(NewIn(w))
  <2>1. Cardinality(NewIn(v) \cup NewIn(w)) = Cardinality(NewIn(v)) + Cardinality(NewIn(w))
    BY RowsSplit, RowSetsFinite, CountOfBoth
  <2> QED
    BY <2>1, RowsSplit
<1>4. Cardinality(EndedIn(v \cup w)) = Cardinality(EndedIn(v)) + Cardinality(EndedIn(w))
  <2>1. Cardinality(EndedIn(v) \cup EndedIn(w)) = Cardinality(EndedIn(v)) + Cardinality(EndedIn(w))
    BY RowsSplit, RowSetsFinite, CountOfBoth
  <2> QED
    BY <2>1, RowsSplit
<1>5. Net(Prices, NewIn(v \cup w)) = Net(Prices, NewIn(v)) + Net(Prices, NewIn(w))
  <2>1. /\ IsFiniteSet(NewIn(v)) /\ IsFiniteSet(NewIn(w)) /\ NewIn(v) \cap NewIn(w) = {}
        /\ \A s \in NewIn(v) \cup NewIn(w) : Prices[s] \in Int
    BY RowsSplit, RowSetsFinite, RowsAre
  <2>2. Net(Prices, NewIn(v) \cup NewIn(w)) = Net(Prices, NewIn(v)) + Net(Prices, NewIn(w))
    BY <2>1, NetAdds
  <2> QED
    BY <2>2, RowsSplit
<1>6. ASSUME NEW n \in 0..Len(granted)
      PROVE  Cardinality(Early(n, v \cup w)) <= Cardinality(Early(n, v)) + Cardinality(NewIn(w))
  <2>1. /\ Early(n, v \cup w) = Early(n, v) \cup Early(n, w) /\ Early(n, w) \subseteq NewIn(w)
    BY RowsSplit
  <2>2. /\ IsFiniteSet(Early(n, v)) /\ IsFiniteSet(Early(n, w)) /\ IsFiniteSet(NewIn(w))
        /\ Cardinality(Early(n, v)) \in Nat /\ Cardinality(Early(n, w)) \in Nat /\ Cardinality(NewIn(w)) \in Nat
    BY RowSetsFinite
  <2>3. Cardinality(Early(n, w)) <= Cardinality(NewIn(w))
    BY <2>1, <2>2, FS_Subset
  <2>4. Early(n, v) \cap Early(n, w) = {}
    BY DEF Early
  <2>5. Cardinality(Early(n, v) \cup Early(n, w)) = Cardinality(Early(n, v)) + Cardinality(Early(n, w))
    BY <2>2, <2>4, CountOfBoth
  <2>6. Cardinality(Early(n, v \cup w)) = Cardinality(Early(n, v)) + Cardinality(Early(n, w))
    BY <2>1, <2>5
  <2> QED
    BY <2>2, <2>3, <2>6
<1> QED
  BY <1>1, <1>3, <1>4, <1>5, <1>6, RowSetsFinite

-----------------------------------------------------------------------------
(***************************************************************************)
(* Rows that did not move.                                                 *)
(***************************************************************************)
\* What a report says of the rows is as it was when no row moved.
LEMMA Unmoved ==
  ASSUME UNCHANGED <<menu, granted>>
  PROVE  /\ PlansBreakdown' = PlansBreakdown /\ Prices' = Prices /\ Monthly' = Monthly /\ Active' = Active
         /\ NamesDiffer' = NamesDiffer /\ Len(granted') = Len(granted)
         /\ \A w : NewIn(w)' = NewIn(w) /\ EndedIn(w)' = EndedIn(w)
         /\ \A n, w : Early(n, w)' = Early(n, w)
<1>1. Active' = Active
  BY DEF Active
<1> QED
  BY <1>1 DEF PlansBreakdown, Bill, Prices, Monthly, NamesDiffer, NewIn, EndedIn, Early


LEMMA HoldsStill ==
  ASSUME UNCHANGED <<menu, granted>>, NEW t
  PROVE  (Exact(t)' <=> Exact(t)) /\ (Bounded(t)' <=> Bounded(t)) /\ (ReportTyped(t)' <=> ReportTyped(t))
<1>1. Exact(t)' <=> Exact(t)
  BY Unmoved DEF Exact
<1>2. Bounded(t)' <=> Bounded(t)
  BY Unmoved DEF Bounded
<1> QED
  BY <1>1, <1>2 DEF ReportTyped

LEMMA OthersKeep ==
  ASSUME LedgerInv, UNCHANGED <<menu, granted>>,
         NEW w \in Workers, NEW task, work' = [work EXCEPT ![w] = task], quiet' \ {w} \subseteq quiet,
         task.pc \in ReportPcs => ReportTyped(task) /\ Bounded(task) /\ (w \in quiet' => Exact(task))
  PROVE  \A v \in Workers : Keeps(v)'
<1> SUFFICES ASSUME NEW v \in Workers, NEW t, t = work'[v], t.pc \in ReportPcs
             PROVE  ReportTyped(t)' /\ Bounded(t)' /\ (v \in quiet' => Exact(t)')
  BY DEF Keeps
<1>1. ReportTyped(t) /\ Bounded(t) /\ (v \in quiet' => Exact(t))
  <2>1. CASE v = w
    BY <2>1 DEF LedgerInv
  <2>2. CASE v # w
    <3>1. t = work[v] /\ (v \in quiet' => v \in quiet) /\ Keeps(v)
      BY <2>2 DEF LedgerInv
    <3> QED
      BY <3>1 DEF Keeps
  <2> QED
    BY <2>1, <2>2
<1> QED
  BY <1>1, HoldsStill

-----------------------------------------------------------------------------
(***************************************************************************)
(* What the steps of a report do to what it has.                           *)
(***************************************************************************)
NewSubsAdded(t, task) ==
  /\ DOMAIN task = ReportFields /\ task.pc = "revenue"
  /\ task.asof = t.asof /\ task.back = t.back /\ task.lines = t.lines /\ task.least = t.least
  /\ task.new = t.new + CountNewSubsInWindow(Window(t.asof, t.back)) /\ task.revenue = t.revenue /\ task.churned = t.churned

LEMMA NewSubsFields ==
  ASSUME NEW t, ReportTyped(t), NEW task,
         task = [t EXCEPT !["new"] = @ + CountNewSubsInWindow(Window(t.asof, t.back)), !.pc = "revenue"]
  PROVE  NewSubsAdded(t, task)
  BY DEF ReportTyped, ReportFields, NewSubsAdded

LEMMA NewSubsCounts ==
  ASSUME LedgerTypeOK, NEW t, ReportTyped(t), Bounded(t), t.pc = "new", NEW task,
         NewSubsAdded(t, task)
  PROVE  ReportTyped(task) /\ Bounded(task) /\ (Exact(t) => Exact(task))
<1> DEFINE more == Window(t.asof, t.back)
           past == Past(t.asof, t.back + 1)
           n == CountNewSubsInWindow(more)
<1>1. /\ DOMAIN t = ReportFields /\ t.asof \in Dates /\ t.back \in 0..(Months - 1)
      /\ t.new \in Int /\ t.churned \in Int /\ t.least \in Int /\ t.revenue \in Int
  BY DEF ReportTyped
<1>2. Past(t.asof, t.back) = past \cup more /\ past \cap more = {}
  BY <1>1, MonthAdds
<1>3. /\ Cardinality(NewIn(Past(t.asof, t.back))) = Cardinality(NewIn(past)) + n
      /\ \A m \in 0..Len(granted) : Cardinality(Early(m, Past(t.asof, t.back))) <= Cardinality(Early(m, past)) + n
      /\ n \in Nat
  <2> HIDE DEF more, past
  <2> QED
    BY <1>2, CountsSplit
<1>4. /\ Cardinality(NewIn(past)) \in Nat
      /\ \A m \in 0..Len(granted) : /\ Cardinality(Early(m, past)) \in Nat
                                    /\ Cardinality(Early(m, Past(t.asof, t.back))) \in Nat
  BY RowSetsFinite
<1> HIDE DEF more, n, past
<1>5. /\ DOMAIN task = ReportFields /\ task.pc = "revenue"
      /\ task.asof = t.asof /\ task.back = t.back /\ task.lines = t.lines /\ task.least = t.least
      /\ task.new = t.new + n /\ task.revenue = t.revenue /\ task.churned = t.churned
  BY DEF more, n, NewSubsAdded
<1>6. NewTill(t) = t.back + 1 /\ PaidTill(t) = t.back + 1 /\ EndedTill(t) = t.back + 1
  BY DEF NewTill, PaidTill, EndedTill
<1>7. NewTill(task) = t.back /\ PaidTill(task) = t.back + 1 /\ EndedTill(task) = t.back + 1
  BY <1>5 DEF NewTill, PaidTill, EndedTill
<1>8. ReportTyped(task)
  <2>1. t.new + n \in Int /\ task.pc # "plans"
    BY <1>1, <1>3, <1>5
  <2> QED
    BY <1>1, <1>5, <2>1 DEF ReportTyped
<1>9. Bounded(task)
  <2>1. PICK m \in 0..Len(granted) : /\ t.least = Cardinality(Early(m, Past(t.asof, 0)))
                                     /\ Cardinality(Early(m, past)) <= t.new
    BY <1>6 DEF Bounded, past
  <2>2. t.new <= Cardinality(NewIn(past))
    BY <1>6 DEF Bounded, past
  <2>3. Cardinality(Early(m, Past(t.asof, t.back))) <= t.new + n
    <3>1. \A a, b, c, d \in Int : a <= b + c /\ b <= d => a <= d + c
      OBVIOUS
    <3>2. /\ t.new \in Int /\ n \in Int
          /\ Cardinality(Early(m, past)) \in Int /\ Cardinality(Early(m, Past(t.asof, t.back))) \in Int
      BY <1>1, <1>3, <1>4
    <3>3. Cardinality(Early(m, Past(t.asof, t.back))) <= Cardinality(Early(m, past)) + n
      BY <1>3
    <3> QED
      BY <2>1, <3>1, <3>2, <3>3
  <2>4. t.new + n <= Cardinality(NewIn(Past(t.asof, t.back)))
    <3>1. \A a, b, c \in Int : a <= b => a + c <= b + c
      OBVIOUS
    <3>2. t.new \in Int /\ n \in Int /\ Cardinality(NewIn(past)) \in Int
      BY <1>1, <1>3, <1>4
    <3>3. t.new + n <= Cardinality(NewIn(past)) + n
      BY <2>2, <3>1, <3>2
    <3> QED
      BY <1>3, <3>3
  <2> QED
    BY <1>5, <1>7, <2>1, <2>3, <2>4 DEF Bounded
<1>10. ASSUME Exact(t) PROVE Exact(task)
  BY <1>10, <1>3, <1>5, <1>6, <1>7 DEF Exact, past
<1> QED
  BY <1>8, <1>9, <1>10

RevenueAdded(t, task) ==
  /\ DOMAIN task = ReportFields /\ task.pc = "churned"
  /\ task.asof = t.asof /\ task.back = t.back /\ task.lines = t.lines /\ task.least = t.least
  /\ task.new = t.new /\ task.revenue = t.revenue + SumRevenueInWindow(Window(t.asof, t.back)) /\ task.churned = t.churned

LEMMA RevenueFields ==
  ASSUME NEW t, ReportTyped(t), NEW task,
         task = [t EXCEPT !["revenue"] = @ + SumRevenueInWindow(Window(t.asof, t.back)), !.pc = "churned"]
  PROVE  RevenueAdded(t, task)
  BY DEF ReportTyped, ReportFields, RevenueAdded

LEMMA RevenueCounts ==
  ASSUME LedgerTypeOK, NEW t, ReportTyped(t), Bounded(t), t.pc = "revenue", NEW task,
         RevenueAdded(t, task)
  PROVE  ReportTyped(task) /\ Bounded(task) /\ (Exact(t) => Exact(task))
<1> DEFINE more == Window(t.asof, t.back)
           past == Past(t.asof, t.back + 1)
           n == SumRevenueInWindow(more)
<1>1. /\ DOMAIN t = ReportFields /\ t.asof \in Dates /\ t.back \in 0..(Months - 1)
      /\ t.new \in Int /\ t.churned \in Int /\ t.least \in Int /\ t.revenue \in Int
  BY DEF ReportTyped
<1>2. Past(t.asof, t.back) = past \cup more /\ past \cap more = {}
  BY <1>1, MonthAdds
<1>3. Net(Prices, NewIn(Past(t.asof, t.back))) = Net(Prices, NewIn(past)) + n /\ n \in Int
  <2> HIDE DEF more, past
  <2> QED
    BY <1>2, CountsSplit
<1> HIDE DEF more, n, past
<1>4. /\ DOMAIN task = ReportFields /\ task.pc = "churned"
      /\ task.asof = t.asof /\ task.back = t.back /\ task.lines = t.lines /\ task.least = t.least
      /\ task.new = t.new /\ task.revenue = t.revenue + n /\ task.churned = t.churned
  BY DEF more, n, RevenueAdded
<1>5. NewTill(t) = t.back /\ PaidTill(t) = t.back + 1 /\ EndedTill(t) = t.back + 1
  BY DEF NewTill, PaidTill, EndedTill
<1>6. NewTill(task) = t.back /\ PaidTill(task) = t.back /\ EndedTill(task) = t.back + 1
  BY <1>4 DEF NewTill, PaidTill, EndedTill
<1>7. ReportTyped(task)
  <2>1. t.revenue + n \in Int /\ task.pc # "plans"
    BY <1>1, <1>3, <1>4
  <2> QED
    BY <1>1, <1>4, <2>1 DEF ReportTyped
<1>8. Bounded(task)
  BY <1>4, <1>5, <1>6 DEF Bounded
<1>9. ASSUME Exact(t) PROVE Exact(task)
  BY <1>9, <1>3, <1>4, <1>5, <1>6 DEF Exact, past
<1> QED
  BY <1>7, <1>8, <1>9

LEMMA ChurnedCounts ==
  ASSUME LedgerTypeOK, NEW t, ReportTyped(t), Bounded(t), t.pc = "churned", NEW task,
         task = [t EXCEPT !.churned = @ + CountChurnedInWindow(Window(t.asof, t.back)),
                          !.pc = IF t.back = 0 THEN "plans" ELSE "new",
                          !.back = IF @ = 0 THEN 0 ELSE @ - 1]
  PROVE  ReportTyped(task) /\ Bounded(task) /\ (Exact(t) => Exact(task))
<1> DEFINE more == Window(t.asof, t.back)
           past == Past(t.asof, t.back + 1)
           n == CountChurnedInWindow(more)
           pc == IF t.back = 0 THEN "plans" ELSE "new"
           back == IF t.back = 0 THEN 0 ELSE t.back - 1
<1>1. /\ DOMAIN t = ReportFields /\ t.asof \in Dates /\ t.back \in 0..(Months - 1) /\ Months \in Nat
      /\ t.new \in Int /\ t.churned \in Int /\ t.least \in Int /\ t.revenue \in Int
  BY MonthsAre DEF ReportTyped
<1>2. Past(t.asof, t.back) = past \cup more /\ past \cap more = {}
  BY <1>1, MonthAdds
<1>3. Cardinality(EndedIn(Past(t.asof, t.back))) = Cardinality(EndedIn(past)) + n /\ n \in Nat
  <2> HIDE DEF more, past
  <2> QED
    BY <1>2, CountsSplit
<1> HIDE DEF more, n, past, pc, back
<1>4. /\ DOMAIN task = ReportFields /\ task.pc = pc
      /\ task.asof = t.asof /\ task.back = back /\ task.lines = t.lines /\ task.least = t.least
      /\ task.new = t.new /\ task.revenue = t.revenue /\ task.churned = t.churned + n
  <2>1. task = [[[t EXCEPT !.churned = t.churned + n] EXCEPT !.pc = pc] EXCEPT !.back = back]
    BY <1>1 DEF more, n, pc, back, ReportFields
  <2> QED
    BY <1>1, <2>1 DEF ReportFields
<1>5. NewTill(t) = t.back /\ PaidTill(t) = t.back /\ EndedTill(t) = t.back + 1
  BY DEF NewTill, PaidTill, EndedTill
<1>6. /\ back \in 0..(Months - 1) /\ (pc = "plans" => back = 0)
      /\ NewTill(task) = t.back /\ PaidTill(task) = t.back /\ EndedTill(task) = t.back
  <2>1. CASE t.back = 0
    BY <1>1, <1>4, <2>1 DEF NewTill, PaidTill, EndedTill, pc, back
  <2>2. CASE t.back # 0
    <3>1. pc = "new" /\ back = t.back - 1 /\ back \in 0..(Months - 1) /\ back + 1 = t.back
      BY <1>1, <2>2 DEF pc, back
    <3> QED
      BY <1>4, <3>1 DEF NewTill, PaidTill, EndedTill
  <2> QED
    BY <2>1, <2>2
<1>7. ReportTyped(task)
  BY <1>1, <1>3, <1>4, <1>6 DEF ReportTyped
<1>8. Bounded(task)
  BY <1>4, <1>5, <1>6 DEF Bounded
<1>9. ASSUME Exact(t) PROVE Exact(task)
  BY <1>9, <1>3, <1>4, <1>5, <1>6 DEF Exact, past
<1> QED
  BY <1>7, <1>8, <1>9

\* A report that begins has nothing of its span yet.
LEMMA AnalyticsCounts ==
  ASSUME LedgerTypeOK, NEW t,
         t = [pc |-> "new", asof |-> today, back |-> Months - 1, lines |-> PlansBreakdown,
              new |-> 0, revenue |-> 0, churned |-> 0,
              least |-> Cardinality({s \in DOMAIN granted : Ordinal(granted[s].started) > Ordinal(today) - Months})]
  PROVE  ReportTyped(t) /\ Bounded(t) /\ Exact(t)
<1> DEFINE recent == {s \in DOMAIN granted : Ordinal(granted[s].started) > Ordinal(today) - Months}
           n == Len(granted)
<1>1. /\ today \in Dates /\ Ordinal(today) \in Int /\ Months \in Nat /\ Months > 0
      /\ DOMAIN granted = 1..n /\ n \in Nat
      /\ \A s \in DOMAIN granted : Ordinal(granted[s].started) \in Int /\ Ordinal(granted[s].started) <= Ordinal(today)
  BY RowsAre, MonthsAre DEF LedgerTypeOK
<1>2. recent = Early(n, Past(today, 0))
  <2>1. \A o \in Int : o \in Past(today, 0) <=> o > Ordinal(today) - Months /\ o <= Ordinal(today)
    BY <1>1 DEF Past
  <2> QED
    BY <1>1, <2>1 DEF Early
<1>3. n \in 0..Len(granted) /\ Cardinality(recent) \in Nat
  <2>1. n \in 0..n
    BY <1>1
  <2>2. \A w : Cardinality(Early(n, w)) \in Nat
    BY <2>1, RowSetsFinite
  <2> QED
    BY <1>2, <2>1, <2>2
<1> HIDE DEF recent, n
<1>4. /\ DOMAIN t = ReportFields /\ t.pc = "new" /\ t.asof = today /\ t.back = Months - 1
      /\ t.lines = PlansBreakdown /\ t.new = 0 /\ t.revenue = 0 /\ t.churned = 0
      /\ t.least = Cardinality(recent)
  BY DEF ReportFields, recent
<1>5. NewTill(t) = Months /\ PaidTill(t) = Months /\ EndedTill(t) = Months
  BY <1>1, <1>4 DEF NewTill, PaidTill, EndedTill
<1>6. Past(today, Months) = {}
  BY <1>1, NoMonths
<1>7. NewIn({}) = {} /\ EndedIn({}) = {} /\ Early(n, {}) = {} /\ Cardinality({}) = 0 /\ Net(Prices, {}) = 0
  BY FS_EmptySet, NetEmpty DEF NewIn, EndedIn, Early
<1>8. ReportTyped(t)
  BY <1>1, <1>3, <1>4 DEF ReportTyped
<1>9. Bounded(t)
  <2>1. t.least = Cardinality(Early(n, Past(t.asof, 0))) /\ Cardinality(Early(n, Past(t.asof, NewTill(t)))) <= t.new
    <3>1. Past(t.asof, NewTill(t)) = {} /\ Past(t.asof, 0) = Past(today, 0)
      BY <1>4, <1>5, <1>6
    <3>2. Cardinality(Early(n, {})) = 0
      BY <1>7
    <3>3. Cardinality(Early(n, {})) <= t.new
      BY <1>4, <3>2
    <3> QED
      BY <1>2, <1>4, <3>1, <3>3
  <2>2. t.new <= Cardinality(NewIn(Past(t.asof, NewTill(t))))
    BY <1>4, <1>5, <1>6, <1>7
  <2> QED
    BY <1>3, <2>1, <2>2 DEF Bounded
<1>10. Exact(t)
  BY <1>4, <1>5, <1>6, <1>7 DEF Exact
<1> QED
  BY <1>8, <1>9, <1>10

\* The answer tells what the report has.
LEMMA AnswerTells ==
  ASSUME LedgerTypeOK, NEW t, ReportTyped(t), Bounded(t), t.pc = "plans",
         NEW span, span = (Ordinal(t.asof) - Months + 1)..Ordinal(t.asof)
  PROVE  /\ t.asof \in Dates /\ t.least <= t.new /\ t.new <= Cardinality(NewIn(span))
         /\ Exact(t) => /\ SumOf([l \in t.lines |-> l.count]) = Cardinality(Active)
                        /\ t.new = Cardinality(NewIn(span))
                        /\ t.revenue = Net(Prices, NewIn(span))
                        /\ t.churned = Cardinality(EndedIn(span))
                        /\ NamesDiffer => Mrr(t.lines) = Net(Monthly, Active)
<1>1. t.asof \in Dates /\ t.back = 0 /\ Ordinal(t.asof) \in Int /\ Months \in Nat /\ t.new \in Int /\ t.least \in Int
  BY OrdinalIsInt, MonthsAre DEF ReportTyped
<1>2. Past(t.asof, 0) = span /\ NewTill(t) = 0 /\ PaidTill(t) = 0 /\ EndedTill(t) = 0
  BY <1>1 DEF Past, NewTill, PaidTill, EndedTill
<1>3. t.least <= t.new /\ t.new <= Cardinality(NewIn(span))
  BY <1>1, <1>2 DEF Bounded
<1>4. ASSUME Exact(t)
      PROVE  /\ t.lines = PlansBreakdown
             /\ t.new = Cardinality(NewIn(span))
             /\ t.revenue = Net(Prices, NewIn(span))
             /\ t.churned = Cardinality(EndedIn(span))
  BY <1>2, <1>4 DEF Exact
<1> QED
  BY <1>1, <1>3, <1>4, LinesCountActive, MrrIs

-----------------------------------------------------------------------------
(***************************************************************************)
(* The steps.                                                              *)
(***************************************************************************)
\* The observers of a step that writes no row.
LEMMA StaysTold ==
  ASSUME LedgerInv, UNCHANGED <<menu, granted, dashboard>>
  PROVE  Told'
<1>1. Told
  BY DEF LedgerInv
<1> QED
  BY <1>1, Unmoved DEF Told, Reported

LEMMA AllKeep ==
  ASSUME LedgerInv, UNCHANGED <<menu, granted, work>>, quiet' \subseteq quiet
  PROVE  \A v \in Workers : Keeps(v)'
<1> SUFFICES ASSUME NEW v \in Workers, NEW t, t = work'[v], t.pc \in ReportPcs
             PROVE  ReportTyped(t)' /\ Bounded(t)' /\ (v \in quiet' => Exact(t)')
  BY DEF Keeps
<1>1. t = work[v] /\ (v \in quiet' => v \in quiet) /\ Keeps(v)
  BY DEF LedgerInv
<1>2. ReportTyped(t) /\ Bounded(t) /\ (v \in quiet' => Exact(t))
  BY <1>1 DEF Keeps
<1> QED
  BY <1>2, HoldsStill

LEMMA StaysTyped ==
  ASSUME LedgerInv, UNCHANGED <<today, menu, granted>>, quiet' \subseteq Workers
  PROVE  LedgerTypeOK'
  BY DEF LedgerInv, LedgerTypeOK

\* A row written: the reports under way keep their bounds.
LEMMA RowsMove ==
  ASSUME LedgerInv, LedgerTypeOK', UNCHANGED work, quiet' = {}, dashboard' = NoRow,
         \A s \in DOMAIN granted : s \in DOMAIN granted' /\ granted'[s].started = granted[s].started
  PROVE  LedgerInv'
<1>1. DOMAIN granted = 1..Len(granted) /\ Len(granted) \in Nat
  BY RowsAre DEF LedgerInv
<1>2. DOMAIN granted' = 1..Len(granted') /\ Len(granted') \in Nat /\ IsFiniteSet(DOMAIN granted')
  <2>1. granted' \in Seq(GrantRow(DOMAIN menu', today'))
    BY DEF LedgerTypeOK, GrantRow
  <2>2. DOMAIN granted' = 1..Len(granted') /\ Len(granted') \in Nat
    BY <2>1
  <2>3. 0 \in Int /\ 1 \in Int /\ Len(granted') \in Int
    BY <2>2
  <2>4. IsFiniteSet(1..Len(granted'))
    BY <2>3, FS_Interval
  <2> QED
    BY <2>2, <2>4
<1>3. Len(granted) <= Len(granted')
  <2>1. CASE Len(granted) = 0
    BY <1>2, <2>1
  <2>2. CASE Len(granted) # 0
    <3>1. Len(granted) \in DOMAIN granted
      BY <1>1, <2>2
    <3> QED
      BY <1>2, <3>1
  <2> QED
    BY <2>1, <2>2
<1>4. ASSUME NEW w PROVE Cardinality(NewIn(w)) <= Cardinality(NewIn(w)') /\ Cardinality(NewIn(w)') \in Nat
  <2>1. NewIn(w) \subseteq NewIn(w)' /\ NewIn(w)' \subseteq DOMAIN granted'
    BY DEF NewIn
  <2> QED
    BY <1>2, <2>1, FS_Subset, FS_CardinalityType
<1>5. ASSUME NEW n \in 0..Len(granted), NEW w PROVE Early(n, w)' = Early(n, w)
  <2>1. 1..n \subseteq DOMAIN granted
    BY <1>1
  <2> QED
    BY <2>1 DEF Early
<1>6. \A v \in Workers : Keeps(v)'
  <2> SUFFICES ASSUME NEW v \in Workers, NEW t, t = work'[v], t.pc \in ReportPcs
               PROVE  ReportTyped(t)' /\ Bounded(t)'
    BY DEF Keeps
  <2>1. ReportTyped(t) /\ Bounded(t)
    BY DEF LedgerInv, Keeps
  <2>2. t.new \in Int /\ LedgerTypeOK
    BY <2>1 DEF ReportTyped, LedgerInv
  <2>3. PICK n \in 0..Len(granted) : /\ t.least = Cardinality(Early(n, Past(t.asof, 0)))
                                     /\ Cardinality(Early(n, Past(t.asof, NewTill(t)))) <= t.new
    BY <2>1 DEF Bounded
  <2>4. n \in 0..Len(granted')
    BY <1>1, <1>2, <1>3
  <2>5. /\ t.least = Cardinality(Early(n, Past(t.asof, 0))')
        /\ Cardinality(Early(n, Past(t.asof, NewTill(t)))') <= t.new
    BY <1>5, <2>3
  <2>6. t.new <= Cardinality(NewIn(Past(t.asof, NewTill(t)))')
    <3>1. t.new <= Cardinality(NewIn(Past(t.asof, NewTill(t))))
      BY <2>1 DEF Bounded
    <3>2. Cardinality(NewIn(Past(t.asof, NewTill(t)))) \in Nat
      BY <2>2, RowSetsFinite
    <3>3. \A a, b, c \in Int : a <= b /\ b <= c => a <= c
      OBVIOUS
    <3> QED
      BY <1>4, <2>2, <3>1, <3>2, <3>3
  <2>7. Bounded(t)'
    BY <2>4, <2>5, <2>6 DEF Bounded
  <2> QED
    BY <2>1, <2>7 DEF ReportTyped
<1>7. Told'
  BY DEF Told
<1> QED
  BY <1>6, <1>7 DEF LedgerInv

LEMMA GrantKeeps ==
  ASSUME LedgerInv, NEW p \in DOMAIN menu, Grant(p)
  PROVE  LedgerInv'
<1> DEFINE row == [plan |-> p, status |-> "active", started |-> today, updated |-> today]
<1>1. /\ granted' = Append(granted, row) /\ today' = today /\ menu' = menu
      /\ work' = work /\ quiet' = {} /\ dashboard' = NoRow
  BY DEF Grant, Served, Recorded
<1>2. /\ granted \in Seq(GrantRow(DOMAIN menu, today)) /\ today \in Dates /\ Ordinal(today) \in Int
      /\ \A s \in DOMAIN granted : s \in 1..Len(granted) /\ Len(granted) \in Nat
  BY RowsAre DEF LedgerInv, LedgerTypeOK
<1>3. row \in GrantRow(DOMAIN menu, today)
  BY <1>2 DEF GrantRow
<1> HIDE DEF row
<1>4. granted' \in Seq(GrantRow(DOMAIN menu, today))
  BY <1>1, <1>2, <1>3
<1>5. LedgerTypeOK'
  BY <1>1, <1>4 DEF LedgerInv, LedgerTypeOK, GrantRow
<1>6. \A s \in DOMAIN granted : s \in DOMAIN granted' /\ granted'[s] = granted[s]
  BY <1>1, <1>2
<1> QED
  BY <1>1, <1>5, <1>6, RowsMove

LEMMA ChurnKeeps ==
  ASSUME LedgerInv, NEW s \in DOMAIN granted, NEW status \in {"cancelled", "expired"}, Churn(s, status)
  PROVE  LedgerInv'
<1> DEFINE row == [[granted[s] EXCEPT !.status = status] EXCEPT !.updated = today]
<1>1. /\ today' = today /\ menu' = menu
      /\ work' = work /\ quiet' = {} /\ dashboard' = NoRow
  BY DEF Churn, Served, Recorded
<1>2. /\ granted \in Seq(GrantRow(DOMAIN menu, today)) /\ today \in Dates
      /\ granted[s] \in GrantRow(DOMAIN menu, today)
  BY RowsAre DEF LedgerInv, LedgerTypeOK
<1>3. granted' = [granted EXCEPT ![s] = row]
  BY <1>2 DEF Churn
<1>4. row \in GrantRow(DOMAIN menu, today) /\ row.started = granted[s].started
  BY <1>2 DEF GrantRow
<1> HIDE DEF row
<1>5. granted' \in Seq(GrantRow(DOMAIN menu, today))
  BY <1>2, <1>3, <1>4
<1>6. LedgerTypeOK'
  BY <1>1, <1>5 DEF LedgerInv, LedgerTypeOK, GrantRow
<1>7. \A r \in DOMAIN granted : r \in DOMAIN granted' /\ granted'[r].started = granted[r].started
  BY <1>3, <1>4
<1> QED
  BY <1>1, <1>6, <1>7, RowsMove

LEMMA PatchMenuKeeps ==
  ASSUME LedgerInv, NEW p \in DOMAIN menu, NEW b \in MenuBodies, PatchMenu(p, b)
  PROVE  LedgerInv'
<1> DEFINE row == [f \in DOMAIN menu[p] |-> IF f \in DOMAIN b THEN b[f] ELSE menu[p][f]]
<1>1. /\ menu' = [menu EXCEPT ![p] = row] /\ today' = today /\ granted' = granted
      /\ work' = work /\ quiet' = {} /\ dashboard' = NoRow
  BY DEF PatchMenu, Served, Recorded
<1>2. MenuRow(row)
  <2>1. MenuRow(menu[p]) /\ ("price" \in DOMAIN b => b["price"] \in Int)
    BY LedgerAssumption DEF LedgerInv, LedgerTypeOK
  <2> QED
    BY <2>1 DEF MenuRow
<1> HIDE DEF row
<1>3. LedgerTypeOK'
  <2>1. DOMAIN menu' = DOMAIN menu /\ \A q \in DOMAIN menu : menu'[q] = IF q = p THEN row ELSE menu[q]
    BY <1>1
  <2>2. \A q \in DOMAIN menu' : MenuRow(menu'[q])
    BY <1>2, <2>1 DEF LedgerInv, LedgerTypeOK
  <2> QED
    BY <1>1, <2>1, <2>2 DEF LedgerInv, LedgerTypeOK, MenuRow
<1> QED
  BY <1>1, <1>3, RowsMove

LEMMA NextMonthKeeps ==
  ASSUME LedgerInv, NextMonth
  PROVE  LedgerInv'
<1>1. /\ today' = Date(today.year, today.month + 1)
      /\ UNCHANGED <<menu, granted, work>> /\ dashboard' = dashboard /\ quiet' = quiet
  BY DEF NextMonth, servingVars
<1>2. today \in Dates /\ today.year \in Int /\ today.month \in Int /\ today.month + 1 \in Int
      /\ Ordinal(today) = 12 * today.year + today.month
  BY DEF LedgerInv, LedgerTypeOK, Dates, Ordinal
<1>3. today' \in Dates /\ Ordinal(today') = 12 * today.year + (today.month + 1)
  BY <1>1, <1>2, OrdinalOfDate
<1>4. Ordinal(today) \in Int /\ Ordinal(today) <= Ordinal(today')
  BY <1>2, <1>3
<1>5. GrantRow(DOMAIN menu, today) \subseteq GrantRow(DOMAIN menu, today')
  <2>1. \A d \in Dates : Ordinal(d) <= Ordinal(today) => Ordinal(d) <= Ordinal(today')
    <3>1. \A d \in Dates : Ordinal(d) \in Int
      BY OrdinalIsInt
    <3>2. Ordinal(today') \in Int
      BY <1>3, OrdinalIsInt
    <3>3. \A a, b, c \in Int : a <= b /\ b <= c => a <= c
      OBVIOUS
    <3> QED
      BY <1>4, <3>1, <3>2, <3>3
  <2> QED
    BY <2>1 DEF GrantRow
<1>6. granted' \in Seq(GrantRow(DOMAIN menu, today'))
  <2>1. granted \in Seq(GrantRow(DOMAIN menu, today))
    BY DEF LedgerInv, LedgerTypeOK
  <2> QED
    BY <1>1, <1>5, <2>1
<1>7. LedgerTypeOK'
  BY <1>1, <1>3, <1>6 DEF LedgerInv, LedgerTypeOK, GrantRow, MenuRow
<1> QED
  BY <1>1, <1>7, AllKeep, StaysTold DEF LedgerInv

\* A step of one report.
LEMMA ReportStep ==
  ASSUME LedgerInv, UNCHANGED <<today, menu, granted, dashboard>>,
         NEW w \in Workers, NEW task, work' = [work EXCEPT ![w] = task],
         quiet' \subseteq quiet \cup {w},
         task.pc \in ReportPcs => ReportTyped(task) /\ Bounded(task) /\ (w \in quiet' => Exact(task))
  PROVE  LedgerInv'
<1>1. LedgerTypeOK'
  <2>1. quiet' \subseteq Workers
    BY DEF LedgerInv, LedgerTypeOK
  <2> QED
    BY <2>1, StaysTyped
<1>2. DOMAIN work' = Workers
  BY DEF LedgerInv
<1>3. quiet' \ {w} \subseteq quiet
  OBVIOUS
<1>4. \A v \in Workers : Keeps(v)'
  BY <1>3, OthersKeep
<1> QED
  BY <1>1, <1>2, <1>4, StaysTold DEF LedgerInv

LEMMA WorkOf ==
  ASSUME LedgerInv, NEW w \in Workers, work[w].pc \in ReportPcs
  PROVE  /\ LedgerTypeOK
         /\ ReportTyped(work[w]) /\ Bounded(work[w]) /\ (w \in quiet => Exact(work[w]))
  BY DEF LedgerInv, Keeps

LEMMA AnalyticsKeeps ==
  ASSUME LedgerInv, NEW w \in Workers, Analytics(w)
  PROVE  LedgerInv'
<1> DEFINE t == [pc |-> "new", asof |-> today, back |-> Months - 1, lines |-> PlansBreakdown,
                 new |-> 0, revenue |-> 0, churned |-> 0,
                 least |-> Cardinality({s \in DOMAIN granted :
                             Ordinal(granted[s].started) > Ordinal(today) - Months})]
<1>1. /\ work' = [work EXCEPT ![w] = t] /\ quiet' = quiet \cup {w}
      /\ UNCHANGED <<today, menu, granted, dashboard>>
  BY DEF Analytics, Begin
<1>2. LedgerTypeOK
  BY DEF LedgerInv
<1>3. ReportTyped(t) /\ Bounded(t) /\ Exact(t)
  BY <1>2, AnalyticsCounts
<1> HIDE DEF t
<1> QED
  BY <1>1, <1>3, ReportStep

LEMMA NewSubsMore ==
  ASSUME LedgerTypeOK, NEW t, ReportTyped(t), Bounded(t), t.pc = "new", NEW task,
         task = [t EXCEPT !["new"] = @ + CountNewSubsInWindow(Window(t.asof, t.back)), !.pc = "revenue"]
  PROVE  ReportTyped(task) /\ Bounded(task) /\ (Exact(t) => Exact(task))
<1>1. NewSubsAdded(t, task)
  BY NewSubsFields
<1> QED
  BY <1>1, NewSubsCounts

LEMMA NewSubsKeeps ==
  ASSUME LedgerInv, NEW w \in Workers, NewSubs(w)
  PROVE  LedgerInv'
<1> DEFINE t == work[w]
           task == [t EXCEPT !["new"] = @ + CountNewSubsInWindow(Window(t.asof, t.back)), !.pc = "revenue"]
<1>1. /\ t.pc = "new" /\ UNCHANGED <<today, menu, granted, dashboard>> /\ quiet' = quiet
      /\ work' = [work EXCEPT ![w] = task]
  BY DEF NewSubs, Reading, Adds, At, Goto, Span
<1>2. /\ LedgerTypeOK /\ ReportTyped(t) /\ Bounded(t) /\ (w \in quiet => Exact(t))
  BY <1>1, WorkOf DEF ReportPcs
<1>3. ReportTyped(task) /\ Bounded(task) /\ (Exact(t) => Exact(task))
  <2> HIDE DEF t
  <2> QED
    BY <1>1, <1>2, NewSubsMore
<1> HIDE DEF task, t
<1> QED
  BY <1>1, <1>2, <1>3, ReportStep

LEMMA RevenueMore ==
  ASSUME LedgerTypeOK, NEW t, ReportTyped(t), Bounded(t), t.pc = "revenue", NEW task,
         task = [t EXCEPT !["revenue"] = @ + SumRevenueInWindow(Window(t.asof, t.back)), !.pc = "churned"]
  PROVE  ReportTyped(task) /\ Bounded(task) /\ (Exact(t) => Exact(task))
<1>1. RevenueAdded(t, task)
  BY RevenueFields
<1> QED
  BY <1>1, RevenueCounts

LEMMA RevenueKeeps ==
  ASSUME LedgerInv, NEW w \in Workers, Revenue(w)
  PROVE  LedgerInv'
<1> DEFINE t == work[w]
           task == [t EXCEPT !["revenue"] = @ + SumRevenueInWindow(Window(t.asof, t.back)), !.pc = "churned"]
<1>1. /\ t.pc = "revenue" /\ UNCHANGED <<today, menu, granted, dashboard>> /\ quiet' = quiet
      /\ work' = [work EXCEPT ![w] = task]
  BY DEF Revenue, Reading, Adds, At, Goto, Span
<1>2. /\ LedgerTypeOK /\ ReportTyped(t) /\ Bounded(t) /\ (w \in quiet => Exact(t))
  BY <1>1, WorkOf DEF ReportPcs
<1>3. ReportTyped(task) /\ Bounded(task) /\ (Exact(t) => Exact(task))
  <2> HIDE DEF t
  <2> QED
    BY <1>1, <1>2, RevenueMore
<1> HIDE DEF task, t
<1> QED
  BY <1>1, <1>2, <1>3, ReportStep

LEMMA ChurnedKeeps ==
  ASSUME LedgerInv, NEW w \in Workers, Churned(w)
  PROVE  LedgerInv'
<1> DEFINE t == work[w]
           task == [t EXCEPT !.churned = @ + CountChurnedInWindow(Window(t.asof, t.back)),
                             !.pc = IF t.back = 0 THEN "plans" ELSE "new",
                             !.back = IF @ = 0 THEN 0 ELSE @ - 1]
<1>1. /\ t.pc = "churned" /\ UNCHANGED <<today, menu, granted, dashboard>> /\ quiet' = quiet
      /\ work' = [work EXCEPT ![w] = task]
  BY DEF Churned, Reading, At, Goto, Span
<1>2. /\ LedgerTypeOK /\ ReportTyped(t) /\ Bounded(t) /\ (w \in quiet => Exact(t))
  BY <1>1, WorkOf DEF ReportPcs
<1>3. ReportTyped(task) /\ Bounded(task) /\ (Exact(t) => Exact(task))
  <2> HIDE DEF t
  <2> QED
    BY <1>1, <1>2, ChurnedCounts
<1> HIDE DEF task, t
<1> QED
  BY <1>1, <1>2, <1>3, ReportStep

LEMMA AbortKeeps ==
  ASSUME LedgerInv, NEW w \in Workers, LedgerAbort(w)
  PROVE  LedgerInv'
<1>1. /\ work' = [work EXCEPT ![w] = Idle] /\ quiet' = quiet \ {w}
      /\ UNCHANGED <<today, menu, granted, dashboard>>
  BY DEF LedgerAbort, Abort, Finish, Goto
<1>2. Idle.pc \notin ReportPcs
  BY DEF Idle, ReportPcs
<1> QED
  BY <1>1, <1>2, ReportStep

LEMMA ListPlansKeeps ==
  ASSUME LedgerInv, NEW w \in Workers, ListPlans(w)
  PROVE  LedgerInv'
<1> DEFINE t == work[w]
           answer == [asof |-> t.asof, new |-> t.new, revenue |-> t.revenue, churned |-> t.churned,
                      mrr |-> Mrr(t.lines), active |-> SumOf([l \in t.lines |-> l.count]),
                      least |-> t.least, quiet |-> w \in quiet]
           span == (Ordinal(t.asof) - Months + 1)..Ordinal(t.asof)
<1>1. /\ t.pc = "plans" /\ UNCHANGED <<today, menu, granted>> /\ quiet' = quiet \ {w}
      /\ work' = [work EXCEPT ![w] = Idle] /\ dashboard' = answer
  BY DEF ListPlans, Reading, At, Finish, Goto
<1>2. /\ LedgerTypeOK /\ ReportTyped(t) /\ Bounded(t) /\ (w \in quiet => Exact(t))
  BY <1>1, WorkOf DEF ReportPcs
<1>3. /\ t.asof \in Dates /\ t.least <= t.new /\ t.new <= Cardinality(NewIn(span))
      /\ Exact(t) => /\ SumOf([l \in t.lines |-> l.count]) = Cardinality(Active)
                     /\ t.new = Cardinality(NewIn(span))
                     /\ t.revenue = Net(Prices, NewIn(span))
                     /\ t.churned = Cardinality(EndedIn(span))
                     /\ NamesDiffer => Mrr(t.lines) = Net(Monthly, Active)
  <2> HIDE DEF t
  <2> QED
    BY <1>1, <1>2, AnswerTells
<1>4. /\ answer.asof = t.asof /\ answer.least = t.least /\ answer.new = t.new /\ answer.revenue = t.revenue
      /\ answer.churned = t.churned /\ answer.mrr = Mrr(t.lines)
      /\ answer.active = SumOf([l \in t.lines |-> l.count]) /\ (answer.quiet <=> w \in quiet)
  OBVIOUS
<1> HIDE DEF answer
<1>5. Told'
  <2>1. Reported(dashboard)' = span
    BY <1>1, <1>4 DEF Reported
  <2> HIDE DEF t, span
  <2> QED
    BY <1>1, <1>2, <1>3, <1>4, <2>1, Unmoved DEF Told
<1>6. LedgerTypeOK'
  <2>1. quiet' \subseteq Workers
    BY <1>1 DEF LedgerInv, LedgerTypeOK
  <2> QED
    BY <1>1, <2>1, StaysTyped
<1>7. DOMAIN work' = Workers
  BY <1>1 DEF LedgerInv
<1>8. \A v \in Workers : Keeps(v)'
  <2>1. Idle.pc \notin ReportPcs
    BY DEF Idle, ReportPcs
  <2> QED
    BY <1>1, <2>1, OthersKeep
<1> QED
  BY <1>5, <1>6, <1>7, <1>8 DEF LedgerInv

LEMMA LedgerInitially == ServingInit /\ LedgerInit => LedgerInv
<1> SUFFICES ASSUME ServingInit, LedgerInit PROVE LedgerInv
  OBVIOUS
<1>1. LedgerTypeOK
  <2>1. today = FirstDate /\ menu = FirstMenu /\ granted = FirstGrants /\ quiet = {}
    BY DEF LedgerInit
  <2> QED
    BY <2>1, LedgerAssumption DEF LedgerTypeOK
<1>2. DOMAIN work = Workers /\ \A w \in Workers : work[w].pc = "idle"
  BY DEF ServingInit, Idle
<1>3. \A w \in Workers : Keeps(w)
  BY <1>2 DEF Keeps, ReportPcs
<1>4. Told
  BY DEF LedgerInit, Told
<1> QED
  BY <1>1, <1>2, <1>3, <1>4 DEF LedgerInv

LEMMA LedgerSteps == LedgerInv /\ [LedgerNext]_<<servingVars, ledgerVars>> => LedgerInv'
<1> SUFFICES ASSUME LedgerInv, [LedgerNext]_<<servingVars, ledgerVars>> PROVE LedgerInv'
  OBVIOUS
<1>1. ASSUME NEW w \in Workers,
             Analytics(w) \/ NewSubs(w) \/ Revenue(w) \/ Churned(w) \/ ListPlans(w) \/ LedgerAbort(w)
      PROVE  LedgerInv'
  BY <1>1, AnalyticsKeeps, NewSubsKeeps, RevenueKeeps, ChurnedKeeps, ListPlansKeeps, AbortKeeps
<1>2. ASSUME NEW p \in DOMAIN menu, Grant(p) \/ \E b \in MenuBodies : PatchMenu(p, b) PROVE LedgerInv'
  BY <1>2, GrantKeeps, PatchMenuKeeps
<1>3. ASSUME NEW s \in DOMAIN granted, NEW status \in {"cancelled", "expired"}, Churn(s, status) PROVE LedgerInv'
  BY <1>3, ChurnKeeps
<1>4. CASE NextMonth
  BY <1>4, NextMonthKeeps
<1>5. CASE UNCHANGED <<servingVars, ledgerVars>>
  <2>1. /\ UNCHANGED <<menu, granted, work>> /\ UNCHANGED <<today, menu, granted>> /\ dashboard' = dashboard /\ quiet' = quiet
    BY <1>5 DEF servingVars, ledgerVars
  <2>2. LedgerTypeOK'
    BY <2>1 DEF LedgerInv, LedgerTypeOK
  <2> QED
    BY <2>1, <2>2, AllKeep, StaysTold DEF LedgerInv
<1> QED
  BY <1>1, <1>2, <1>3, <1>4, <1>5 DEF LedgerNext

LEMMA LedgerAlways == LedgerSpec => []LedgerInv
  BY LedgerInitially, LedgerSteps, PTL DEF LedgerSpec

LEMMA ToldAdds == LedgerInv => DashboardAdds
<1> SUFFICES ASSUME LedgerInv, dashboard # NoRow PROVE DashboardAdds
  BY DEF DashboardAdds
<1> DEFINE span == Reported(dashboard)
<1>1. LedgerTypeOK /\ Told
  BY DEF LedgerInv
<1>2. SumOf([s \in NewIn(span) |-> Bill(s).price]) = Net(Prices, NewIn(span))
  BY <1>1, RowSetsFinite, RevenueIs
<1>3. SumOf([s \in Active |-> MonthlyPrice(Bill(s))]) = Net(Monthly, Active)
  BY <1>1, MonthlyIs
<1> QED
  BY <1>1, <1>2, <1>3 DEF DashboardAdds, Told, NewIn, EndedIn

\* Every row of plans, of subscriptions and of the report is well formed, and no
\* subscription starts in a month that has not come (the grant stamps the time it is made).
THEOREM LedgerTyped == LedgerSpec => []LedgerTypeOK
<1>1. LedgerInv => LedgerTypeOK
  BY DEF LedgerInv
<1> QED
  BY <1>1, LedgerAlways, PTL

\* The dashboard's parts agree with its totals, whatever else is written while its
\* statements run (GetMonthlyStatsAt reads each month by statements of its own): a
\* subscription there all along is counted once, in some month, and with no row
\* written meanwhile every figure is the one the rows give.
THEOREM DashboardAlwaysAdds == LedgerSpec => []DashboardAdds
  BY LedgerAlways, ToldAdds, PTL

-----------------------------------------------------------------------------
(***************************************************************************)
(* What holds of the lists and of the inbox.                               *)
(***************************************************************************)
\* When the pages of a walk must make the list.
Calm(q) == NoTies(Existing(rows)) /\ Limit(q) > 0 /\ Page(q) = 1

\* The pages so far are the beginning of the list in some order, and all of it at the end.
Walked(v) ==
  IF Whole(v.q) THEN v.done /\ v.seen \in Sorted(Existing(rows), v.q.up)
  ELSE \E s \in Sorted(Matching(v.q), v.q.up) :
         v.seen = Cut(s, 0, v.page * Limit(v.q)) /\ (v.done => v.seen = s)

WalkIs(v) ==
  /\ v.q \in Queries /\ v.at \in Nat /\ v.at <= version /\ v.seen \in Seq(DOMAIN Shown)
  /\ v.page \in Int /\ (Page(v.q) = 1 => v.page >= 1) /\ (Whole(v.q) => v.done)
  /\ v.at = version /\ Calm(v.q) => Walked(v)
WalkOK == walk # NoWalk => WalkIs(walk)

\* A page on its way is the one after those shown.
PageOK(t) ==
  /\ t.q \in Queries /\ ~Whole(t.q) /\ t.p = Asks(t.q) /\ ~Refused(t.p)
  /\ t.at \in Nat /\ t.at <= version
  /\ walk # NoWalk => walk.q = t.q /\ walk.at <= t.at
  /\ t.pc = "total" =>
       /\ t.ids \in Seq(DOMAIN Shown)
       /\ t.at = version => \E s \in Sorted(Matching(t.p), t.p.up) : t.ids = Cut(s, Offset(t.p), Limit(t.p))
  /\ t.pc = "page" /\ t.at = version => t.total = Cardinality(Matching(t.p))

BugsOK(t) ==
  /\ t.at \in Nat /\ t.at <= version
  /\ t.limit \in Int /\ t.limit <= CapRows /\ t.kind \in {"all", "error", "bug"} /\ t.open \in BOOLEAN
  /\ t.at = version =>
       IF t.kind = "bug" THEN t.items = <<>>
       ELSE t.limit >= 0 /\ \E s \in Sorted(Of({"error"}, t.open), FALSE) : t.items = Read(Cut(s, 0, t.limit))

Counting(t) == DOMAIN t = {"pc", "n", "at"} /\ t.n \in Int /\ t.at \in Nat /\ t.pc \in {"features", "errors"}
BadgeOK(t) ==
  /\ Counting(t) /\ t.at <= version
  /\ t.at = version =>
       t.n = IF t.pc = "features" THEN Cardinality(Of({"bug"}, TRUE))
             ELSE Cardinality(Of({"bug"}, TRUE)) + Cardinality(Of({"feature"}, TRUE))

TaskOK(t) ==
  /\ t.pc \in {"total", "page"}      => PageOK(t)
  /\ t.pc = "bugs"                   => BugsOK(t)
  /\ t.pc \in {"features", "errors"} => BadgeOK(t)

RowsOK ==
  /\ DOMAIN rows = DOMAIN Shown /\ \A i \in DOMAIN rows : rows[i] \in Row \cup {NoRow}
  /\ version \in Nat /\ version <= requests /\ requests \in Nat /\ requests <= MaxRequests
OneReader == \A v, w \in Workers : work[v] # Idle /\ work[w] # Idle => v = w

ListingInv ==
  /\ RowsOK /\ DOMAIN work = Workers /\ OneReader
  /\ WalkOK
  /\ feed.at \in Int /\ feed.at <= version /\ FeedNewest /\ CountsAddUp
  /\ \A w \in Workers : TaskOK(work[w])

-----------------------------------------------------------------------------
(***************************************************************************)
(* Orders, and the pages cut from them.                                    *)
(***************************************************************************)
\* Numbering in a strict order: what comes before it numbers each of 1..n.
Ahead(R, n, b) == {a \in 1..n : <<a, b>> \in R}

Strict(R, n) ==
  /\ \A a \in 1..n : <<a, a>> \notin R
  /\ \A a, b, c \in 1..n : <<a, b>> \in R /\ <<b, c>> \in R => <<a, c>> \in R
  /\ \A a, b \in 1..n : a # b => <<a, b>> \in R \/ <<b, a>> \in R
Ranks(place, R, n) ==
  /\ \A b \in 1..n : place[b] \in 1..n
  /\ \A a, b \in 1..n : <<a, b>> \in R => place[a] < place[b]
  /\ \A k \in 1..n : \E b \in 1..n : place[b] = k
Places(place, R, n) == \A b \in 1..n : place[b] = 1 + Cardinality(Ahead(R, n, b))

LEMMA PlacesInvert ==
  ASSUME NEW n \in Nat, NEW R, Strict(R, n), NEW place, Places(place, R, n)
  PROVE  Ranks(place, R, n)
<1> DEFINE D == 1..n
           B(b) == {a \in D : <<a, b>> \in R}
           f == [b \in D |-> place[b]]
<1>0. /\ \A a \in D : <<a, a>> \notin R
      /\ \A a, b, c \in D : <<a, b>> \in R /\ <<b, c>> \in R => <<a, c>> \in R
      /\ \A a, b \in D : a # b => <<a, b>> \in R \/ <<b, a>> \in R
      /\ \A b \in D : place[b] = 1 + Cardinality(B(b))
  BY DEF Strict, Places, Ahead
<1>1. IsFiniteSet(D) /\ Cardinality(D) = n
  BY FS_Interval
<1>2. \A b : IsFiniteSet(B(b)) /\ Cardinality(B(b)) \in Nat
  <2>1. \A b : B(b) \subseteq D
    OBVIOUS
  <2> HIDE DEF B, D
  <2> QED
    BY <1>1, <2>1, FS_Subset, FS_CardinalityType
<1>3. ASSUME NEW b \in D PROVE place[b] \in 1..n
  <2>1. B(b) \subseteq D /\ B(b) # D
    BY <1>0
  <2>2. place[b] = 1 + Cardinality(B(b))
    BY <1>0
  <2> HIDE DEF B, D
  <2>3. Cardinality(B(b)) <= n /\ Cardinality(B(b)) # n
    BY <1>1, <2>1, FS_Subset
  <2> QED
    BY <1>2, <2>2, <2>3
<1>4. ASSUME NEW a \in D, NEW b \in D, <<a, b>> \in R PROVE place[a] < place[b]
  <2>1. B(a) \subseteq B(b) /\ B(a) # B(b)
    <3>1. \A c \in D : <<c, a>> \in R => <<c, b>> \in R
      BY <1>0, <1>4
    <3>2. a \in B(b) /\ a \notin B(a)
      BY <1>0, <1>4
    <3> QED
      BY <3>1, <3>2
  <2>2. place[a] = 1 + Cardinality(B(a)) /\ place[b] = 1 + Cardinality(B(b))
    BY <1>0
  <2> HIDE DEF B, D
  <2>3. Cardinality(B(a)) <= Cardinality(B(b)) /\ Cardinality(B(a)) # Cardinality(B(b))
    BY <1>2, <2>1, FS_Subset
  <2> QED
    BY <1>2, <2>2, <2>3
<1>5. \A a, b \in D : place[a] = place[b] => a = b
  <2> SUFFICES ASSUME NEW a \in D, NEW b \in D, a # b PROVE place[a] # place[b]
    OBVIOUS
  <2>1. /\ <<a, b>> \in R \/ <<b, a>> \in R
        /\ place[a] \in Int /\ place[b] \in Int
    BY <1>0, <1>3
  <2>2. CASE <<a, b>> \in R
    BY <1>4, <2>1, <2>2
  <2>3. CASE <<b, a>> \in R
    BY <1>4, <2>1, <2>3
  <2> QED
    BY <2>1, <2>2, <2>3
<1>6. f \in Injection(D, D)
  BY <1>3, <1>5 DEF Injection, IsInjective
<1>7. f \in Surjection(D, D)
  BY <1>1, <1>6, FS_Injection
<1>8. \A k \in D : \E b \in D : f[b] = k
  BY <1>7 DEF Surjection
<1> QED
  BY <1>3, <1>4, <1>8 DEF Ranks

\* A list of a set has each of its members, once.
LEMMA SortedIs ==
  ASSUME NEW S, IsFiniteSet(S), NEW up, NEW s \in Sorted(S, up)
  PROVE  /\ Cardinality(S) \in Nat /\ s \in [1..Cardinality(S) -> S] /\ s \in Seq(S)
         /\ Len(s) = Cardinality(S) /\ DOMAIN s = 1..Cardinality(S)
         /\ \A i, j \in DOMAIN s : s[i] = s[j] => i = j
         /\ \A x \in S : \E i \in DOMAIN s : s[i] = x
         /\ \A a, b \in DOMAIN s : a < b => IF up THEN rows[s[a]].key <= rows[s[b]].key
                                                 ELSE rows[s[a]].key >= rows[s[b]].key
<1> DEFINE n == Cardinality(S)
<1>1. n \in Nat /\ IsFiniteSet(1..n) /\ Cardinality(1..n) = n
  BY FS_CardinalityType, FS_Interval
<1>2. /\ s \in [1..n -> S] /\ \A i, j \in 1..n : i # j => s[i] # s[j]
      /\ \A a, b \in DOMAIN s : a < b => IF up THEN rows[s[a]].key <= rows[s[b]].key
                                              ELSE rows[s[a]].key >= rows[s[b]].key
  BY DEF Sorted, SetToSeqs
<1> HIDE DEF n
<1>3. s \in Seq(S) /\ Len(s) = n /\ DOMAIN s = 1..n
  BY <1>1, <1>2
<1>4. s \in Injection(1..n, S)
  BY <1>2 DEF Injection, IsInjective
<1>5. s \in Surjection(1..n, S)
  BY <1>1, <1>4, FS_Injection DEF n
<1>6. \A x \in S : \E i \in 1..n : s[i] = x
  BY <1>5 DEF Surjection
<1> QED
  BY <1>1, <1>2, <1>3, <1>6 DEF n

\* Without ties there is one.
LEMMA OneOrder ==
  ASSUME NEW S, IsFiniteSet(S), NoTies(S), \A x \in S : rows[x].key \in Int,
         NEW up, NEW s \in Sorted(S, up), NEW r \in Sorted(S, up)
  PROVE  s = r
<1> DEFINE n == Cardinality(S)
           key(x) == rows[x].key
           before(x, y) == IF up THEN key(x) < key(y) ELSE key(x) > key(y)
           Good == {k \in Nat : k <= n => \A i \in 1..k : s[i] = r[i]}
<1>1. /\ n \in Nat /\ s \in [1..n -> S] /\ r \in [1..n -> S]
      /\ \A i, j \in 1..n : s[i] = s[j] => i = j
      /\ \A i, j \in 1..n : r[i] = r[j] => i = j
      /\ \A x \in S : \E i \in 1..n : s[i] = x
      /\ \A x \in S : \E i \in 1..n : r[i] = x
  <2>1. /\ n \in Nat /\ s \in [1..n -> S] /\ DOMAIN s = 1..n
        /\ \A i, j \in DOMAIN s : s[i] = s[j] => i = j
        /\ \A x \in S : \E i \in DOMAIN s : s[i] = x
    BY SortedIs
  <2>2. /\ r \in [1..n -> S] /\ DOMAIN r = 1..n
        /\ \A i, j \in DOMAIN r : r[i] = r[j] => i = j
        /\ \A x \in S : \E i \in DOMAIN r : r[i] = x
    BY SortedIs
  <2> QED
    BY <2>1, <2>2
<1>2. /\ \A i, j \in 1..n : i < j => before(s[i], s[j])
      /\ \A i, j \in 1..n : i < j => before(r[i], r[j])
  <2>1. /\ \A i, j \in 1..n : i < j => IF up THEN key(s[i]) <= key(s[j]) ELSE key(s[i]) >= key(s[j])
        /\ \A i, j \in 1..n : i < j => IF up THEN key(r[i]) <= key(r[j]) ELSE key(r[i]) >= key(r[j])
    <3>1. DOMAIN s = 1..n /\ DOMAIN r = 1..n
      BY <1>1
    <3>2. \A a, b \in DOMAIN s : a < b => IF up THEN rows[s[a]].key <= rows[s[b]].key
                                               ELSE rows[s[a]].key >= rows[s[b]].key
      BY SortedIs
    <3>3. \A a, b \in DOMAIN r : a < b => IF up THEN rows[r[a]].key <= rows[r[b]].key
                                               ELSE rows[r[a]].key >= rows[r[b]].key
      BY SortedIs
    <3> QED
      BY <3>1, <3>2, <3>3
  <2>2. \A x, y \in S : x # y => key(x) # key(y) /\ key(x) \in Int /\ key(y) \in Int
    BY DEF NoTies
  <2>3. ASSUME NEW i \in 1..n, NEW j \in 1..n, i < j PROVE before(s[i], s[j])
    <3>1. s[i] \in S /\ s[j] \in S /\ s[i] # s[j]
      BY <1>1, <2>3
    <3> QED
      BY <2>1, <2>2, <2>3, <3>1
  <2>4. ASSUME NEW i \in 1..n, NEW j \in 1..n, i < j PROVE before(r[i], r[j])
    <3>1. r[i] \in S /\ r[j] \in S /\ r[i] # r[j]
      BY <1>1, <2>4
    <3> QED
      BY <2>1, <2>2, <2>4, <3>1
  <2> QED
    BY <2>3, <2>4
<1>3. \A x, y \in S : ~(before(x, y) /\ before(y, x))
  OBVIOUS
<1> HIDE DEF before
<1>4. 0 \in Good
  OBVIOUS
<1>5. ASSUME NEW k \in Nat, k \in Good PROVE k + 1 \in Good
  <2> SUFFICES ASSUME k + 1 <= n PROVE \A i \in 1..(k + 1) : s[i] = r[i]
    OBVIOUS
  <2>1. k + 1 \in 1..n /\ \A i \in 1..k : s[i] = r[i] /\ i \in 1..n
    BY <1>1, <1>5
  <2>2. s[k + 1] = r[k + 1]
    <3> SUFFICES ASSUME s[k + 1] # r[k + 1] PROVE FALSE
      OBVIOUS
    <3>1. PICK i \in 1..n : s[i] = r[k + 1]
      BY <1>1, <2>1
    <3>2. PICK j \in 1..n : r[j] = s[k + 1]
      BY <1>1, <2>1
    <3>3. k + 1 < i
      <4>1. i # k + 1
        BY <3>1
      <4>2. ~(i \in 1..k)
        BY <1>1, <2>1, <3>1
      <4> QED
        BY <4>1, <4>2
    <3>4. k + 1 < j
      <4>1. j # k + 1
        BY <3>2
      <4>2. ~(j \in 1..k)
        BY <1>1, <2>1, <3>2
      <4> QED
        BY <4>1, <4>2
    <3>5. before(s[k + 1], r[k + 1]) /\ before(r[k + 1], s[k + 1])
      BY <1>2, <2>1, <3>1, <3>2, <3>3, <3>4
    <3>6. s[k + 1] \in S /\ r[k + 1] \in S
      BY <1>1, <2>1
    <3> QED
      BY <1>3, <3>5, <3>6
  <2> QED
    BY <2>1, <2>2
<1>6. n \in Good
  <2> HIDE DEF Good, n
  <2> QED
    BY <1>1, <1>4, <1>5, CountingUp
<1> QED
  BY <1>1, <1>6

\* Pages.
LEMMA CutIs ==
  ASSUME NEW S, NEW s \in Seq(S), NEW o \in Nat, NEW l \in Nat
  PROVE  /\ Cut(s, o, l) \in Seq(S)
         /\ Len(Cut(s, o, l)) = IF Len(s) <= o THEN 0 ELSE IF Len(s) < o + l THEN Len(s) - o ELSE l
         /\ \A i \in 1..Len(Cut(s, o, l)) : o + i \in 1..Len(s) /\ Cut(s, o, l)[i] = s[o + i]
         /\ Len(s) <= o => Cut(s, o, l) = <<>>
<1> DEFINE e == IF Len(s) < o + l THEN Len(s) ELSE o + l
<1>1. Len(s) \in Nat /\ e \in Int /\ o + 1 \in Int /\ e <= Len(s)
  OBVIOUS
<1>2. Cut(s, o, l) = SubSeq(s, o + 1, e)
  BY DEF Cut
<1>3. \A i \in (o + 1)..e : s[i] \in S
  BY <1>1
<1> HIDE DEF e
<1>4. /\ SubSeq(s, o + 1, e) \in Seq(S)
      /\ Len(SubSeq(s, o + 1, e)) = IF o + 1 <= e THEN e - (o + 1) + 1 ELSE 0
      /\ \A i \in 1..(e - (o + 1) + 1) : SubSeq(s, o + 1, e)[i] = s[(o + 1) + i - 1]
  BY <1>1, <1>3, SubSeqProperties
<1>5. Len(Cut(s, o, l)) = IF Len(s) <= o THEN 0 ELSE IF Len(s) < o + l THEN Len(s) - o ELSE l
  BY <1>1, <1>2, <1>4 DEF e
<1>6. ASSUME NEW i \in 1..Len(Cut(s, o, l)) PROVE o + i \in 1..Len(s) /\ Cut(s, o, l)[i] = s[o + i]
  <2>1. i \in Nat /\ i >= 1 /\ i <= e - o /\ e - (o + 1) + 1 = e - o /\ (o + 1) + i - 1 = o + i
    BY <1>1, <1>2, <1>4
  <2>2. i \in 1..(e - (o + 1) + 1)
    BY <1>1, <2>1
  <2> QED
    BY <1>1, <1>2, <1>4, <2>1, <2>2
<1>7. ASSUME Len(s) <= o PROVE Cut(s, o, l) = <<>>
  BY <1>1, <1>2, <1>7, SubSeqEmpty
<1> QED
  BY <1>2, <1>4, <1>5, <1>6, <1>7

\* A page is appended to those before it.
LEMMA CutsAdjoin ==
  ASSUME NEW S, NEW s \in Seq(S), NEW o \in Nat, NEW l \in Nat
  PROVE  Cut(s, 0, o) \o Cut(s, o, l) = Cut(s, 0, o + l)
<1> DEFINE e == IF Len(s) < o + l THEN Len(s) ELSE o + l
<1>1. Len(s) \in Nat
  OBVIOUS
<1>2. CASE o <= Len(s)
  <2>1. Cut(s, 0, o) = SubSeq(s, 1, o) /\ Cut(s, o, l) = SubSeq(s, o + 1, e) /\ Cut(s, 0, o + l) = SubSeq(s, 1, e)
    BY <1>1, <1>2 DEF Cut
  <2>2. 1 \in 1..(Len(s) + 1) /\ o \in (1 - 1)..Len(s) /\ e \in o..Len(s)
    BY <1>1, <1>2
  <2> HIDE DEF e
  <2>3. SubSeq(s, 1, o) \o SubSeq(s, o + 1, e) = SubSeq(s, 1, e)
    BY <2>2, ConcatAdjacentSubSeq
  <2> QED
    BY <2>1, <2>3
<1>3. CASE Len(s) < o
  <2>1. Cut(s, 0, o) = SubSeq(s, 1, Len(s)) /\ Cut(s, 0, o + l) = SubSeq(s, 1, Len(s))
    BY <1>1, <1>3 DEF Cut
  <2>2. SubSeq(s, 1, Len(s)) = s
    BY SubSeqFull
  <2>3. Cut(s, o, l) = <<>>
    BY <1>1, <1>3, CutIs
  <2>4. s \o <<>> = s
    OBVIOUS
  <2> QED
    BY <2>1, <2>2, <2>3, <2>4
<1> QED
  BY <1>1, <1>2, <1>3

LEMMA CutWhole ==
  ASSUME NEW S, NEW s \in Seq(S), NEW l \in Nat, Len(Cut(s, 0, l)) >= Len(s) \/ Len(s) <= l
  PROVE  Cut(s, 0, l) = s
<1>1. Len(s) \in Nat
  OBVIOUS
<1>2. Len(s) <= l
  BY <1>1, CutIs
<1>3. Cut(s, 0, l) = SubSeq(s, 1, Len(s))
  BY <1>1, <1>2 DEF Cut
<1> QED
  BY <1>3, SubSeqFull

-----------------------------------------------------------------------------
(***************************************************************************)
(* The parameters of a list, and its rows.                                 *)
(***************************************************************************)
LEMMA CutLength ==
  ASSUME NEW S, NEW s \in Seq(S), NEW o \in Nat, NEW l \in Nat
  PROVE  Len(Cut(s, o, l)) = IF Len(s) <= o THEN 0 ELSE IF Len(s) < o + l THEN Len(s) - o ELSE l
  BY CutIs

LEMMA PageEnds ==
  ASSUME NEW S, NEW s \in Seq(S), NEW o \in Nat, NEW l \in Nat \ {0},
         Len(Cut(s, 0, o + l)) >= Len(s) \/ Cut(s, o, l) = <<>>
  PROVE  Cut(s, 0, o + l) = s
<1>1. Len(s) \in Nat /\ o + l \in Nat /\ 0 \in Nat /\ l \in Nat
  OBVIOUS
<1>2. CASE Len(Cut(s, 0, o + l)) >= Len(s)
  BY <1>1, <1>2, CutWhole
<1>3. CASE Cut(s, o, l) = <<>>
  <2>1. Len(Cut(s, o, l)) = 0
    BY <1>3
  <2>2. Len(Cut(s, o, l)) = IF Len(s) <= o THEN 0 ELSE IF Len(s) < o + l THEN Len(s) - o ELSE l
    BY <1>1, CutLength
  <2>3. Len(s) <= o + l
    BY <1>1, <2>1, <2>2
  <2> QED
    BY <1>1, <2>3, CutWhole
<1> QED
  BY <1>2, <1>3

LEMMA CapsAre == /\ DefaultRows \in Nat /\ CapRows \in Nat /\ DefaultRows >= 1 /\ CapRows >= 1
                 /\ Absent \notin Int
  BY ListingAssumption

LEMMA ClampedIs == ASSUME NEW n \in Int PROVE Clamped(n) \in 1..CapRows /\ (n \in 1..CapRows => Clamped(n) = n)
  BY CapsAre DEF Clamped

LEMMA ParamsAre ==
  ASSUME NEW q \in ListRequest
  PROVE  Limit(q) \in Int /\ Page(q) \in Int
<1> DEFINE n == IF q.limit = Absent THEN DefaultRows ELSE q.limit
<1>1. n \in Int /\ (IF n = 0 THEN DefaultRows ELSE n) \in Int /\ DefaultRows \in Int /\ CapRows \in Int
  BY CapsAre DEF ListRequest
<1>2. Limit(q) = CASE q.list = "entities"  -> Clamped(n)
                   [] q.list = "features"  -> Clamped(IF n = 0 THEN DefaultRows ELSE n)
                   [] q.list = "users"     -> IF n < 1 THEN DefaultRows ELSE n
                   [] q.list = "emailLogs" -> IF n = 0 THEN DefaultRows ELSE IF n > CapRows THEN CapRows ELSE n
                   [] OTHER                -> n
  BY DEF Limit
<1>3. \A m \in Int : Clamped(m) \in Int
  BY ClampedIs
<1>4. Page(q) \in Int
  BY DEF Page, ListRequest
<1> HIDE DEF n
<1> QED
  BY <1>1, <1>2, <1>3, <1>4

\* Asking for another page changes nothing else.
LEMMA NextPage ==
  ASSUME NEW q \in ListRequest, NEW n \in Int, NEW p, p = [q EXCEPT !.page = n]
  PROVE  /\ p \in ListRequest /\ p.page = n /\ p.list = q.list /\ p.up = q.up
         /\ Limit(p) = Limit(q) /\ Matching(p) = Matching(q)
         /\ Page(p) \in Int /\ (n >= 1 => Page(p) = n)
<1>1. /\ p \in ListRequest /\ p.page = n /\ p.list = q.list /\ p.up = q.up
      /\ p.limit = q.limit /\ p.search = q.search /\ p.status = q.status
  BY DEF ListRequest
<1>2. Page(p) \in Int
  BY <1>1, ParamsAre
<1>3. ASSUME n >= 1 PROVE Page(p) = n
  BY <1>1, <1>3, CapsAre DEF Page
<1>4. Limit(p) = Limit(q)
  BY <1>1 DEF Limit
<1>5. Matching(p) = Matching(q)
  BY <1>1 DEF Matching
<1> QED
  BY <1>1, <1>2, <1>3, <1>4, <1>5

LEMMA OffsetIs ==
  ASSUME NEW p, NEW n \in Nat, NEW l \in Nat, Page(p) = n + 1, Limit(p) = l
  PROVE  Offset(p) = n * l /\ n * l \in Nat
<1>1. (n + 1) - 1 = n /\ n * l \in Nat
  OBVIOUS
<1>2. Offset(p) = LET m == n * l IN IF p.list = "emailLogs" /\ m < 0 THEN 0 ELSE m
  BY <1>1 DEF Offset
<1> QED
  BY <1>1, <1>2

\* What there is in the table.
LEMMA TableIs ==
  ASSUME RowsOK
  PROVE  /\ IsFiniteSet(Existing(rows)) /\ Existing(rows) \subseteq DOMAIN Shown
         /\ \A i \in Existing(rows) : rows[i] \in Row /\ rows[i].key \in Int
         /\ \A q : Matching(q) \subseteq Existing(rows) /\ IsFiniteSet(Matching(q))
         /\ \A k, o : Of(k, o) \subseteq Existing(rows) /\ IsFiniteSet(Of(k, o))
<1>1. /\ Existing(rows) \subseteq DOMAIN Shown
      /\ \A i \in Existing(rows) : rows[i] \in Row
  BY DEF RowsOK, Existing
<1>2. \A i \in Existing(rows) : rows[i].key \in Int
  BY <1>1 DEF Row
<1>3. \A q : Matching(q) \subseteq Existing(rows)
  BY DEF Matching
<1>4. \A k, o : Of(k, o) \subseteq Existing(rows)
  BY DEF Of
<1>5. IsFiniteSet(Existing(rows))
  BY <1>1, ListingAssumption, FS_Subset
<1> QED
  BY <1>1, <1>2, <1>3, <1>4, <1>5, FS_Subset

LEMMA ListsAre ==
  ASSUME RowsOK, NEW S \in SUBSET Existing(rows), NEW up, NEW s \in Sorted(S, up)
  PROVE  s \in Seq(S) /\ s \in Seq(DOMAIN Shown) /\ Len(s) = Cardinality(S) /\ IsFiniteSet(S)
<1>1. IsFiniteSet(S) /\ S \subseteq DOMAIN Shown
  BY TableIs, FS_Subset
<1>2. s \in Seq(S) /\ Len(s) = Cardinality(S)
  BY <1>1, SortedIs
<1> QED
  BY <1>1, <1>2

LEMMA CalmOrder ==
  ASSUME RowsOK, NoTies(Existing(rows)), NEW S \in SUBSET Existing(rows), NEW up,
         NEW s \in Sorted(S, up), NEW r \in Sorted(S, up)
  PROVE  s = r
<1>1. IsFiniteSet(S) /\ NoTies(S) /\ \A x \in S : rows[x].key \in Int
  BY TableIs, FS_Subset DEF NoTies
<1> QED
  BY <1>1, OneOrder

-----------------------------------------------------------------------------
\* A page shown leaves a walk that is right.
LEMMA PageShown ==
  ASSUME RowsOK, WalkOK, NEW t, PageOK(t), NEW ids \in Seq(DOMAIN Shown), NEW total,
         t.at = version =>
           /\ \E s \in Sorted(Matching(t.p), t.p.up) : ids = Cut(s, Offset(t.p), Limit(t.p))
           /\ total = Cardinality(Matching(t.p)),
         NEW old, old = (IF t.p = t.q THEN <<>> ELSE walk.seen),
         NEW v, v.q = t.q, v.page = Page(t.p), v.at = (IF t.p = t.q THEN t.at ELSE walk.at),
         v.seen = old \o ids, v.done <=> (Len(old \o ids) >= total \/ ids = <<>>)
  PROVE  WalkIs(v)
<1> DEFINE q == t.q
           p == t.p
           L == Limit(q)
<1>1. /\ q \in Queries /\ q \in ListRequest /\ ~Whole(q) /\ t.at \in Nat /\ t.at <= version /\ version \in Nat
  BY ListingAssumption DEF PageOK, RowsOK
<1>2. L \in Int /\ Page(q) \in Int
  BY <1>1, ParamsAre
<1> HIDE DEF q, p, L
<1>3. CASE walk = NoWalk
  <2>1. p = q /\ old = <<>> /\ v.seen = ids /\ v.at = t.at /\ v.q = q
    BY <1>3 DEF PageOK, Asks, p, q
  <2>2. ASSUME v.at = version, Calm(q) PROVE Walked(v)
    <3>1. L \in Nat \ {0} /\ Page(p) = 0 + 1 /\ Limit(p) = L /\ 0 \in Nat /\ L \in Nat
      BY <1>2, <2>1, <2>2 DEF Calm, L
    <3>2. Offset(p) = 0 * L /\ 0 * L = 0 /\ 1 * L = L /\ 0 + L = L
      <4>1. Offset(p) = 0 * L
        BY <3>1, OffsetIs
      <4>2. 0 * L = 0 /\ 1 * L = L /\ 0 + L = L
        BY <3>1
      <4> QED
        BY <4>1, <4>2
    <3>3. PICK s \in Sorted(Matching(q), q.up) : ids = Cut(s, 0, L)
      BY <2>1, <2>2, <3>1, <3>2 DEF p
    <3>4. s \in Seq(Matching(q)) /\ Len(s) = total
      <4>1. Matching(q) \subseteq Existing(rows)
        BY TableIs
      <4>2. s \in Seq(Matching(q)) /\ Len(s) = Cardinality(Matching(q))
        BY <4>1, ListsAre
      <4> QED
        BY <4>2, <2>1, <2>2 DEF p
    <3>5. v.done => Len(Cut(s, 0, 0 + L)) >= Len(s) \/ Cut(s, 0, L) = <<>>
      BY <2>1, <3>2, <3>3, <3>4
    <3>6. v.done => Cut(s, 0, 0 + L) = s
      BY <3>1, <3>4, <3>5, PageEnds
    <3>7. v.page * Limit(v.q) = L
      BY <2>1, <3>1, <3>2 DEF L, p
    <3> QED
      BY <1>1, <2>1, <3>2, <3>3, <3>6, <3>7 DEF Walked
  <2>3. v.page \in Int /\ (Page(q) = 1 => v.page >= 1)
    BY <1>2, <2>1 DEF p
  <2> QED
    BY <1>1, <2>1, <2>2, <2>3 DEF WalkIs
<1>4. CASE walk # NoWalk
  <2>1. /\ WalkIs(walk) /\ walk.q = q /\ walk.at <= t.at /\ p = [q EXCEPT !.page = walk.page + 1]
    BY <1>4 DEF WalkOK, PageOK, Asks, p, q
  <2>2. /\ walk.at \in Nat /\ walk.seen \in Seq(DOMAIN Shown) /\ walk.page \in Int /\ walk.page + 1 \in Int
        /\ (Page(q) = 1 => walk.page >= 1)
    BY <2>1 DEF WalkIs
  <2>3. /\ p.page = walk.page + 1 /\ p.up = q.up /\ Limit(p) = L /\ Matching(p) = Matching(q)
        /\ Page(p) \in Int /\ (walk.page + 1 >= 1 => Page(p) = walk.page + 1)
    BY <1>1, <2>1, <2>2, NextPage DEF L
  <2>4. v.seen \in Seq(DOMAIN Shown) /\ v.at \in Nat /\ v.at <= version
    <3>1. old \in Seq(DOMAIN Shown)
      <4>1. <<>> \in Seq(DOMAIN Shown)
        OBVIOUS
      <4> QED
        BY <2>2, <4>1, Zenon
    <3>2. old \o ids \in Seq(DOMAIN Shown)
      BY <3>1, ConcatProperties
    <3>3. v.at \in {t.at, walk.at}
      OBVIOUS
    <3> QED
      BY <1>1, <2>1, <2>2, <3>2, <3>3
  <2>5. v.page \in Int /\ (Page(q) = 1 => v.page >= 1)
    BY <2>2, <2>3 DEF p
  <2>6. ASSUME v.at = version, Calm(q) PROVE Walked(v)
    <3>1. L \in Nat \ {0} /\ L \in Nat /\ Page(q) = 1 /\ walk.page \in Nat /\ walk.page >= 1
      BY <1>2, <2>2, <2>6 DEF Calm, L
    <3>2. Page(p) = walk.page + 1 /\ Page(p) # Page(q)
      BY <2>2, <2>3, <3>1
    <3>3. p # q
      BY <3>2
    <3>4. old = walk.seen /\ v.at = walk.at /\ walk.at = version /\ t.at = version /\ v.seen = walk.seen \o ids
      BY <1>1, <2>1, <2>2, <2>6, <3>3 DEF p, q
    <3>5. Walked(walk)
      BY <2>1, <2>6, <3>4 DEF WalkIs
    <3>6. PICK r \in Sorted(Matching(q), q.up) : walk.seen = Cut(r, 0, walk.page * L)
      BY <1>1, <2>1, <3>5 DEF Walked, L
    <3>7. Offset(p) = walk.page * L /\ walk.page * L \in Nat
      BY <2>3, <3>1, <3>2, OffsetIs
    <3>8. PICK s \in Sorted(Matching(q), q.up) : ids = Cut(s, walk.page * L, L)
      BY <2>3, <3>4, <3>7 DEF p
    <3>9. Matching(q) \subseteq Existing(rows) /\ NoTies(Existing(rows))
      BY <2>6, TableIs DEF Calm
    <3>10. r = s
      BY <3>9, CalmOrder
    <3>11. s \in Seq(Matching(q)) /\ Len(s) = total
      <4>1. s \in Seq(Matching(q)) /\ Len(s) = Cardinality(Matching(q))
        BY <3>9, ListsAre
      <4> QED
        BY <4>1, <2>3, <3>4 DEF p
    <3> DEFINE o == walk.page * L
    <3>12. o \in Nat /\ (walk.page + 1) * L = o + L
      BY <3>1
    <3> HIDE DEF o
    <3>13. v.seen = Cut(s, 0, o + L)
      <4>1. Cut(s, 0, o) \o Cut(s, o, L) = Cut(s, 0, o + L)
        BY <3>1, <3>11, <3>12, CutsAdjoin
      <4>2. walk.seen = Cut(s, 0, o) /\ ids = Cut(s, o, L)
        BY <3>6, <3>8, <3>10 DEF o
      <4> QED
        BY <3>4, <4>1, <4>2
    <3>14. v.done => Len(Cut(s, 0, o + L)) >= Len(s) \/ Cut(s, o, L) = <<>>
      BY <3>8, <3>11, <3>13 DEF o
    <3>15. v.done => Cut(s, 0, o + L) = s
      BY <3>1, <3>11, <3>12, <3>14, PageEnds
    <3>16. v.page * Limit(v.q) = o + L
      BY <3>2, <3>12 DEF L, p, q
    <3> QED
      BY <1>1, <3>13, <3>15, <3>16 DEF Walked, q
  <2> QED
    BY <1>1, <2>4, <2>5, <2>6 DEF WalkIs, q
<1> QED
  BY <1>3, <1>4

-----------------------------------------------------------------------------
(***************************************************************************)
(* The newest rows of two sources.                                         *)
(***************************************************************************)
\* The inbox sorts what it merged.
LEMMA MergedIs ==
  ASSUME NEW items, NEW n \in Nat, DOMAIN items = 1..n, \A k \in 1..n : items[k].key \in Int
  PROVE  \E f \in [1..n -> 1..n] :
           /\ Merged(items) = [k \in 1..n |-> items[f[k]]]
           /\ \A a, b \in 1..n : f[a] = f[b] => a = b
           /\ \A b \in 1..n : \E k \in 1..n : f[k] = b
           /\ \A a, b \in 1..n : a < b => items[f[a]].key >= items[f[b]].key
<1> DEFINE D == 1..n
           before(a, b) == items[a].key > items[b].key \/ (items[a].key = items[b].key /\ a < b)
           R == {r \in D \X D : before(r[1], r[2])}
           place(b) == 1 + Cardinality({a \in D : before(a, b)})
           at == [b \in D |-> place(b)]
           f == [k \in D |-> CHOOSE b \in D : place(b) = k]
<1>0. \A a, b \in D : <<a, b>> \in R <=> before(a, b)
  OBVIOUS
<1>1. /\ \A a \in D : ~before(a, a)
      /\ \A a, b, c \in D : before(a, b) /\ before(b, c) => before(a, c)
      /\ \A a, b \in D : a # b => before(a, b) \/ before(b, a)
      /\ \A a, b \in D : before(a, b) => items[a].key >= items[b].key
  <2>1. \A a \in D : a \in Int /\ items[a].key \in Int
    OBVIOUS
  <2> HIDE DEF D
  <2> QED
    BY <2>1
<1>2. \A b \in D : at[b] = place(b) /\ place(b) = 1 + Cardinality(Ahead(R, n, b))
  <2>1. ASSUME NEW b \in D PROVE {a \in D : before(a, b)} = Ahead(R, n, b)
    <3> HIDE DEF R, before
    <3> QED
      BY <1>0 DEF Ahead
  <2> QED
    BY <2>1
<1>3. Merged(items) = [k \in D |-> items[f[k]]]
  BY DEF Merged
<1> HIDE DEF R, before, place
<1>4. /\ \A a \in D : <<a, a>> \notin R
      /\ \A a, b, c \in D : <<a, b>> \in R /\ <<b, c>> \in R => <<a, c>> \in R
      /\ \A a, b \in D : a # b => <<a, b>> \in R \/ <<b, a>> \in R
  BY <1>0, <1>1
<1>5. \A b \in D : at[b] = 1 + Cardinality(Ahead(R, n, b))
  BY <1>2
<1>6. /\ \A b \in D : place(b) \in D
      /\ \A a, b \in D : <<a, b>> \in R => place(a) < place(b)
      /\ \A k \in D : \E b \in D : place(b) = k
  <2>1. /\ \A b \in 1..n : at[b] \in 1..n
        /\ \A a, b \in 1..n : <<a, b>> \in R => at[a] < at[b]
        /\ \A k \in 1..n : \E b \in 1..n : at[b] = k
    <3>1. Strict(R, n)
      BY <1>4 DEF Strict
    <3>2. Places(at, R, n)
      BY <1>5 DEF Places
    <3> HIDE DEF at
    <3>3. Ranks(at, R, n)
      BY <3>1, <3>2, PlacesInvert
    <3> QED
      BY <3>3 DEF Ranks
  <2> QED
    BY <1>2, <2>1
<1>7. f \in [D -> D] /\ \A k \in D : place(f[k]) = k
  BY <1>6
<1> HIDE DEF f
<1>8. \A a, b \in D : f[a] = f[b] => a = b
  BY <1>7
<1>9. ASSUME NEW a \in D, NEW b \in D, place(a) = place(b) PROVE a = b
  <2> SUFFICES ASSUME a # b PROVE FALSE
    OBVIOUS
  <2>1. /\ <<a, b>> \in R \/ <<b, a>> \in R
        /\ place(a) \in Int /\ place(b) \in Int
    BY <1>4, <1>6
  <2>2. CASE <<a, b>> \in R
    <3>1. place(a) < place(b)
      BY <1>6, <2>2
    <3> QED
      BY <1>9, <2>1, <3>1
  <2>3. CASE <<b, a>> \in R
    <3>1. place(b) < place(a)
      BY <1>6, <2>3
    <3> QED
      BY <1>9, <2>1, <3>1
  <2> QED
    BY <2>1, <2>2, <2>3
<1>10. \A b \in D : \E k \in D : f[k] = b
  <2> SUFFICES ASSUME NEW b \in D PROVE \E k \in D : f[k] = b
    OBVIOUS
  <2>1. place(b) \in D /\ f[place(b)] \in D /\ place(f[place(b)]) = place(b)
    BY <1>6, <1>7
  <2> QED
    BY <1>9, <2>1
<1>11. ASSUME NEW a \in D, NEW b \in D, a < b PROVE items[f[a]].key >= items[f[b]].key
  <2>1. f[a] \in D /\ f[b] \in D /\ f[a] # f[b] /\ place(f[a]) = a /\ place(f[b]) = b
    BY <1>7, <1>11
  <2>2. CASE <<f[a], f[b]>> \in R
    BY <1>0, <1>1, <2>1, <2>2
  <2>3. CASE <<f[b], f[a]>> \in R
    <3>1. place(f[b]) < place(f[a])
      BY <1>6, <2>1, <2>3
    <3> QED
      BY <1>11, <2>1, <3>1
  <2> QED
    BY <1>4, <2>1, <2>2, <2>3
<1> QED
  BY <1>3, <1>7, <1>8, <1>10, <1>11

\* Of k places the first k are taken by these, or one of these comes later.
LEMMA Displaced ==
  ASSUME NEW n \in Nat, NEW k \in 0..n, NEW f \in [1..n -> 1..n],
         \A a, b \in 1..n : f[a] = f[b] => a = b,
         \A b \in 1..n : \E l \in 1..n : f[l] = b,
         NEW P \in SUBSET (1..n), Cardinality(P) = k, NEW i \in 1..k, f[i] \notin P
  PROVE  \E l \in 1..n : l > k /\ f[l] \in P
<1> DEFINE Q == {f[h] : h \in 1..k}
           g == [h \in 1..k |-> f[h]]
<1>1. 1..k \subseteq 1..n /\ k \in Nat
  OBVIOUS
<1>2. IsFiniteSet(1..k) /\ Cardinality(1..k) = k /\ IsFiniteSet(1..n)
  BY <1>1, FS_Interval
<1>3. g \in Injection(1..k, Q) /\ g \in Surjection(1..k, Q)
  BY <1>1, SMTT(30) DEF Injection, IsInjective, Surjection
<1>4. Q \subseteq 1..n
  BY <1>1
<1> HIDE DEF g
<1>5. IsFiniteSet(Q)
  <2> HIDE DEF Q
  <2> QED
    BY <1>2, <1>4, FS_Subset
<1>6. Cardinality(Q) = k
  <2> HIDE DEF Q
  <2> QED
    BY <1>2, <1>3, <1>5, FS_Injection
<1>7. f[i] \in Q
  OBVIOUS
<1>8. ~(P \subseteq Q)
  <2> HIDE DEF Q
  <2> QED
    BY <1>5, <1>6, <1>7, FS_Subset
<1>9. PICK b \in P : b \notin Q
  BY <1>8
<1>10. PICK l \in 1..n : f[l] = b
  BY <1>9
<1>11. ~(l \in 1..k)
  BY <1>9, <1>10
<1> QED
  BY <1>1, <1>9, <1>10, <1>11

\* The k newest rows of S, as the inbox reads them.
IdsOf(x) == {x[i].id : i \in DOMAIN x}
Smaller(m, n) == IF m < n THEN m ELSE n
Top(x, S, k) ==
  /\ x \in Seq([id : DOMAIN Shown, key : Int])
  /\ \A i \in DOMAIN x : x[i].id \in S /\ x[i].key = rows[x[i].id].key
  /\ \A i, j \in DOMAIN x : x[i].id = x[j].id => i = j
  /\ Len(x) = Smaller(Cardinality(S), k)
  /\ \A i \in DOMAIN x, j \in S : j \notin IdsOf(x) => x[i].key >= rows[j].key

LEMMA TopOfNone == ASSUME NEW k \in Nat PROVE Top(<<>>, {}, k)
  BY FS_EmptySet DEF Top, Smaller

\* The beginning of a list.
LEMMA CutStart ==
  ASSUME NEW S, NEW s \in Seq(S), NEW k \in Nat
  PROVE  /\ Cut(s, 0, k) \in Seq(S) /\ Len(Cut(s, 0, k)) = Smaller(Len(s), k)
         /\ \A i \in 1..Len(Cut(s, 0, k)) : i \in 1..Len(s) /\ Cut(s, 0, k)[i] = s[i]
<1> DEFINE c == Cut(s, 0, k)
<1>1. \A o \in Nat :
        /\ Cut(s, o, k) \in Seq(S)
        /\ Len(Cut(s, o, k)) = IF Len(s) <= o THEN 0 ELSE IF Len(s) < o + k THEN Len(s) - o ELSE k
        /\ \A i \in 1..Len(Cut(s, o, k)) : o + i \in 1..Len(s) /\ Cut(s, o, k)[i] = s[o + i]
  BY CutIs, ZenonT(30)
<1>2. PICK o \in Nat : o = 0
  OBVIOUS
<1>3. Cut(s, o, k) = c
  BY <1>2
<1> HIDE DEF c
<1>4. Len(c) = Smaller(Len(s), k)
  BY <1>1, <1>2, <1>3 DEF Smaller
<1>5. \A i \in 1..Len(c) : o + i = i
  BY <1>2
<1>6. c \in Seq(S) /\ \A i \in 1..Len(c) : i \in 1..Len(s) /\ c[i] = s[i]
  BY <1>1, <1>3, <1>5
<1> QED
  BY <1>4, <1>6 DEF c

\* What the statement with the limit reads.
LEMMA TopOf ==
  ASSUME RowsOK, NEW S \in SUBSET Existing(rows), NEW s \in Sorted(S, FALSE), NEW k \in Nat
  PROVE  Top(Read(Cut(s, 0, k)), S, k)
<1> DEFINE c == Cut(s, 0, k)
           x == Read(c)
           m == Len(c)
<1>1. /\ IsFiniteSet(S) /\ S \subseteq DOMAIN Shown /\ \A i \in S : rows[i].key \in Int
  BY TableIs, FS_Subset
<1>2. /\ s \in Seq(S) /\ Len(s) = Cardinality(S) /\ DOMAIN s = 1..Len(s) /\ Len(s) \in Nat
      /\ \A i, j \in DOMAIN s : s[i] = s[j] => i = j
      /\ \A y \in S : \E i \in DOMAIN s : s[i] = y
      /\ \A a, b \in DOMAIN s : a < b => rows[s[a]].key >= rows[s[b]].key
  <2>1. \A a, b \in DOMAIN s : a < b => IF FALSE THEN rows[s[a]].key <= rows[s[b]].key
                                                  ELSE rows[s[a]].key >= rows[s[b]].key
    BY <1>1, SortedIs
  <2>2. /\ s \in Seq(S) /\ Len(s) = Cardinality(S) /\ DOMAIN s = 1..Cardinality(S) /\ Cardinality(S) \in Nat
        /\ \A i, j \in DOMAIN s : s[i] = s[j] => i = j
        /\ \A y \in S : \E i \in DOMAIN s : s[i] = y
    BY <1>1, SortedIs
  <2> QED
    BY <2>1, <2>2
<1>3. /\ c \in Seq(S)
      /\ m = Smaller(Len(s), k)
      /\ \A i \in 1..m : i \in 1..Len(s) /\ c[i] = s[i]
  <2>1. s \in Seq(S)
    BY <1>2
  <2> QED
    BY <2>1, CutStart
<1>4. m = Smaller(Cardinality(S), k) /\ m \in Nat /\ DOMAIN c = 1..m /\ m <= Len(s)
  <2>1. m \in Nat /\ DOMAIN c = 1..m
    BY <1>3
  <2> HIDE DEF m
  <2> QED
    BY <1>2, <1>3, <2>1 DEF Smaller
<1> HIDE DEF m, c
<1>5. \A i \in 1..m : i \in DOMAIN s /\ c[i] = s[i] /\ c[i] \in S
  BY <1>2, <1>3, <1>4
<1>6. DOMAIN x = 1..m /\ \A i \in 1..m : x[i].id = s[i] /\ x[i].key = rows[s[i]].key /\ x[i] = [id |-> s[i], key |-> rows[s[i]].key]
  BY <1>4, <1>5 DEF Read
<1>7. x \in Seq([id : DOMAIN Shown, key : Int]) /\ Len(x) = m
  <2>1. x = [i \in 1..m |-> x[i]]
    BY <1>4 DEF Read
  <2>2. \A i \in 1..m : x[i] \in [id : DOMAIN Shown, key : Int]
    BY <1>1, <1>5, <1>6
  <2> HIDE DEF x
  <2> DEFINE T == [id : DOMAIN Shown, key : Int]
  <2>3. x \in [1..m -> T]
    BY <2>1, <2>2
  <2> HIDE DEF T
  <2>4. x \in Seq(T) /\ Len(x) = m
    BY <1>4, <2>3
  <2> QED
    BY <2>4 DEF T
<1> HIDE DEF x
<1>8. \A i \in DOMAIN x : x[i].id \in S /\ x[i].key = rows[x[i].id].key
  BY <1>5, <1>6
<1>9. \A i, j \in DOMAIN x : x[i].id = x[j].id => i = j
  BY <1>2, <1>5, <1>6
<1>10. ASSUME NEW i \in DOMAIN x, NEW j \in S, j \notin IdsOf(x) PROVE x[i].key >= rows[j].key
  <2>1. PICK l \in DOMAIN s : s[l] = j
    BY <1>2
  <2>2. ~(l \in 1..m)
    BY <1>6, <1>10, <2>1 DEF IdsOf
  <2>3. i \in DOMAIN s /\ i < l
    BY <1>2, <1>4, <1>5, <1>6, <2>1, <2>2
  <2> QED
    BY <1>2, <1>6, <2>1, <2>3
<1> QED
  BY <1>4, <1>7, <1>8, <1>9, <1>10 DEF Top, x, c

LEMMA IdsCounted ==
  ASSUME NEW x, NEW n \in Nat, DOMAIN x = 1..n, \A i, j \in DOMAIN x : x[i].id = x[j].id => i = j
  PROVE  IsFiniteSet(IdsOf(x)) /\ Cardinality(IdsOf(x)) = n
<1> DEFINE f == [i \in 1..n |-> x[i].id]
<1>1. IsFiniteSet(1..n) /\ Cardinality(1..n) = n
  BY FS_Interval
<1>2. f \in Injection(1..n, IdsOf(x)) /\ f \in Surjection(1..n, IdsOf(x))
  BY DEF IdsOf, Injection, IsInjective, Surjection
<1> HIDE DEF f
<1>3. IsFiniteSet(IdsOf(x))
  BY <1>1, <1>2, FS_Surjection
<1> QED
  BY <1>1, <1>2, <1>3, FS_Injection

\* A list that leaves one of S out is full, and has nothing older than it.
LEMMA TopFull ==
  ASSUME NEW S, IsFiniteSet(S), NEW k \in Nat, NEW x, Top(x, S, k), NEW j \in S, j \notin IdsOf(x)
  PROVE  Len(x) = k /\ \A i \in DOMAIN x : x[i].key >= rows[j].key
<1>1. Len(x) \in Nat /\ DOMAIN x = 1..Len(x) /\ Len(x) = Smaller(Cardinality(S), k) /\ IdsOf(x) \subseteq S
  BY DEF Top, IdsOf
<1>2. Cardinality(IdsOf(x)) = Len(x) /\ IsFiniteSet(IdsOf(x))
  BY <1>1, IdsCounted DEF Top
<1>3. Cardinality(S) \in Nat /\ Len(x) # Cardinality(S)
  BY <1>1, <1>2, FS_Subset, FS_CardinalityType
<1> QED
  BY <1>1, <1>3 DEF Top, Smaller

\* n distinct rows of S, as the inbox reads them; the first p of them are x and the others y.
Items(z, n, S) ==
  /\ z \in Seq([id : DOMAIN Shown, key : Int]) /\ DOMAIN z = 1..n /\ n \in Nat
  /\ \A i \in 1..n : z[i].id \in S /\ z[i].key = rows[z[i].id].key /\ z[i].key \in Int
  /\ \A i, j \in 1..n : z[i].id = z[j].id => i = j
Joined(z, n, p, x, y) ==
  /\ p \in Nat /\ p <= n
  /\ \A i \in 1..p : z[i] = x[i] /\ i \in DOMAIN x
  /\ \A i \in (p + 1)..n : z[i] = y[i - p] /\ i - p \in DOMAIN y
  /\ IdsOf(x) \subseteq IdsOf(z) /\ IdsOf(y) \subseteq IdsOf(z)

LEMMA BothAre ==
  ASSUME NEW E, NEW B, E \cap B = {}, NEW k \in Nat, NEW x, NEW y, Top(x, E, k), Top(y, B, k),
         NEW z, z = x \o y, NEW p, p = Len(x), NEW n, n = Len(x) + Len(y)
  PROVE  Items(z, n, E \cup B) /\ Joined(z, n, p, x, y)
<1> DEFINE T == [id : DOMAIN Shown, key : Int]
<1>1. /\ x \in Seq(T) /\ y \in Seq(T)
      /\ \A i \in DOMAIN x : x[i].id \in E /\ x[i].key = rows[x[i].id].key
      /\ \A i, j \in DOMAIN x : x[i].id = x[j].id => i = j
      /\ \A i \in DOMAIN y : y[i].id \in B /\ y[i].key = rows[y[i].id].key
      /\ \A i, j \in DOMAIN y : y[i].id = y[j].id => i = j
  BY DEF Top
<1>2. \A t \in T : t.key \in Int
  OBVIOUS
<1> HIDE DEF T
<1>3. Len(x) \in Nat /\ Len(y) \in Nat /\ DOMAIN x = 1..Len(x) /\ DOMAIN y = 1..Len(y)
  BY <1>1
<1>4. /\ z \in Seq(T) /\ Len(z) = Len(x) + Len(y)
      /\ \A i \in 1..(Len(x) + Len(y)) : z[i] = IF i <= Len(x) THEN x[i] ELSE y[i - Len(x)]
  BY <1>1, ConcatProperties
<1>5. DOMAIN z = 1..n /\ n \in Nat /\ p \in Nat /\ p <= n /\ Len(z) = n
  BY <1>3, <1>4
<1>6. \A i \in 1..p : z[i] = x[i] /\ i \in DOMAIN x
  BY <1>3, <1>4
<1>7. \A i \in (p + 1)..n : z[i] = y[i - p] /\ i - p \in DOMAIN y
  BY <1>3, <1>4
<1>8. \A i \in 1..n : i \in 1..p \/ i \in (p + 1)..n
  BY <1>5
<1>9. \A i \in 1..n : z[i].id \in E \cup B /\ z[i].key = rows[z[i].id].key
  <2> SUFFICES ASSUME NEW i \in 1..n PROVE z[i].id \in E \cup B /\ z[i].key = rows[z[i].id].key
    OBVIOUS
  <2>1. CASE i \in 1..p
    BY <1>1, <1>6, <2>1
  <2>2. CASE i \in (p + 1)..n
    BY <1>1, <1>7, <2>2
  <2> QED
    BY <1>8, <2>1, <2>2
<1>10. \A i \in 1..n : z[i].key \in Int
  BY <1>2, <1>4, <1>5
<1>11. ASSUME NEW i \in 1..n, NEW j \in 1..n, z[i].id = z[j].id PROVE i = j
  <2>1. CASE i \in 1..p /\ j \in 1..p
    BY <1>1, <1>6, <1>11, <2>1
  <2>2. CASE i \in (p + 1)..n /\ j \in (p + 1)..n
    <3>1. i - p = j - p
      BY <1>1, <1>7, <1>11, <2>2
    <3> QED
      BY <1>5, <3>1
  <2>3. CASE i \in 1..p /\ j \in (p + 1)..n
    <3>1. z[i] = x[i] /\ i \in DOMAIN x /\ z[j] = y[j - p] /\ j - p \in DOMAIN y
      BY <1>6, <1>7, <2>3
    <3>2. z[i].id \in E /\ z[j].id \in B
      BY <1>1, <3>1
    <3> QED
      BY <1>11, <3>2
  <2>4. CASE i \in (p + 1)..n /\ j \in 1..p
    <3>1. z[j] = x[j] /\ j \in DOMAIN x /\ z[i] = y[i - p] /\ i - p \in DOMAIN y
      BY <1>6, <1>7, <2>4
    <3>2. z[j].id \in E /\ z[i].id \in B
      BY <1>1, <3>1
    <3> QED
      BY <1>11, <3>2
  <2> QED
    BY <1>8, <2>1, <2>2, <2>3, <2>4
<1>12. IdsOf(x) \subseteq IdsOf(z)
  <2> SUFFICES ASSUME NEW i \in DOMAIN x PROVE x[i].id \in IdsOf(z)
    BY DEF IdsOf
  <2>1. i \in 1..n /\ i \in 1..p
    BY <1>3, <1>5
  <2> QED
    BY <1>5, <1>6, <2>1 DEF IdsOf
<1>13. IdsOf(y) \subseteq IdsOf(z)
  <2> SUFFICES ASSUME NEW i \in DOMAIN y PROVE y[i].id \in IdsOf(z)
    BY DEF IdsOf
  <2>1. p + i \in 1..n /\ p + i \in (p + 1)..n /\ (p + i) - p = i
    BY <1>3, <1>5
  <2> QED
    BY <1>5, <1>7, <2>1 DEF IdsOf
<1>14. Items(z, n, E \cup B)
  BY <1>4, <1>5, <1>9, <1>10, <1>11 DEF Items, T
<1> QED
  BY <1>5, <1>6, <1>7, <1>12, <1>13, <1>14 DEF Joined

\* f puts z in the order of the sort, and the first m of it are c.
Ordering(f, n) ==
  /\ f \in [1..n -> 1..n]
  /\ \A a, b \in 1..n : f[a] = f[b] => a = b
  /\ \A b \in 1..n : \E l \in 1..n : f[l] = b
Orders(f, z, n) ==
  /\ Ordering(f, n)
  /\ \A a, b \in 1..n : a < b => z[f[a]].key >= z[f[b]].key
Taken(c, m, f, z, n) ==
  /\ c \in Seq([id : DOMAIN Shown, key : Int]) /\ m = Len(c) /\ DOMAIN c = 1..m /\ m \in Nat /\ m <= n
  /\ \A i \in 1..m : i \in 1..n /\ c[i] = z[f[i]] /\ f[i] \in 1..n

LEMMA MergedTaken ==
  ASSUME NEW n, NEW S, NEW z, Items(z, n, S), NEW k \in Nat, NEW c, c = Cut(Merged(z), 0, k)
  PROVE  \E f : Orders(f, z, n) /\ Taken(c, Len(c), f, z, n) /\ Len(c) = Smaller(n, k)
<1> DEFINE T == [id : DOMAIN Shown, key : Int]
<1>1. n \in Nat /\ DOMAIN z = 1..n /\ (\A i \in 1..n : z[i].key \in Int) /\ z \in Seq(T)
  BY DEF Items
<1> HIDE DEF T
<1>2. PICK f \in [1..n -> 1..n] :
        /\ Merged(z) = [i \in 1..n |-> z[f[i]]]
        /\ \A a, b \in 1..n : f[a] = f[b] => a = b
        /\ \A b \in 1..n : \E i \in 1..n : f[i] = b
        /\ \A a, b \in 1..n : a < b => z[f[a]].key >= z[f[b]].key
  BY <1>1, MergedIs
<1>3. Orders(f, z, n)
  BY <1>2 DEF Orders, Ordering
<1>4. \A i \in 1..n : f[i] \in 1..n
  OBVIOUS
<1> DEFINE g == Merged(z)
<1>5. g = [i \in 1..n |-> z[f[i]]]
  BY <1>2
<1> HIDE DEF g
<1>6. g \in Seq(T) /\ Len(g) = n
  <2>1. \A i \in 1..n : z[f[i]] \in T
    BY <1>1, <1>4
  <2>2. g \in [1..n -> T]
    BY <1>5, <2>1
  <2>3. n \in Nat
    BY <1>1
  <2> QED
    BY <2>2, <2>3
<1>7. /\ c \in Seq(T) /\ Len(c) = Smaller(Len(g), k)
      /\ \A i \in 1..Len(c) : i \in 1..Len(g) /\ c[i] = g[i]
  <2>1. c = Cut(g, 0, k)
    BY DEF g
  <2>2. g \in Seq(T)
    BY <1>6
  <2> QED
    BY <2>1, <2>2, CutStart
<1>8. Len(c) = Smaller(n, k)
  BY <1>6, <1>7
<1> DEFINE m == Len(c)
<1>9. m \in Nat /\ DOMAIN c = 1..m
  BY <1>7
<1>10. m = Smaller(n, k)
  BY <1>8
<1>11. \A i \in 1..m : i \in 1..n /\ c[i] = g[i]
  BY <1>6, <1>7
<1> HIDE DEF m
<1>12. m <= n
  <2>1. n \in Nat
    BY <1>1
  <2> QED
    BY <1>10, <2>1 DEF Smaller
<1>13. \A i \in 1..m : c[i] = z[f[i]] /\ f[i] \in 1..n
  BY <1>4, <1>5, <1>11
<1>14. Taken(c, m, f, z, n)
  <2>1. c \in Seq(T)
    BY <1>7
  <2> QED
    BY <1>9, <1>11, <1>12, <1>13, <2>1 DEF Taken, T, m
<1> QED
  BY <1>3, <1>8, <1>14 DEF m

\* What comes first in the order is not older than k of the items.
LEMMA FirstsNewest ==
  ASSUME NEW n, NEW S, NEW z, Items(z, n, S), NEW k \in Nat, NEW f, Orders(f, z, n),
         NEW P \in SUBSET (1..n), Cardinality(P) = k, NEW v \in Int, \A q \in P : z[q].key >= v,
         NEW i \in 1..n, i <= k
  PROVE  z[f[i]].key >= v
<1>1. n \in Nat /\ \A l \in 1..n : z[l].key \in Int
  BY DEF Items
<1>2. f \in [1..n -> 1..n] /\ \A a, b \in 1..n : a < b => z[f[a]].key >= z[f[b]].key
  BY DEF Orders, Ordering
<1>3. CASE f[i] \in P
  BY <1>3
<1>4. CASE f[i] \notin P
  <2>1. k <= n
    <3>1. IsFiniteSet(1..n) /\ Cardinality(1..n) = n
      BY <1>1, FS_Interval
    <3>2. Cardinality(P) <= Cardinality(1..n)
      BY <3>1, FS_Subset
    <3> QED
      BY <3>1, <3>2
  <2>2. k \in 0..n /\ i \in 1..k
    BY <1>1, <2>1
  <2>3. PICK l \in 1..n : l > k /\ f[l] \in P
    <3>1. /\ \A a, b \in 1..n : f[a] = f[b] => a = b
          /\ \A b \in 1..n : \E l \in 1..n : f[l] = b
      BY DEF Orders, Ordering
    <3>2. n \in Nat /\ f \in [1..n -> 1..n]
      BY <1>1, <1>2
    <3> QED
      BY <1>4, <2>2, <3>1, <3>2, Displaced
  <2>4. i < l
    BY <2>2, <2>3
  <2>5. z[f[i]].key >= z[f[l]].key /\ z[f[l]].key >= v
    BY <1>2, <2>3, <2>4
  <2>6. z[f[i]].key \in Int /\ z[f[l]].key \in Int
    BY <1>1, <1>2
  <2> QED
    BY <2>5, <2>6
<1> QED
  BY <1>3, <1>4

\* The newest of two sources are the newest of their newest.
LEMMA TopMerged ==
  ASSUME RowsOK, NEW E \in SUBSET Existing(rows), NEW B \in SUBSET Existing(rows), E \cap B = {},
         NEW k \in Nat, NEW x, NEW y, Top(x, E, k), Top(y, B, k),
         NEW c, c = Cut(Merged(x \o y), 0, k)
  PROVE  /\ Top(c, E \cup B, k)
         /\ \A a, b \in DOMAIN c : a < b => c[a].key >= c[b].key
<1>1. PICK z : z = x \o y
  OBVIOUS
<1>2. PICK p : p = Len(x)
  OBVIOUS
<1>3. PICK n : n = Len(x) + Len(y)
  OBVIOUS
<1>4. PICK S : S = E \cup B
  OBVIOUS
<1>5. Items(z, n, S) /\ Joined(z, n, p, x, y)
  BY <1>1, <1>2, <1>3, <1>4, BothAre
<1>6. c = Cut(Merged(z), 0, k)
  BY <1>1
<1>7. PICK f : Orders(f, z, n) /\ Taken(c, Len(c), f, z, n) /\ Len(c) = Smaller(n, k)
  BY <1>5, <1>6, MergedTaken
<1>8. PICK m : m = Len(c)
  OBVIOUS
<1>9. Taken(c, m, f, z, n) /\ m = Smaller(n, k)
  BY <1>7, <1>8
<1>10. /\ IsFiniteSet(E) /\ IsFiniteSet(B) /\ Cardinality(E) \in Nat /\ Cardinality(B) \in Nat
       /\ Cardinality(S) = Cardinality(E) + Cardinality(B)
       /\ \A j \in S : rows[j].key \in Int
  <2>1. /\ IsFiniteSet(E) /\ IsFiniteSet(B) /\ \A j \in E \cup B : rows[j].key \in Int
    BY TableIs, FS_Subset
  <2>2. Cardinality(E \cup B) = Cardinality(E) + Cardinality(B)
    BY <2>1, CountOfBoth
  <2> QED
    BY <1>4, <2>1, <2>2, FS_CardinalityType
<1>11. /\ n \in Nat /\ DOMAIN z = 1..n
       /\ \A i \in 1..n : z[i].id \in S /\ z[i].key = rows[z[i].id].key /\ z[i].key \in Int
       /\ \A i, j \in 1..n : z[i].id = z[j].id => i = j
  BY <1>5 DEF Items
<1>12. /\ f \in [1..n -> 1..n]
       /\ \A a, b \in 1..n : f[a] = f[b] => a = b
       /\ \A b \in 1..n : \E l \in 1..n : f[l] = b
       /\ \A a, b \in 1..n : a < b => z[f[a]].key >= z[f[b]].key
  BY <1>7 DEF Orders, Ordering
<1>13. /\ DOMAIN c = 1..m /\ m \in Nat /\ m <= n
       /\ \A i \in 1..m : i \in 1..n /\ c[i] = z[f[i]] /\ f[i] \in 1..n
  BY <1>9 DEF Taken
<1>14. \A i \in DOMAIN c : c[i].id \in S /\ c[i].key = rows[c[i].id].key
  BY <1>11, <1>13
<1>15. \A i, j \in DOMAIN c : c[i].id = c[j].id => i = j
  <2> SUFFICES ASSUME NEW i \in DOMAIN c, NEW j \in DOMAIN c, c[i].id = c[j].id PROVE i = j
    OBVIOUS
  <2>1. i \in 1..n /\ j \in 1..n /\ f[i] \in 1..n /\ f[j] \in 1..n /\ c[i] = z[f[i]] /\ c[j] = z[f[j]]
    BY <1>13
  <2>2. f[i] = f[j]
    BY <1>11, <2>1
  <2> QED
    BY <1>12, <2>1, <2>2
<1>16. Len(c) = Smaller(Cardinality(S), k)
  <2>1. p = Smaller(Cardinality(E), k) /\ Len(y) = Smaller(Cardinality(B), k) /\ n = p + Len(y)
    BY <1>2, <1>3 DEF Top
  <2> QED
    BY <1>7, <1>10, <2>1 DEF Smaller
<1>17. \A a, b \in DOMAIN c : a < b => c[a].key >= c[b].key
  <2> SUFFICES ASSUME NEW a \in DOMAIN c, NEW b \in DOMAIN c, a < b PROVE c[a].key >= c[b].key
    OBVIOUS
  <2>1. a \in 1..n /\ b \in 1..n /\ c[a] = z[f[a]] /\ c[b] = z[f[b]]
    BY <1>13
  <2>2. z[f[a]].key >= z[f[b]].key
    BY <1>12, <2>1
  <2> QED
    BY <2>1, <2>2
<1>18. ASSUME NEW i \in DOMAIN c PROVE i \in 1..n /\ i <= k
  BY <1>9, <1>11, <1>13 DEF Smaller
<1>19. ASSUME NEW i \in DOMAIN c, NEW j \in S, j \notin IdsOf(c) PROVE c[i].key >= rows[j].key
  <2>1. i \in 1..m /\ c[i] = z[f[i]] /\ rows[j].key \in Int /\ i \in 1..n /\ i <= k
    BY <1>10, <1>13, <1>18
  <2>2. CASE j \in IdsOf(z)
    <3>1. PICK b \in 1..n : j = z[b].id
      BY <1>11, <2>2 DEF IdsOf
    <3>2. PICK l \in 1..n : f[l] = b
      BY <1>12
    <3>3. ~(l \in 1..m)
      <4> SUFFICES ASSUME l \in 1..m PROVE FALSE
        OBVIOUS
      <4>1. c[l].id = j /\ l \in DOMAIN c
        BY <1>13, <3>1, <3>2
      <4> QED
        BY <1>19, <4>1 DEF IdsOf
    <3>4. i < l
      BY <1>13, <2>1, <3>3
    <3>5. z[f[i]].key >= z[f[l]].key
      BY <1>12, <2>1, <3>4
    <3>6. z[b].key = rows[j].key
      BY <1>11, <3>1
    <3> QED
      BY <2>1, <3>2, <3>5, <3>6
  <2>3. ASSUME NEW P \in SUBSET (1..n), Cardinality(P) = k, \A q \in P : z[q].key >= rows[j].key
        PROVE  c[i].key >= rows[j].key
    <3>1. z[f[i]].key >= rows[j].key
      <4>1. rows[j].key \in Int /\ i \in 1..n /\ i <= k
        BY <2>1
      <4>2. Items(z, n, S) /\ Orders(f, z, n)
        BY <1>5, <1>7
      <4>3. \A v \in Int : (\A q \in P : z[q].key >= v) => z[f[i]].key >= v
        BY <2>3, <4>1, <4>2, FirstsNewest
      <4> QED
        BY <2>3, <4>1, <4>3
    <3> QED
      BY <2>1, <3>1
  <2>4. CASE j \in E /\ j \notin IdsOf(z)
    <3>0. j \notin IdsOf(x)
      BY <1>5, <2>4 DEF Joined
    <3>1. Len(x) = k /\ \A q \in DOMAIN x : x[q].key >= rows[j].key
      BY <1>10, <2>4, <3>0, TopFull
    <3>2. 1..p \subseteq 1..n /\ Cardinality(1..p) = k /\ \A q \in 1..p : z[q].key >= rows[j].key
      <4>1. p = k
        BY <1>2, <3>1
      <4>2. Cardinality(1..p) = p
        BY <4>1, FS_Interval
      <4>3. 1..p \subseteq 1..n /\ \A q \in 1..p : z[q] = x[q] /\ q \in DOMAIN x
        BY <1>5, <1>11 DEF Joined
      <4> QED
        BY <3>1, <4>1, <4>2, <4>3
    <3> QED
      BY <2>3, <3>2
  <2>5. CASE j \in B /\ j \notin IdsOf(z)
    <3>0. j \notin IdsOf(y)
      BY <1>5, <2>5 DEF Joined
    <3>1. Len(y) = k /\ \A q \in DOMAIN y : y[q].key >= rows[j].key
      BY <1>10, <2>5, <3>0, TopFull
    <3>2. /\ (p + 1)..n \subseteq 1..n /\ Cardinality((p + 1)..n) = k
          /\ \A q \in (p + 1)..n : z[q].key >= rows[j].key
      <4>1. n = p + k /\ p \in Nat
        BY <1>2, <1>3, <1>5, <3>1 DEF Joined
      <4>2. p + 1 \in Int /\ n \in Int /\ p + 1 <= n + 1 /\ n - (p + 1) + 1 = k
        BY <1>11, <4>1
      <4>3. Cardinality((p + 1)..n) = IF p + 1 > n THEN 0 ELSE n - (p + 1) + 1
        BY <4>2, FS_Interval
      <4>4. Cardinality((p + 1)..n) = k
        BY <1>11, <4>1, <4>2, <4>3
      <4>5. (p + 1)..n \subseteq 1..n
        BY <1>11, <4>1
      <4>6. \A q \in (p + 1)..n : z[q] = y[q - p] /\ q - p \in DOMAIN y
        BY <1>5 DEF Joined
      <4> QED
        BY <3>1, <4>4, <4>5, <4>6
    <3> QED
      BY <2>3, <3>2
  <2> QED
    BY <1>4, <2>2, <2>4, <2>5
<1>20. c \in Seq([id : DOMAIN Shown, key : Int])
  BY <1>9 DEF Taken
<1>21. Top(c, S, k)
  BY <1>14, <1>15, <1>16, <1>19, <1>20 DEF Top
<1> QED
  BY <1>4, <1>17, <1>21

-----------------------------------------------------------------------------
(***************************************************************************)
(* The inbox.                                                              *)
(***************************************************************************)
\* What a merged answer must be.
Newest(x, S, k) ==
  /\ Len(x) = Cardinality(IdsOf(x)) /\ IdsOf(x) \subseteq S
  /\ Cardinality(IdsOf(x)) = Smaller(Cardinality(S), k)
  /\ \A i \in IdsOf(x), j \in S \ IdsOf(x) : Newer(i, j)
  /\ \A a, b \in DOMAIN x : a < b => x[a].key >= x[b].key

LEMMA TopNewest ==
  ASSUME NEW S, NEW k, NEW x, Top(x, S, k), \A a, b \in DOMAIN x : a < b => x[a].key >= x[b].key
  PROVE  Newest(x, S, k)
<1>1. /\ Len(x) \in Nat /\ DOMAIN x = 1..Len(x) /\ Len(x) = Smaller(Cardinality(S), k)
      /\ \A i \in DOMAIN x : x[i].id \in S /\ x[i].key = rows[x[i].id].key
      /\ \A i, j \in DOMAIN x : x[i].id = x[j].id => i = j
      /\ \A i \in DOMAIN x, j \in S : j \notin IdsOf(x) => x[i].key >= rows[j].key
  BY DEF Top
<1>2. Cardinality(IdsOf(x)) = Len(x)
  <2>1. PICK n : n = Len(x)
    OBVIOUS
  <2>2. n \in Nat /\ DOMAIN x = 1..n /\ \A i, j \in DOMAIN x : x[i].id = x[j].id => i = j
    BY <1>1, <2>1
  <2> QED
    BY <2>1, <2>2, IdsCounted
<1>3. IdsOf(x) \subseteq S
  BY <1>1 DEF IdsOf
<1>4. ASSUME NEW i \in IdsOf(x), NEW j \in S \ IdsOf(x) PROVE Newer(i, j)
  <2>1. PICK l \in DOMAIN x : x[l].id = i
    BY DEF IdsOf
  <2>2. x[l].key = rows[i].key /\ x[l].key >= rows[j].key
    BY <1>1, <2>1
  <2> QED
    BY <2>2 DEF Newer
<1> QED
  BY <1>1, <1>2, <1>3, <1>4 DEF Newest

\* The sources an answer is of.
OfKind(kind, open) ==
  Of(CASE kind = "all" -> Sources [] kind = "error" -> {"error"} [] OTHER -> {"bug", "feature"}, open)

LEMMA SourcesMeet ==
  ASSUME NEW open
  PROVE  /\ Of({"error"}, open) \cap Of({"bug", "feature"}, open) = {}
         /\ Of(Sources, open) = Of({"error"}, open) \cup Of({"bug", "feature"}, open)
         /\ Of({"bug"}, open) \cap Of({"feature"}, open) = {}
         /\ Of({"bug", "feature"}, open) = Of({"bug"}, open) \cup Of({"feature"}, open)
  BY DEF Of, Sources

LEMMA FeedMerged ==
  ASSUME RowsOK, NEW t, BugsOK(t), t.at = version, t.limit > 0,
         NEW B, B = (IF t.kind = "error" THEN {} ELSE Of({"bug", "feature"}, t.open)),
         NEW s \in Sorted(B, FALSE),
         NEW c, c = Cut(Merged(t.items \o Read(Cut(s, 0, Clamped(t.limit)))), 0, t.limit)
  PROVE  Newest(c, OfKind(t.kind, t.open), t.limit)
<1>1. /\ t.limit \in Nat /\ Clamped(t.limit) = t.limit /\ t.kind \in {"all", "error", "bug"}
      /\ IF t.kind = "bug" THEN t.items = <<>>
         ELSE \E r \in Sorted(Of({"error"}, t.open), FALSE) : t.items = Read(Cut(r, 0, t.limit))
  <2>1. t.limit \in Nat /\ t.limit \in 1..CapRows /\ t.limit \in Int
    BY CapsAre DEF BugsOK
  <2>2. Clamped(t.limit) = t.limit
    BY <2>1, ClampedIs
  <2> QED
    BY <2>1, <2>2 DEF BugsOK
<1>2. PICK E : E = IF t.kind = "bug" THEN {} ELSE Of({"error"}, t.open)
  OBVIOUS
<1>3. E \subseteq Existing(rows) /\ B \subseteq Existing(rows)
  BY <1>2, TableIs
<1>4. E \cap B = {} /\ OfKind(t.kind, t.open) = E \cup B
  BY <1>1, <1>2, SourcesMeet DEF OfKind
<1>5. Top(t.items, E, t.limit)
  <2>1. CASE t.kind = "bug"
    BY <1>1, <1>2, <2>1, TopOfNone
  <2>2. CASE t.kind # "bug"
    <3>1. PICK r \in Sorted(E, FALSE) : t.items = Read(Cut(r, 0, t.limit))
      BY <1>1, <1>2, <2>2
    <3> QED
      BY <1>1, <1>3, <3>1, TopOf
  <2> QED
    BY <2>1, <2>2
<1>6. PICK y : y = Read(Cut(s, 0, t.limit))
  OBVIOUS
<1>7. Top(y, B, t.limit)
  BY <1>1, <1>3, <1>6, TopOf
<1>8. c = Cut(Merged(t.items \o y), 0, t.limit)
  BY <1>1, <1>6
<1>9. Top(c, E \cup B, t.limit) /\ \A a, b \in DOMAIN c : a < b => c[a].key >= c[b].key
  <2>1. E \in SUBSET Existing(rows) /\ B \in SUBSET Existing(rows) /\ E \cap B = {}
    BY <1>3, <1>4
  <2>2. PICK k : k = t.limit
    OBVIOUS
  <2>3. k \in Nat /\ Top(t.items, E, k) /\ Top(y, B, k) /\ c = Cut(Merged(t.items \o y), 0, k)
    BY <1>1, <1>5, <1>7, <1>8, <2>2
  <2>4. PICK x : x = t.items
    OBVIOUS
  <2>5. Top(x, E, k) /\ c = Cut(Merged(x \o y), 0, k)
    BY <2>3, <2>4
  <2>6. Top(c, E \cup B, k) /\ \A a, b \in DOMAIN c : a < b => c[a].key >= c[b].key
    BY <2>1, <2>3, <2>5, TopMerged
  <2> QED
    BY <2>2, <2>6
<1> QED
  BY <1>4, <1>9, TopNewest

\* An answer is right when it is of rows that are still there.
FeedIs(f) ==
  f.at = version =>
    IF f.kind = "counts" THEN f.n = Cardinality(Of(Sources, TRUE))
    ELSE f.limit > 0 => Newest(f.items, OfKind(f.kind, f.open), f.limit)

LEMMA FeedIsRight ==
  ASSUME FeedIs(feed) PROVE FeedNewest /\ CountsAddUp
<1>1. CountsAddUp
  BY DEF FeedIs, CountsAddUp
<1>2. {x.id : x \in ToSet(feed.items)} = IdsOf(feed.items)
  BY DEF ToSet, IdsOf
<1>3. FeedNewest
  <2> SUFFICES ASSUME feed.at = version, feed.kind # "counts", feed.limit > 0 PROVE FeedNewest
    BY DEF FeedNewest
  <2>1. Newest(feed.items, OfKind(feed.kind, feed.open), feed.limit)
    BY DEF FeedIs
  <2> QED
    BY <1>2, <2>1 DEF FeedNewest, Newest, OfKind, Smaller
<1> QED
  BY <1>1, <1>3

LEMMA CountsOfAll ==
  ASSUME RowsOK
  PROVE  /\ \A k : Cardinality(Of(k, TRUE)) \in Nat
         /\ Cardinality(Of(Sources, TRUE)) =
              Cardinality(Of({"bug"}, TRUE)) + Cardinality(Of({"feature"}, TRUE)) + Cardinality(Of({"error"}, TRUE))
<1>1. \A k : IsFiniteSet(Of(k, TRUE)) /\ Cardinality(Of(k, TRUE)) \in Nat
  BY TableIs, FS_CardinalityType
<1>2. Cardinality(Of({"bug", "feature"}, TRUE)) = Cardinality(Of({"bug"}, TRUE)) + Cardinality(Of({"feature"}, TRUE))
  BY <1>1, SourcesMeet, CountOfBoth
<1>3. Cardinality(Of(Sources, TRUE)) = Cardinality(Of({"error"}, TRUE)) + Cardinality(Of({"bug", "feature"}, TRUE))
  BY <1>1, SourcesMeet, CountOfBoth
<1>4. \A a, b, c, d, e \in Nat : d = a + b /\ e = c + d => e = a + b + c
  OBVIOUS
<1> DEFINE N(k) == Cardinality(Of(k, TRUE))
<1>5. /\ N({"bug"}) \in Nat /\ N({"feature"}) \in Nat /\ N({"error"}) \in Nat
      /\ N({"bug", "feature"}) \in Nat /\ N(Sources) \in Nat
  BY <1>1
<1>6. N({"bug", "feature"}) = N({"bug"}) + N({"feature"}) /\ N(Sources) = N({"error"}) + N({"bug", "feature"})
  BY <1>2, <1>3
<1> HIDE DEF N
<1>7. N(Sources) = N({"bug"}) + N({"feature"}) + N({"error"})
  BY <1>4, <1>5, <1>6
<1> QED
  BY <1>1, <1>7 DEF N

-----------------------------------------------------------------------------
(***************************************************************************)
(* The steps of the lists.                                                 *)
(***************************************************************************)
LEMMA IdleIs == TaskOK(Idle) /\ Idle.pc = "idle"
  BY DEF TaskOK, Idle

\* A step that writes no row.
LEMMA RowsStill ==
  ASSUME RowsOK, UNCHANGED <<rows, version>>, requests' = requests \/ (requests < MaxRequests /\ requests' = requests + 1)
  PROVE  RowsOK'
<1>1. requests \in Nat /\ MaxRequests \in Nat /\ version \in Nat /\ version <= requests /\ requests <= MaxRequests
  BY ServingAssumption DEF RowsOK
<1>2. requests' \in Nat /\ requests' <= MaxRequests /\ version <= requests'
  BY <1>1
<1> QED
  BY <1>2 DEF RowsOK

LEMMA WalkStill ==
  ASSUME UNCHANGED <<rows, version>>, NEW v, WalkIs(v)
  PROVE  WalkIs(v)'
  BY DEF WalkIs, Walked, Calm, NoTies, Matching, Existing, Sorted

LEMMA FeedStill ==
  ASSUME UNCHANGED <<rows, version>>, NEW f, FeedIs(f)
  PROVE  FeedIs(f)'
  BY DEF FeedIs, Newest, Newer, OfKind, Of, Existing

LEMMA FeedKept ==
  ASSUME FeedNewest, CountsAddUp, UNCHANGED <<rows, version, feed>>
  PROVE  FeedNewest' /\ CountsAddUp'
  BY DEF FeedNewest, CountsAddUp, Newer, Of, Existing

\* A step of one reader: the others are idle, or there is none.
LEMMA ReaderStep ==
  ASSUME ListingInv, UNCHANGED <<rows, version>>,
         requests' = requests \/ (requests < MaxRequests /\ requests' = requests + 1),
         WalkOK', feed'.at \in Int, feed'.at <= version, FeedNewest', CountsAddUp',
         NEW w \in Workers, work[w] # Idle \/ Busy = {},
         NEW task, work' = [work EXCEPT ![w] = task], TaskOK(task)'
  PROVE  ListingInv'
<1>1. \A v \in Workers : v # w => work[v] = Idle
  BY DEF ListingInv, OneReader, Busy
<1>2. /\ DOMAIN work' = Workers /\ work'[w] = task
      /\ \A v \in Workers : v # w => work'[v] = Idle
  BY <1>1 DEF ListingInv
<1>3. OneReader'
  BY <1>2 DEF OneReader
<1>4. \A v \in Workers : TaskOK(work[v])'
  <2> SUFFICES ASSUME NEW v \in Workers, NEW t, t = work'[v] PROVE TaskOK(t)'
    OBVIOUS
  <2>1. CASE v = w
    BY <1>2, <2>1
  <2>2. CASE v # w
    BY <1>2, <2>2 DEF TaskOK, Idle
  <2> QED
    BY <2>1, <2>2
<1>5. RowsOK'
  BY RowsStill DEF ListingInv
<1> QED
  BY <1>2, <1>3, <1>4, <1>5 DEF ListingInv

LEMMA TaskStill ==
  ASSUME UNCHANGED <<rows, version, walk>>, NEW t, TaskOK(t)
  PROVE  TaskOK(t)'
<1>1. PageOK(t) => PageOK(t)'
  BY DEF PageOK, Asks, Matching, Existing, Sorted
<1>2. BugsOK(t) => BugsOK(t)'
  <2>1. Sorted(Of({"error"}, t.open), FALSE)' = Sorted(Of({"error"}, t.open), FALSE)
    BY DEF Of, Existing, Sorted
  <2>2. ASSUME NEW s PROVE Read(Cut(s, 0, t.limit))' = Read(Cut(s, 0, t.limit))
    BY DEF Read
  <2> QED
    BY <2>1, <2>2 DEF BugsOK
<1>3. BadgeOK(t) => BadgeOK(t)'
  BY DEF BadgeOK, Of, Existing
<1> QED
  BY <1>1, <1>2, <1>3 DEF TaskOK

\* Nobody reads, and nobody begins to.
LEMMA ServedStep ==
  ASSUME ListingInv, UNCHANGED <<rows, version, feed, work>>,
         requests' = requests \/ (requests < MaxRequests /\ requests' = requests + 1),
         WalkOK', walk' = walk \/ Busy = {}
  PROVE  ListingInv'
<1>1. RowsOK' /\ DOMAIN work' = Workers /\ OneReader' /\ FeedNewest' /\ CountsAddUp'
  BY RowsStill, FeedKept DEF ListingInv, OneReader
<1>2. ASSUME NEW v \in Workers, NEW t, t = work'[v] PROVE TaskOK(t)'
  <2>1. TaskOK(t)
    BY <1>2 DEF ListingInv
  <2>2. CASE Busy = {}
    <3>1. t = Idle
      BY <1>2, <2>2 DEF Busy
    <3> QED
      BY <3>1 DEF TaskOK, Idle
  <2>3. CASE walk' = walk
    BY <2>1, <2>3, TaskStill
  <2> QED
    BY <2>2, <2>3
<1> QED
  BY <1>1, <1>2 DEF ListingInv

LEMMA WalkKept ==
  ASSUME WalkOK, UNCHANGED <<rows, version, walk>>
  PROVE  WalkOK'
<1> SUFFICES ASSUME walk' # NoWalk PROVE WalkIs(walk)'
  BY DEF WalkOK
<1>1. PICK v : v = walk
  OBVIOUS
<1>2. WalkIs(v)'
  BY <1>1, WalkStill DEF WalkOK
<1>3. v = walk'
  BY <1>1
<1> QED
  BY <1>2, <1>3

LEMMA WalkMoves ==
  ASSUME UNCHANGED <<rows, version>>, NEW v, WalkIs(v), walk' = v
  PROVE  WalkOK'
<1>1. WalkIs(v)'
  BY WalkStill
<1> QED
  BY <1>1 DEF WalkOK

LEMMA ListAllKeeps ==
  ASSUME ListingInv, NEW q \in Queries, ListAll(q)
  PROVE  ListingInv'
<1>1. /\ Whole(q) /\ Busy = {} /\ UNCHANGED <<rows, version, feed, work>>
      /\ requests < MaxRequests /\ requests' = requests + 1
  BY DEF ListAll, Served, Arrive, Wants
<1>2. PICK s \in Sorted(Existing(rows), q.up) :
        walk' = [q |-> q, page |-> 1, at |-> version, seen |-> s, total |-> Len(s), done |-> TRUE]
  BY DEF ListAll
<1> DEFINE v == [q |-> q, page |-> 1, at |-> version, seen |-> s, total |-> Len(s), done |-> TRUE]
<1>3. WalkIs(v)
  <2>1. s \in Seq(DOMAIN Shown) /\ version \in Nat
    BY ListsAre DEF ListingInv, RowsOK
  <2> QED
    BY <1>1, <2>1 DEF WalkIs, Walked
<1> HIDE DEF v
<1>4. walk' = v
  BY <1>2 DEF v
<1>5. WalkOK'
  BY <1>1, <1>3, <1>4, WalkMoves
<1> QED
  BY <1>1, <1>5, ServedStep

\* What the statements of a page are asked for.
LEMMA AskedFor ==
  ASSUME WalkOK, NEW q \in Queries, walk # NoWalk => walk.q = q, NEW p, p = Asks(q), ~Refused(p)
  PROVE  p \in ListRequest /\ Limit(p) \in Nat /\ Offset(p) \in Nat
<1>1. q \in ListRequest
  BY ListingAssumption
<1>2. p \in ListRequest
  <2>1. CASE walk = NoWalk
    BY <1>1, <2>1 DEF Asks
  <2>2. CASE walk # NoWalk
    <3>1. walk.page + 1 \in Int /\ p = [q EXCEPT !.page = walk.page + 1]
      BY <2>2 DEF WalkOK, WalkIs, Asks
    <3> QED
      BY <1>1, <3>1, NextPage
  <2> QED
    BY <2>1, <2>2
<1>3. Limit(p) \in Int /\ Page(p) \in Int
  BY <1>2, ParamsAre
<1>4. (Page(p) - 1) * Limit(p) \in Int
  BY <1>3
<1>5. Offset(p) \in Int
  BY <1>4 DEF Offset
<1> QED
  BY <1>2, <1>3, <1>5 DEF Refused

LEMMA PageCut ==
  ASSUME RowsOK, NEW p, Limit(p) \in Nat, Offset(p) \in Nat, NEW s \in Sorted(Matching(p), p.up)
  PROVE  Cut(s, Offset(p), Limit(p)) \in Seq(DOMAIN Shown)
<1>1. Matching(p) \subseteq Existing(rows)
  BY TableIs
<1>2. s \in Seq(DOMAIN Shown)
  BY <1>1, ListsAre
<1> QED
  BY <1>2, CutIs

\* A request that takes its first step goes on with a page.
LEMMA BeginsPage ==
  ASSUME ListingInv, NEW w \in Workers, NEW q \in Queries, Wants(q), ~Whole(q), NEW p, p = Asks(q), ~Refused(p),
         NEW t, PageOK(t), t.pc \in {"total", "page"}, Begin(w, "list", t), UNCHANGED listingVars
  PROVE  ListingInv'
<1>1. /\ UNCHANGED <<rows, version, walk, feed>> /\ Busy = {}
      /\ requests < MaxRequests /\ requests' = requests + 1
      /\ work' = [work EXCEPT ![w] = t]
  BY DEF Begin, Arrive, Wants, listingVars
<1>2. TaskOK(t)'
  <2>1. TaskOK(t)
    BY DEF TaskOK
  <2> QED
    BY <1>1, <2>1, TaskStill
<1>3. /\ WalkOK' /\ FeedNewest' /\ CountsAddUp' /\ feed'.at \in Int /\ feed'.at <= version
  BY <1>1, WalkKept, FeedKept DEF ListingInv
<1> QED
  BY <1>1, <1>2, <1>3, ReaderStep

LEMMA ListPageKeeps ==
  ASSUME ListingInv, NEW w \in Workers, NEW q \in Queries, ListPage(w, q)
  PROVE  ListingInv'
<1> DEFINE p == Asks(q)
<1>1. /\ ~Whole(q) /\ Wants(q) /\ UNCHANGED listingVars /\ RowsOK /\ WalkOK
      /\ version \in Nat /\ (walk # NoWalk => walk.q = q)
  BY DEF ListPage, Wants, ListingInv, RowsOK
<1>2. CASE Refused(p)
  <2>1. Served("list")
    BY <1>2 DEF ListPage
  <2>2. UNCHANGED <<rows, version, walk, feed, work>> /\ requests < MaxRequests /\ requests' = requests + 1
    BY <1>1, <2>1 DEF listingVars, Served, Arrive
  <2>3. WalkOK'
    BY <1>1, <2>2, WalkKept
  <2> QED
    BY <2>2, <2>3, ServedStep
<1>3. CASE ~Refused(p)
  <2>1. walk # NoWalk => walk.at <= version
    BY <1>1 DEF WalkOK, WalkIs
  <2>2. CASE q.list = "features"
    <3> DEFINE t == [pc |-> "page", q |-> q, p |-> p, at |-> version, total |-> Cardinality(Matching(p))]
    <3>1. Begin(w, "list", t)
      BY <1>3, <2>2 DEF ListPage
    <3>2. PageOK(t) /\ t.pc \in {"total", "page"}
      <4> HIDE DEF p
      <4>1. p = Asks(q)
        BY DEF p
      <4> QED
        BY <1>1, <1>3, <2>1, <4>1 DEF PageOK
    <3> HIDE DEF t, p
    <3>3. p = Asks(q)
      BY DEF p
    <3> QED
      BY <1>1, <1>3, <3>1, <3>2, <3>3, BeginsPage
  <2>3. CASE q.list # "features"
    <3>1. PICK s \in Sorted(Matching(p), p.up) :
            Begin(w, "list", [pc |-> "total", q |-> q, p |-> p, at |-> version,
                              ids |-> Cut(s, Offset(p), Limit(p))])
      BY <1>3, <2>3 DEF ListPage
    <3> DEFINE t == [pc |-> "total", q |-> q, p |-> p, at |-> version, ids |-> Cut(s, Offset(p), Limit(p))]
    <3>2. Cut(s, Offset(p), Limit(p)) \in Seq(DOMAIN Shown)
      BY <1>1, <1>3, AskedFor, PageCut
    <3>3. PageOK(t) /\ t.pc \in {"total", "page"}
      <4> HIDE DEF p
      <4>1. p = Asks(q)
        BY DEF p
      <4> QED
        BY <1>1, <1>3, <2>1, <3>2, <4>1 DEF PageOK
    <3>4. Begin(w, "list", t)
      BY <3>1
    <3> HIDE DEF t, p
    <3>5. p = Asks(q)
      BY DEF p
    <3> QED
      BY <1>1, <1>3, <3>3, <3>4, <3>5, BeginsPage
  <2> QED
    BY <2>2, <2>3
<1> QED
  BY <1>2, <1>3

\* A request that is answered.
LEMMA RequestAnswered ==
  ASSUME ListingInv, NEW w \in Workers, work[w] # Idle, UNCHANGED <<rows, version, requests>>, Finish(w),
         WalkOK', feed'.at \in Int, feed'.at <= version, FeedNewest', CountsAddUp'
  PROVE  ListingInv'
<1>1. PICK t : t = Idle
  OBVIOUS
<1>2. work' = [work EXCEPT ![w] = t]
  BY <1>1 DEF Finish, Goto
<1>3. TaskOK(t)'
  BY <1>1 DEF TaskOK, Idle
<1> QED
  BY <1>2, <1>3, ReaderStep

LEMMA AtWork ==
  ASSUME ListingInv, NEW w \in Workers, work[w].pc # "idle"
  PROVE  work[w] # Idle /\ TaskOK(work[w])
  BY DEF ListingInv, Idle

\* A page is shown.
LEMMA PageAnswered ==
  ASSUME ListingInv, NEW w \in Workers, NEW t, t = work[w], t.pc \in {"total", "page"},
         NEW ids \in Seq(DOMAIN Shown), NEW total,
         t.at = version =>
           /\ \E s \in Sorted(Matching(t.p), t.p.up) : ids = Cut(s, Offset(t.p), Limit(t.p))
           /\ total = Cardinality(Matching(t.p)),
         Shows(t.q, t.p, t.at, ids, total), Finish(w), UNCHANGED <<rows, version, requests, feed>>
  PROVE  ListingInv'
<1>1. work[w] # Idle /\ PageOK(t) /\ RowsOK /\ WalkOK
  BY AtWork DEF TaskOK, ListingInv
<1>2. PICK old : old = (IF t.p = t.q THEN <<>> ELSE walk.seen)
  OBVIOUS
<1>3. PICK seen : seen = old \o ids
  OBVIOUS
<1> DEFINE v == [q |-> t.q, page |-> Page(t.p), at |-> IF t.p = t.q THEN t.at ELSE walk.at,
                 seen |-> seen, total |-> total, done |-> Len(seen) >= total \/ ids = <<>>]
<1>4. walk' = v
  BY <1>2, <1>3 DEF Shows
<1>5. /\ v.q = t.q /\ v.page = Page(t.p) /\ v.at = (IF t.p = t.q THEN t.at ELSE walk.at)
      /\ v.seen = old \o ids /\ (v.done <=> (Len(old \o ids) >= total \/ ids = <<>>))
  BY <1>3
<1> HIDE DEF v
<1>6. WalkIs(v)
  BY <1>1, <1>2, <1>5, PageShown
<1>7. WalkOK'
  BY <1>4, <1>6, WalkMoves
<1>8. FeedNewest' /\ CountsAddUp' /\ feed'.at \in Int /\ feed'.at <= version
  BY FeedKept DEF ListingInv
<1> QED
  BY <1>1, <1>7, <1>8, RequestAnswered

LEMMA CountRowsKeeps ==
  ASSUME ListingInv, NEW w \in Workers, CountRows(w)
  PROVE  ListingInv'
<1>1. PICK t : t = work[w]
  OBVIOUS
<1>2. /\ t.pc = "total" /\ Finish(w) /\ UNCHANGED <<rows, version, requests, feed>>
      /\ Shows(t.q, t.p, t.at, t.ids, Cardinality(Matching(t.p)))
  BY <1>1 DEF CountRows, At
<1>3. PageOK(t)
  BY <1>1, <1>2, AtWork DEF TaskOK
<1>4. /\ t.ids \in Seq(DOMAIN Shown)
      /\ t.at = version => \E s \in Sorted(Matching(t.p), t.p.up) : t.ids = Cut(s, Offset(t.p), Limit(t.p))
  BY <1>2, <1>3 DEF PageOK
<1> QED
  BY <1>1, <1>2, <1>4, PageAnswered

LEMMA ListFeaturesKeeps ==
  ASSUME ListingInv, NEW w \in Workers, ListFeatures(w)
  PROVE  ListingInv'
<1>1. PICK t : t = work[w]
  OBVIOUS
<1>2. PICK s \in Sorted(Matching(t.p), t.p.up) :
        /\ t.pc = "page" /\ Finish(w) /\ UNCHANGED <<rows, version, requests, feed>>
        /\ Shows(t.q, t.p, t.at, Cut(s, Offset(t.p), Limit(t.p)), t.total)
  BY <1>1 DEF ListFeatures, At
<1>3. PageOK(t) /\ RowsOK /\ WalkOK
  BY <1>1, <1>2, AtWork DEF TaskOK, ListingInv
<1>4. /\ t.q \in Queries /\ t.p = Asks(t.q) /\ ~Refused(t.p) /\ (walk # NoWalk => walk.q = t.q)
      /\ t.at = version => t.total = Cardinality(Matching(t.p))
  BY <1>2, <1>3 DEF PageOK
<1>5. PICK ids : ids = Cut(s, Offset(t.p), Limit(t.p))
  OBVIOUS
<1>6. ids \in Seq(DOMAIN Shown)
  <2>1. Limit(t.p) \in Nat /\ Offset(t.p) \in Nat
    BY <1>3, <1>4, AskedFor
  <2> QED
    BY <1>3, <1>5, <2>1, PageCut
<1>7. Shows(t.q, t.p, t.at, ids, t.total)
  BY <1>2, <1>5
<1> QED
  BY <1>1, <1>2, <1>4, <1>5, <1>6, <1>7, PageAnswered

-----------------------------------------------------------------------------
(***************************************************************************)
(* The steps of the inbox.                                                 *)
(***************************************************************************)
LEMMA BeginsInbox ==
  ASSUME ListingInv, NEW w \in Workers, NEW op, NEW t, TaskOK(t), Begin(w, op, t), Busy = {}, UNCHANGED listingVars
  PROVE  ListingInv'
<1>1. /\ UNCHANGED <<rows, version, walk, feed>>
      /\ requests < MaxRequests /\ requests' = requests + 1
      /\ work' = [work EXCEPT ![w] = t]
  BY DEF Begin, Arrive, listingVars
<1>2. TaskOK(t)'
  BY <1>1, TaskStill
<1>3. /\ WalkOK' /\ FeedNewest' /\ CountsAddUp' /\ feed'.at \in Int /\ feed'.at <= version
  BY <1>1, WalkKept, FeedKept DEF ListingInv
<1> QED
  BY <1>1, <1>2, <1>3, ReaderStep

LEMMA InboxLimitIs ==
  ASSUME NEW n \in FeedLimits PROVE InboxLimit(n) \in Int /\ InboxLimit(n) <= CapRows
  BY CapsAre, ListingAssumption DEF InboxLimit

LEMMA FeedForKeeps ==
  ASSUME ListingInv, NEW w \in Workers, NEW n \in FeedLimits, NEW kind \in {"all", "error", "bug"},
         NEW open \in BOOLEAN, FeedFor(w, n, kind, open)
  PROVE  ListingInv'
<1>1. PICK k : k = InboxLimit(n)
  OBVIOUS
<1> DEFINE task(items) == [pc |-> "bugs", limit |-> k, kind |-> kind, open |-> open,
                           at |-> version, items |-> items]
<1>2. k \in Int /\ k <= CapRows /\ Busy = {} /\ UNCHANGED listingVars /\ version \in Nat /\ RowsOK /\ WalkOK
  BY <1>1, InboxLimitIs DEF FeedFor, ListingInv, RowsOK
<1>3. CASE kind = "bug"
  <2>1. Begin(w, "inbox", task(<<>>))
    BY <1>1, <1>3 DEF FeedFor
  <2>2. TaskOK(task(<<>>))
    BY <1>2, <1>3 DEF TaskOK, BugsOK
  <2> HIDE DEF task
  <2> QED
    BY <1>2, <2>1, <2>2, BeginsInbox
<1>4. CASE kind # "bug" /\ k < 0
  <2>1. Served("inbox")
    BY <1>1, <1>4 DEF FeedFor
  <2>2. UNCHANGED <<rows, version, walk, feed, work>> /\ requests < MaxRequests /\ requests' = requests + 1
    BY <1>2, <2>1 DEF listingVars, Served, Arrive
  <2>3. WalkOK'
    BY <1>2, <2>2, WalkKept
  <2> QED
    BY <2>2, <2>3, ServedStep
<1>5. CASE kind # "bug" /\ ~(k < 0)
  <2>1. PICK s \in Sorted(Of({"error"}, open), FALSE) : Begin(w, "inbox", task(Read(Cut(s, 0, k))))
    BY <1>1, <1>5 DEF FeedFor
  <2>2. PICK x : x = Read(Cut(s, 0, k))
    OBVIOUS
  <2>3. TaskOK(task(x))
    <3>1. \E r \in Sorted(Of({"error"}, open), FALSE) : x = Read(Cut(r, 0, k))
      BY <2>2
    <3>2. k >= 0
      BY <1>2, <1>5
    <3>3. version \in Nat /\ version <= version
      BY <1>2
    <3>4. BugsOK(task(x))
      BY <1>2, <1>5, <3>1, <3>2, <3>3 DEF BugsOK
    <3> QED
      BY <3>4 DEF TaskOK
  <2>4. Begin(w, "inbox", task(x))
    BY <2>1, <2>2
  <2> HIDE DEF task
  <2> QED
    BY <1>2, <2>3, <2>4, BeginsInbox
<1> QED
  BY <1>3, <1>4, <1>5

\* An answer of the inbox is kept.
LEMMA FeedAnswered ==
  ASSUME ListingInv, NEW w \in Workers, work[w] # Idle, UNCHANGED <<rows, version, requests, walk>>, Finish(w),
         NEW f, FeedIs(f), f.at \in Int, f.at <= version, feed' = f
  PROVE  ListingInv'
<1>1. WalkOK'
  BY WalkKept DEF ListingInv
<1>2. FeedIs(feed)'
  <2>1. FeedIs(f)'
    BY FeedStill
  <2> QED
    BY <2>1 DEF FeedIs
<1>3. FeedNewest' /\ CountsAddUp'
  BY <1>2, FeedIsRight, PTL
<1> QED
  BY <1>1, <1>3, RequestAnswered

LEMMA FeedMergeKeeps ==
  ASSUME ListingInv, NEW w \in Workers, FeedMerge(w)
  PROVE  ListingInv'
<1>1. PICK t : t = work[w]
  OBVIOUS
<1>2. PICK B : B = IF t.kind = "error" THEN {} ELSE Of({"bug", "feature"}, t.open)
  OBVIOUS
<1>3. PICK s \in Sorted(B, FALSE) :
        LET merged == Merged(t.items \o Read(Cut(s, 0, Clamped(t.limit))))
        IN  feed' = [at |-> t.at, kind |-> t.kind, open |-> t.open, limit |-> t.limit,
                     items |-> IF t.limit >= 0 THEN Cut(merged, 0, t.limit) ELSE merged]
  BY <1>1, <1>2 DEF FeedMerge
<1>4. t.pc = "bugs" /\ UNCHANGED <<rows, version, requests, walk>> /\ Finish(w)
  BY <1>1 DEF FeedMerge, At
<1>5. BugsOK(t) /\ RowsOK /\ work[w] # Idle
  BY <1>1, <1>4, AtWork DEF TaskOK, ListingInv
<1>6. PICK items : items = IF t.limit >= 0 THEN Cut(Merged(t.items \o Read(Cut(s, 0, Clamped(t.limit)))), 0, t.limit)
                           ELSE Merged(t.items \o Read(Cut(s, 0, Clamped(t.limit))))
  OBVIOUS
<1>7. PICK f : f = [at |-> t.at, kind |-> t.kind, open |-> t.open, limit |-> t.limit, items |-> items]
  OBVIOUS
<1>8. feed' = f
  BY <1>3, <1>6, <1>7
<1>9. f.at = t.at /\ f.kind = t.kind /\ f.open = t.open /\ f.limit = t.limit /\ f.items = items
  BY <1>7
<1>10. t.at \in Int /\ t.at <= version /\ t.limit \in Int /\ t.kind # "counts"
  BY <1>5 DEF BugsOK
<1>11. ASSUME t.at = version, t.limit > 0 PROVE Newest(items, OfKind(t.kind, t.open), t.limit)
  <2>1. items = Cut(Merged(t.items \o Read(Cut(s, 0, Clamped(t.limit)))), 0, t.limit)
    BY <1>6, <1>10, <1>11
  <2> QED
    BY <1>2, <1>5, <1>11, <2>1, FeedMerged
<1>12. FeedIs(f)
  BY <1>9, <1>10, <1>11 DEF FeedIs
<1> QED
  BY <1>4, <1>5, <1>8, <1>9, <1>10, <1>12, FeedAnswered

LEMMA CountingIs == \A t : Counting(t) => t.n \in Int /\ t.at \in Int /\ t.at \in Nat
  BY DEF Counting

LEMMA CountingNew ==
  ASSUME NEW n \in Int, NEW at \in Nat, NEW t, t = [pc |-> "features", n |-> n, at |-> at]
  PROVE  Counting(t) /\ t.pc = "features" /\ t.n = n /\ t.at = at
  BY DEF Counting

CountedOn(t, n, task) == DOMAIN task = {"pc", "n", "at"} /\ task.pc = "errors" /\ task.n = n /\ task.at = t.at

LEMMA CountingFields ==
  ASSUME NEW t, Counting(t), NEW n, NEW task, task = [t EXCEPT !.pc = "errors", !.n = n]
  PROVE  CountedOn(t, n, task)
  BY DEF Counting, CountedOn

LEMMA CountingOn ==
  ASSUME NEW t, Counting(t), NEW n \in Int, NEW task, CountedOn(t, n, task)
  PROVE  Counting(task) /\ task.pc = "errors" /\ task.n = n /\ task.at = t.at
  BY DEF Counting, CountedOn

LEMMA InboxCountsKeeps ==
  ASSUME ListingInv, NEW w \in Workers, InboxCounts(w)
  PROVE  ListingInv'
<1> DEFINE t == [pc |-> "features", n |-> Cardinality(Of({"bug"}, TRUE)), at |-> version]
<1>1. Busy = {} /\ Begin(w, "counts", t) /\ UNCHANGED listingVars
  BY DEF InboxCounts
<1>2. TaskOK(t)
  <2>1. PICK n \in Nat : n = Cardinality(Of({"bug"}, TRUE))
    BY CountsOfAll DEF ListingInv
  <2>2. version \in Nat /\ version <= version
    BY DEF ListingInv, RowsOK
  <2>3. t = [pc |-> "features", n |-> n, at |-> version]
    BY <2>1
  <2>4. BadgeOK(t)
    <3>1. Counting(t) /\ t.pc = "features" /\ t.n = n /\ t.at = version
      <4>1. \A m \in Nat : m \in Int
        OBVIOUS
      <4> HIDE DEF t
      <4> QED
        BY <2>1, <2>2, <2>3, <4>1, CountingNew
    <3> HIDE DEF t
    <3> QED
      BY <2>1, <2>2, <3>1 DEF BadgeOK
  <2> QED
    BY <2>4 DEF TaskOK
<1> HIDE DEF t
<1> QED
  BY <1>1, <1>2, BeginsInbox

LEMMA CountFeaturesKeeps ==
  ASSUME ListingInv, NEW w \in Workers, CountMore(w, "features", "feature", "errors")
  PROVE  ListingInv'
<1>1. PICK t : t = work[w]
  OBVIOUS
<1>2. PICK n : n = t.n + Cardinality(Of({"feature"}, TRUE))
  OBVIOUS
<1>3. PICK task : task = [t EXCEPT !.pc = "errors", !.n = n]
  OBVIOUS
<1>4. /\ t.pc = "features" /\ UNCHANGED <<rows, version, requests, walk, feed>>
      /\ work' = [work EXCEPT ![w] = task]
  BY <1>1, <1>2, <1>3 DEF CountMore, At, Goto
<1>5. BadgeOK(t) /\ RowsOK /\ work[w] # Idle
  BY <1>1, <1>4, AtWork DEF TaskOK, ListingInv
<1>6. TaskOK(task)
  <2>1. Counting(t) /\ t.at <= version
        /\ (t.at = version => t.n = Cardinality(Of({"bug"}, TRUE)))
    <3>1. Counting(t) /\ t.at <= version
      BY <1>5 DEF BadgeOK
    <3>2. t.at = version => t.n = Cardinality(Of({"bug"}, TRUE))
      BY <1>4, <1>5, Zenon DEF BadgeOK
    <3>3. t.at \in Int
      BY <3>1, CountingIs
    <3> QED
      BY <3>1, <3>2, <3>3
  <2>2. n \in Int
    <3>1. t.n \in Int
      BY <2>1, CountingIs
    <3>2. PICK c : c = Cardinality(Of({"feature"}, TRUE))
      OBVIOUS
    <3>3. c \in Nat
      BY <1>5, <3>2, CountsOfAll
    <3>4. \A a \in Int, b \in Nat : a + b \in Int
      OBVIOUS
    <3> QED
      BY <1>2, <3>1, <3>2, <3>3, <3>4
  <2>3. Counting(task) /\ task.at = t.at /\ task.n = n /\ task.pc = "errors"
    <3>1. Counting(t)
      BY <2>1
    <3>2. CountedOn(t, n, task)
      BY <1>3, <3>1, CountingFields
    <3> QED
      BY <2>2, <3>1, <3>2, CountingOn
  <2>4. BadgeOK(task)
    BY <1>2, <2>1, <2>3 DEF BadgeOK
  <2> QED
    BY <2>3, <2>4 DEF TaskOK
<1>7. TaskOK(task)'
  BY <1>4, <1>6, TaskStill
<1>8. /\ WalkOK' /\ FeedNewest' /\ CountsAddUp' /\ feed'.at \in Int /\ feed'.at <= version
  BY <1>4, WalkKept, FeedKept DEF ListingInv
<1> QED
  BY <1>4, <1>5, <1>7, <1>8, ReaderStep

LEMMA CountErrorsKeeps ==
  ASSUME ListingInv, NEW w \in Workers, CountMore(w, "errors", "error", "done")
  PROVE  ListingInv'
<1>1. PICK t : t = work[w]
  OBVIOUS
<1>2. PICK n : n = t.n + Cardinality(Of({"error"}, TRUE))
  OBVIOUS
<1>3. PICK f : f = [at |-> t.at, kind |-> "counts", n |-> n]
  OBVIOUS
<1>4. /\ t.pc = "errors" /\ UNCHANGED <<rows, version, requests, walk>> /\ Finish(w) /\ feed' = f
  BY <1>1, <1>2, <1>3 DEF CountMore, At
<1>5. BadgeOK(t) /\ RowsOK /\ work[w] # Idle
  BY <1>1, <1>4, AtWork DEF TaskOK, ListingInv
<1>6. FeedIs(f) /\ f.at \in Int /\ f.at <= version
  <2>1. t.at \in Int /\ t.at <= version
        /\ (t.at = version => t.n = Cardinality(Of({"bug"}, TRUE)) + Cardinality(Of({"feature"}, TRUE)))
    <3>1. Counting(t) /\ t.at <= version
      BY <1>5 DEF BadgeOK
    <3>2. t.pc # "features"
      BY <1>4
    <3>3. t.at = version => t.n = Cardinality(Of({"bug"}, TRUE)) + Cardinality(Of({"feature"}, TRUE))
      BY <1>5, <3>2, Zenon DEF BadgeOK
    <3>4. t.at \in Int
      BY <3>1, CountingIs
    <3> QED
      BY <3>1, <3>3, <3>4
  <2>2. t.at = version => n = Cardinality(Of(Sources, TRUE))
    BY <1>2, <1>5, <2>1, CountsOfAll
  <2>3. f.at = t.at /\ f.kind = "counts" /\ f.n = n
    BY <1>3
  <2> QED
    BY <2>1, <2>2, <2>3 DEF FeedIs
<1> QED
  BY <1>4, <1>5, <1>6, FeedAnswered

-----------------------------------------------------------------------------
LEMMA WriteRowKeeps ==
  ASSUME ListingInv, NEW i \in DOMAIN rows, NEW r \in RowBodies \cup {NoRow}, WriteRow(i, r)
  PROVE  ListingInv'
<1>1. /\ UNCHANGED <<walk, feed, work>> /\ requests < MaxRequests /\ requests' = requests + 1
      /\ version' = version + 1 /\ rows' = [rows EXCEPT ![i] = r]
  BY DEF WriteRow, Served, Arrive
<1>2. RowsOK'
  <2>1. /\ version \in Nat /\ version <= requests /\ requests \in Nat /\ MaxRequests \in Nat
        /\ DOMAIN rows = DOMAIN Shown /\ \A j \in DOMAIN rows : rows[j] \in Row \cup {NoRow}
    BY ServingAssumption DEF ListingInv, RowsOK
  <2>2. r \in Row \cup {NoRow}
    BY ListingAssumption
  <2>3. DOMAIN rows' = DOMAIN Shown /\ \A j \in DOMAIN rows' : rows'[j] \in Row \cup {NoRow}
    BY <1>1, <2>1, <2>2
  <2>4. version' \in Nat /\ version' <= requests' /\ requests' \in Nat /\ requests' <= MaxRequests
    BY <1>1, <2>1
  <2> QED
    BY <2>3, <2>4 DEF RowsOK
<1>3. \A n \in Int : n <= version => n <= version' /\ n # version'
  BY <1>1 DEF ListingInv, RowsOK
<1>4. \A n \in Nat : n \in Int
  OBVIOUS
<1>5. WalkOK'
  BY <1>1, <1>3, <1>4 DEF ListingInv, WalkOK, WalkIs
<1>6. feed'.at \in Int /\ feed'.at <= version' /\ FeedNewest' /\ CountsAddUp'
  BY <1>1, <1>3 DEF ListingInv, FeedNewest, CountsAddUp
<1>7. ASSUME NEW t, TaskOK(t) PROVE TaskOK(t)'
  <2>1. PageOK(t) => PageOK(t)'
    BY <1>1, <1>3, <1>4 DEF PageOK, Asks
  <2>2. BugsOK(t) => BugsOK(t)'
    BY <1>3, <1>4 DEF BugsOK
  <2>3. BadgeOK(t) => BadgeOK(t)'
    BY <1>3, CountingIs DEF BadgeOK
  <2> QED
    BY <1>7, <2>1, <2>2, <2>3 DEF TaskOK
<1>8. \A w \in Workers : TaskOK(work[w])'
  <2> SUFFICES ASSUME NEW w \in Workers, NEW t, t = work'[w] PROVE TaskOK(t)'
    OBVIOUS
  <2> QED
    BY <1>1, <1>7 DEF ListingInv
<1>9. DOMAIN work' = Workers /\ OneReader'
  BY <1>1 DEF ListingInv, OneReader
<1> QED
  BY <1>2, <1>5, <1>6, <1>8, <1>9 DEF ListingInv

LEMMA ListingAbortKeeps ==
  ASSUME ListingInv, NEW w \in Workers, ListingAbort(w)
  PROVE  ListingInv'
<1>1. work[w] # Idle /\ Finish(w) /\ UNCHANGED <<rows, version, walk, feed, requests>>
  BY DEF ListingAbort, Abort, listingVars
<1>2. WalkOK' /\ FeedNewest' /\ CountsAddUp' /\ feed'.at \in Int /\ feed'.at <= version
  BY <1>1, WalkKept, FeedKept DEF ListingInv
<1> QED
  BY <1>1, <1>2, RequestAnswered

LEMMA ListingInitially == ServingInit /\ ListingInit => ListingInv
<1> SUFFICES ASSUME ServingInit, ListingInit PROVE ListingInv
  OBVIOUS
<1>1. /\ work = [w \in Workers |-> Idle] /\ requests = 0 /\ MaxRequests \in Nat
      /\ rows = Shown /\ version = 0 /\ walk = NoWalk /\ feed.at = -1
  BY ServingAssumption DEF ServingInit, ListingInit, NoFeed
<1>2. RowsOK
  BY <1>1, ListingAssumption DEF RowsOK
<1>3. FeedNewest /\ CountsAddUp /\ feed.at \in Int /\ feed.at <= version
  BY <1>1 DEF FeedNewest, CountsAddUp
<1> QED
  BY <1>1, <1>2, <1>3, IdleIs DEF ListingInv, OneReader, WalkOK

LEMMA ListingStep == ListingInv /\ [ListingNext]_<<servingVars, listingVars>> => ListingInv'
<1> SUFFICES ASSUME ListingInv, [ListingNext]_<<servingVars, listingVars>> PROVE ListingInv'
  OBVIOUS
<1>1. CASE \E q \in Queries : ListAll(q)
  BY <1>1, ListAllKeeps
<1>2. CASE \E q \in Queries, w \in Workers : ListPage(w, q)
  BY <1>2, ListPageKeeps
<1>3. CASE \E i \in DOMAIN rows, r \in RowBodies \cup {NoRow} : WriteRow(i, r)
  BY <1>3, WriteRowKeeps
<1>4. CASE \E w \in Workers : CountRows(w)
  BY <1>4, CountRowsKeeps
<1>5. CASE \E w \in Workers : ListFeatures(w)
  BY <1>5, ListFeaturesKeeps
<1>6. CASE \E w \in Workers : FeedMerge(w)
  BY <1>6, FeedMergeKeeps
<1>7. CASE \E w \in Workers : InboxCounts(w)
  BY <1>7, InboxCountsKeeps
<1>8. CASE \E w \in Workers : ListingAbort(w)
  BY <1>8, ListingAbortKeeps
<1>9. CASE \E w \in Workers : CountMore(w, "features", "feature", "errors")
  BY <1>9, CountFeaturesKeeps
<1>10. CASE \E w \in Workers : CountMore(w, "errors", "error", "done")
  BY <1>10, CountErrorsKeeps
<1>11. CASE \E w \in Workers, n \in FeedLimits, kind \in {"all", "error", "bug"}, open \in BOOLEAN :
              FeedFor(w, n, kind, open)
  BY <1>11, FeedForKeeps
<1>12. CASE UNCHANGED <<servingVars, listingVars>>
  <2>1. UNCHANGED <<rows, version, feed, work, walk, requests>>
    BY <1>12 DEF servingVars, listingVars
  <2>2. WalkOK'
    BY <2>1, WalkKept DEF ListingInv
  <2> QED
    BY <2>1, <2>2, ServedStep
<1> QED
  BY <1>1, <1>2, <1>3, <1>4, <1>5, <1>6, <1>7, <1>8, <1>9, <1>10, <1>11, <1>12 DEF ListingNext

LEMMA ListingInvariant == ListingSpec => []ListingInv
  BY ListingInitially, ListingStep, PTL DEF ListingSpec

LEMMA InvComplete == ListingInv => ListsComplete
<1> SUFFICES ASSUME ListingInv, walk.done, walk.at = version, Calm(walk.q)
             PROVE  walk.seen \in Sorted(IF Whole(walk.q) THEN Existing(rows) ELSE Matching(walk.q), walk.q.up)
  BY DEF ListingInv, ListsComplete, WalkComplete, Calm
<1>1. walk # NoWalk
  BY DEF NoWalk
<1>2. Walked(walk)
  BY <1>1 DEF ListingInv, WalkOK, WalkIs
<1> QED
  BY <1>2 DEF Walked

\* Turning the pages shows every row once and in order, the inbox shows the newest
\* rows of both sources, and its totals add up, as far as no row was written since
\* they were read: the statements of a page and its total are two, and so are those
\* of the inbox (listquery's LIMIT and OFFSET, the inbox's merge and cut).
THEOREM ListsAlwaysComplete == ListingSpec => []ListsComplete
  BY ListingInvariant, InvComplete, PTL

LEMMA InvTyped == ListingInv => ListingTypeOK
<1> SUFFICES ASSUME ListingInv PROVE ListingTypeOK
  OBVIOUS
<1>1. \A i \in Existing(rows) : rows[i] \in Row
  BY DEF ListingInv, RowsOK, Existing
<1>2. version \in 0..MaxRequests
  BY ServingAssumption DEF ListingInv, RowsOK
<1>3. walk.seen \in Seq(DOMAIN Shown)
  <2>1. CASE walk = NoWalk
    BY <2>1 DEF NoWalk
  <2>2. CASE walk # NoWalk
    BY <2>2 DEF ListingInv, WalkOK, WalkIs
  <2> QED
    BY <2>1, <2>2
<1>4. ToSet(walk.seen) \subseteq DOMAIN rows
  BY <1>3 DEF ToSet, ListingInv, RowsOK
<1> QED
  BY <1>1, <1>2, <1>4 DEF ListingTypeOK

\* The table keeps well-formed rows, and a list shows ids of it only (no page makes
\* one up or keeps one of another table).
THEOREM ListingTyped == ListingSpec => []ListingTypeOK
  BY ListingInvariant, InvTyped, PTL
=============================================================================
