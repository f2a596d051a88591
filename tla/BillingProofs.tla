----------------------------- MODULE BillingProofs -----------------------------
(***************************************************************************)
(* Theorems about Billing for any accounts, plans, purchases and number of *)
(* requests at a time.                                                     *)
(***************************************************************************)
EXTENDS BillingProps, TLAPS

-----------------------------------------------------------------------------
(***************************************************************************)
(* The statements, as relations between the table before and after.        *)
(***************************************************************************)

\* T2 has the rows of T, and a row has at most lost status or changed its
\* expiry and store reference.
Rewrites(T, T2) ==
  /\ T2 \in Seq(SubRow) /\ Len(T2) = Len(T)
  /\ \A i \in 1 .. Len(T) :
       /\ T2[i].user = T[i].user /\ T2[i].plan = T[i].plan
       /\ T2[i].src = T[i].src /\ T2[i].horizon = T[i].horizon
       /\ \/ T2[i].status = T[i].status
          \/ T2[i].status = "expired"
          \/ T2[i].status = "cancelled" /\ T[i].status = "active"

\* The store reference of every row is left alone.
KeepsRefs(T, T2) ==
  \A i \in 1 .. Len(T) : T2[i].store = T[i].store /\ T2[i].txn = T[i].txn

\* A statement that maps every row to a row leaves a table of the same length.
LEMMA MapRows ==
  ASSUME NEW T \in Seq(SubRow), NEW T2,
         T2 = [i \in DOMAIN T |-> T2[i]],
         \A i \in 1 .. Len(T) : T2[i] \in SubRow
  PROVE  T2 \in Seq(SubRow) /\ Len(T2) = Len(T)
<1>1. DOMAIN T = 1 .. Len(T) /\ Len(T) \in Nat
  OBVIOUS
<1>2. T2 \in [1 .. Len(T) -> SubRow]
  BY <1>1
<1>3. QED
  BY <1>1, <1>2

\* An update of the status either expires rows or cancels active ones.
LEMMA SetStatusRewrites ==
  ASSUME NEW T \in Seq(SubRow), NEW M, NEW st \in SubStatus,
         \/ st = "expired"
         \/ st = "cancelled" /\ \A i \in M : T[i].status = "active"
  PROVE  Rewrites(T, SetStatus(T, M, st)) /\ KeepsRefs(T, SetStatus(T, M, st))
<1> DEFINE T2 == SetStatus(T, M, st)
<1>1. DOMAIN T = 1 .. Len(T) /\ \A i \in 1 .. Len(T) : T[i] \in SubRow
  OBVIOUS
<1>2. \A i \in 1 .. Len(T) :
        T2[i] = IF i \in M THEN [T[i] EXCEPT !.status = st] ELSE T[i]
  BY <1>1 DEF SetStatus
<1>3. \A i \in 1 .. Len(T) : T2[i] \in SubRow
  <2>1. TAKE i \in 1 .. Len(T)
  <2>2. T[i] \in SubRow /\ T2[i] = IF i \in M THEN [T[i] EXCEPT !.status = st] ELSE T[i]
    BY <1>1, <1>2
  <2>3. \A r \in SubRow : [r EXCEPT !.status = st] \in SubRow
    BY DEF SubRow
  <2>4. QED
    BY <2>2, <2>3
<1>4. T2 \in Seq(SubRow) /\ Len(T2) = Len(T)
  <2>1. T2 = [i \in DOMAIN T |-> T2[i]]
    BY DEF SetStatus
  <2>2. QED
    BY <1>3, <2>1, MapRows
<1>5. QED
  BY <1>1, <1>2, <1>4 DEF Rewrites, KeepsRefs, SubRow

\* The cancelling and expiring statements.
LEMMA CancelUserRewrites ==
  ASSUME NEW T \in Seq(SubRow), NEW u
  PROVE  /\ Rewrites(T, CancelActiveSubsByUser(T, u))
         /\ KeepsRefs(T, CancelActiveSubsByUser(T, u))
<1>1. "cancelled" \in SubStatus
  BY DEF SubStatus
<1>2. \A i \in ActiveOf(T, u) : T[i].status = "active"
  BY DEF ActiveOf
<1>3. QED
  BY <1>1, <1>2, SetStatusRewrites DEF CancelActiveSubsByUser

LEMMA CancelRefRewrites ==
  ASSUME NEW T \in Seq(SubRow), NEW s, NEW x
  PROVE  /\ Rewrites(T, CancelByStoreRef(T, s, x))
         /\ KeepsRefs(T, CancelByStoreRef(T, s, x))
<1>1. "cancelled" \in SubStatus
  BY DEF SubStatus
<1>2. \A i \in ActiveByStoreRef(T, s, x) : T[i].status = "active"
  BY DEF ActiveByStoreRef
<1>3. QED
  BY <1>1, <1>2, SetStatusRewrites DEF CancelByStoreRef

LEMMA LapsedRewrites ==
  ASSUME NEW T \in Seq(SubRow), NEW time
  PROVE  /\ Rewrites(T, ExpireLapsedSubs(T, time))
         /\ KeepsRefs(T, ExpireLapsedSubs(T, time))
<1>1. "expired" \in SubStatus
  BY DEF SubStatus
<1>2. QED
  BY <1>1, SetStatusRewrites DEF ExpireLapsedSubs

\* An update of the expiry.
LEMMA ExtendRewrites ==
  ASSUME NEW T \in Seq(SubRow), NEW s, NEW x, NEW end \in Nat \cup {NoExpiry}
  PROVE  /\ Rewrites(T, ExtendByStoreRef(T, s, x, end))
         /\ KeepsRefs(T, ExtendByStoreRef(T, s, x, end))
<1>0. DOMAIN T = 1 .. Len(T) /\ \A i \in 1 .. Len(T) : T[i] \in SubRow
  OBVIOUS
<1> DEFINE T2 == ExtendByStoreRef(T, s, x, end)
<1>1. \A i \in 1 .. Len(T) : T2[i] = T[i] \/ T2[i] = [T[i] EXCEPT !.exp = end]
  BY <1>0 DEF ExtendByStoreRef
<1>2. \A r \in SubRow :
        /\ [r EXCEPT !.exp = end] \in SubRow
        /\ [r EXCEPT !.exp = end].user = r.user /\ [r EXCEPT !.exp = end].plan = r.plan
        /\ [r EXCEPT !.exp = end].src = r.src /\ [r EXCEPT !.exp = end].horizon = r.horizon
        /\ [r EXCEPT !.exp = end].status = r.status
        /\ [r EXCEPT !.exp = end].store = r.store /\ [r EXCEPT !.exp = end].txn = r.txn
  BY DEF SubRow
<1>3. \A i \in 1 .. Len(T) : T2[i] \in SubRow
  BY <1>0, <1>1, <1>2
<1>4. T2 = [i \in DOMAIN T |-> T2[i]]
  BY DEF ExtendByStoreRef
<1>5. T2 \in Seq(SubRow) /\ Len(T2) = Len(T)
  BY <1>3, <1>4, MapRows
<1> HIDE DEF T2
<1>6. Rewrites(T, T2) /\ KeepsRefs(T, T2)
  BY <1>0, <1>1, <1>2, <1>5, ZenonT(60) DEF Rewrites, KeepsRefs
<1>7. QED
  BY <1>6 DEF T2

\* An update of the status to expired, and of the expiry.
LEMMA ExpireRewrites ==
  ASSUME NEW T \in Seq(SubRow), NEW s, NEW x, NEW time \in Nat
  PROVE  /\ Rewrites(T, ExpireByStoreRef(T, s, x, time))
         /\ KeepsRefs(T, ExpireByStoreRef(T, s, x, time))
<1>0. DOMAIN T = 1 .. Len(T) /\ \A i \in 1 .. Len(T) : T[i] \in SubRow
  OBVIOUS
<1> DEFINE E(r) == [r EXCEPT !.status = "expired", !.exp = time]
           T2 == ExpireByStoreRef(T, s, x, time)
<1>1. \A i \in 1 .. Len(T) : T2[i] = T[i] \/ T2[i] = E(T[i])
  BY <1>0 DEF ExpireByStoreRef
<1>2. \A r \in SubRow :
        /\ E(r) \in SubRow
        /\ E(r).user = r.user /\ E(r).plan = r.plan
        /\ E(r).src = r.src /\ E(r).horizon = r.horizon
        /\ E(r).status = "expired"
        /\ E(r).store = r.store /\ E(r).txn = r.txn
  BY DEF SubRow, SubStatus
<1> HIDE DEF E
<1>3. \A i \in 1 .. Len(T) : T2[i] \in SubRow
  BY <1>0, <1>1, <1>2
<1>4. T2 = [i \in DOMAIN T |-> T2[i]]
  BY DEF ExpireByStoreRef
<1>5. T2 \in Seq(SubRow) /\ Len(T2) = Len(T)
  BY <1>3, <1>4, MapRows
<1> HIDE DEF T2
<1>6. Rewrites(T, T2) /\ KeepsRefs(T, T2)
  BY <1>0, <1>1, <1>2, <1>5 DEF Rewrites, KeepsRefs
<1>7. QED
  BY <1>6 DEF T2

\* A stamp writes its reference on some rows of M and leaves the others.
StampsOnly(T, T2, M, s, x) ==
  \A i \in 1 .. Len(T) :
    \/ i \in M /\ T2[i].store = s /\ T2[i].txn = x
    \/ T2[i].store = T[i].store /\ T2[i].txn = T[i].txn

LEMMA StampRewrites ==
  ASSUME NEW T \in Seq(SubRow), NEW M, NEW s \in StoreTypes, NEW x \in Purchases
  PROVE  /\ Rewrites(T, StampRows(T, M, s, x))
         /\ StampsOnly(T, StampRows(T, M, s, x), M, s, x)
<1>1. DOMAIN T = 1 .. Len(T) /\ \A i \in 1 .. Len(T) : T[i] \in SubRow
  OBVIOUS
<1> DEFINE E(r) == [r EXCEPT !.store = s, !.txn = x]
           T2 == StampRows(T, M, s, x)
<1>2. \A i \in 1 .. Len(T) : T2[i] = T[i] \/ (i \in M /\ T2[i] = E(T[i]))
  BY <1>1 DEF StampRows
<1>3. \A r \in SubRow :
        /\ E(r) \in SubRow
        /\ E(r).user = r.user /\ E(r).plan = r.plan
        /\ E(r).src = r.src /\ E(r).horizon = r.horizon
        /\ E(r).status = r.status /\ E(r).store = s /\ E(r).txn = x
  BY DEF SubRow
<1> HIDE DEF E
<1>4. \A i \in 1 .. Len(T) : T2[i] \in SubRow
  BY <1>1, <1>2, <1>3
<1>5. T2 = [i \in DOMAIN T |-> T2[i]]
  BY DEF StampRows
<1>6. T2 \in Seq(SubRow) /\ Len(T2) = Len(T)
  BY <1>4, <1>5, MapRows
<1> HIDE DEF T2
<1>7. Rewrites(T, T2) /\ StampsOnly(T, T2, M, s, x)
  BY <1>1, <1>2, <1>3, <1>6 DEF Rewrites, StampsOnly
<1>8. QED
  BY <1>7 DEF T2

-----------------------------------------------------------------------------
(***************************************************************************)
(* The types, with what each kind of request carries at each point.        *)
(***************************************************************************)
OpPc(op, pc) ==
  \/ op = "none" /\ pc = "idle"
  \/ op = "checkout" /\ pc \in {"provider", "markFailed"}
  \/ op = "complete" /\ pc \in {"link", "check", "replan", "read", "mark",
                                "cancel", "insert", "stamp", "extend"}
  \/ op = "fail" /\ pc \in {"read", "fail"}
  \/ op = "confirm" /\ pc \in {"confirm", "cancel", "insert"}
  \/ op = "redeem" /\ pc \in {"cancel", "insert", "stampUser"}
  \/ op = "grant" /\ pc \in {"cancel", "insert"}
  \/ op = "refund" /\ pc \in {"lookup", "stripeRefund", "stripeCancel",
                              "refundMark", "refundCancel"}
  \/ op = "usercancel" /\ pc = "providerCancel"

\* What a request of kind op is about.
OnPayment(op) == op \in {"checkout", "complete", "fail", "confirm", "refund"}
About(op, x) == 
  \/ OnPayment(op) /\ x \in Payments
  \/ op = "redeem" /\ x \in AppleTxns

TaskInv(t) ==
  /\ OpPc(t.op, t.pc)
  /\ t.op \notin {"none", "grant", "usercancel"} => About(t.op, t.x) /\ t.user = Owner[t.x]
  /\ t.op \in {"none", "grant", "usercancel"} => t.x = None
  /\ t.op \notin {"none", "usercancel"} =>
       t.user \in Users /\ t.plan \in Plans /\ t.store \in StoreTypes
  /\ t.pc \in {"providerCancel", "stripeRefund", "stripeCancel", "refundCancel"} =>
       t.txn \in Purchases

WorkOK == work \in [Workers -> Task] /\ \A w \in Workers : TaskInv(work[w])

Charges == {"completed", "success", "sale", "renewed", "apple"}

EventsOK ==
  /\ events \subseteq Event
  /\ \A e \in events :
       /\ e.kind \in {"completed", "failed", "success", "sale"} => e.x \in Payments
       /\ e.kind = "apple" => e.x \in AppleTxns
       /\ e.kind \in Charges => paidThrough[e.x] # 0

Typed == TypeOK /\ WorkOK /\ EventsOK

\* The tasks handlers begin with.
LEMMA IdleTask == Idle \in Task /\ TaskInv(Idle)
  BY DEF Idle, Task, TaskInv, OpPc, Pc, Op

LEMMA StoreTypeIsType ==
  ASSUME NEW x \in Purchases
  PROVE  StoreTypeForMethod(Method[x]) \in StoreTypes
<1>1. Method[x] \in Methods
  BY PurchaseAssumption
<1>2. QED
  BY <1>1 DEF StoreTypeForMethod, Methods, StoreTypes

LEMMA TaskForTask ==
  ASSUME NEW op \in Op, NEW pc \in Pc, NEW x \in Purchases, NEW end \in Nat \cup {NoExpiry}
  PROVE  /\ TaskFor(op, pc, x, end) \in Task
         /\ TaskFor(op, pc, x, end).op = op /\ TaskFor(op, pc, x, end).pc = pc
         /\ TaskFor(op, pc, x, end).x = x /\ TaskFor(op, pc, x, end).user = Owner[x]
         /\ Owner[x] \in Users /\ TaskFor(op, pc, x, end).plan \in Plans
         /\ TaskFor(op, pc, x, end).store \in StoreTypes
<1>1. Owner[x] \in Users /\ PlanOf[x] \in Plans /\ StoreTypeForMethod(Method[x]) \in StoreTypes
  BY PurchaseAssumption, StoreTypeIsType
<1>2. QED
  BY <1>1 DEF TaskFor, Idle, Task

\* A step of one worker that leaves it with a good task keeps WorkOK.
LEMMA WorkStep ==
  ASSUME WorkOK, NEW w \in Workers, NEW t \in Task, TaskInv(t),
         work' = [work EXCEPT ![w] = t]
  PROVE  WorkOK' /\ work'[w] = t /\ \A v \in Workers \ {w} : work'[v] = work[v]
  BY DEF WorkOK

LEMMA BeginStep ==
  ASSUME WorkOK, NEW w \in Workers, NEW t \in Task, TaskInv(t), Begin(w, t)
  PROVE  WorkOK' /\ work'[w] = t /\ \A v \in Workers \ {w} : work'[v] = work[v]
  BY WorkStep DEF Begin

LEMMA DoneStep ==
  ASSUME WorkOK, NEW w \in Workers, Done(w)
  PROVE  WorkOK' /\ work'[w] = Idle /\ \A v \in Workers \ {w} : work'[v] = work[v]
  BY WorkStep, IdleTask DEF Done

LEMMA GotoStep ==
  ASSUME WorkOK, NEW w \in Workers, NEW pc \in Pc, Goto(w, pc),
         TaskInv([work[w] EXCEPT !.pc = pc])
  PROVE  WorkOK' /\ work'[w] = [work[w] EXCEPT !.pc = pc]
                 /\ \A v \in Workers \ {w} : work'[v] = work[v]
<1>1. [work[w] EXCEPT !.pc = pc] \in Task
  BY DEF WorkOK, Task
<1>2. QED
  BY <1>1, WorkStep DEF Goto

-----------------------------------------------------------------------------
(***************************************************************************)
(* Every step keeps the types.                                             *)
(***************************************************************************)

\* A request may begin on purchase x at pc.
MayBegin(op, pc, x) ==
  /\ About(op, x) /\ OpPc(op, pc)
  /\ pc \notin {"idle", "stripeRefund", "stripeCancel", "refundCancel"}

LEMMA MayBeginTypes ==
  ASSUME NEW op, NEW pc, NEW x, MayBegin(op, pc, x)
  PROVE  /\ op \in Op \ {"none", "grant", "usercancel"} /\ pc \in Pc /\ x \in Purchases
         /\ pc \notin {"providerCancel", "stripeRefund", "stripeCancel", "refundCancel"}
  BY DEF MayBegin, About, OnPayment, OpPc, Op, Pc, Purchases

\* A request that begins on purchase x, with the plan of the purchase.
LEMMA BeginOn ==
  ASSUME WorkOK, NEW w \in Workers, NEW op, NEW pc, NEW x,
         NEW end \in Nat \cup {NoExpiry},
         Begin(w, TaskFor(op, pc, x, end)), MayBegin(op, pc, x)
  PROVE  WorkOK'
<1> DEFINE t == TaskFor(op, pc, x, end)
<1>1. /\ op \in Op \ {"none", "grant", "usercancel"} /\ pc \in Pc /\ x \in Purchases
      /\ pc \notin {"providerCancel", "stripeRefund", "stripeCancel", "refundCancel"}
  BY MayBeginTypes
<1>2. /\ t \in Task /\ t.op = op /\ t.pc = pc /\ t.x = x /\ t.user = Owner[x]
      /\ Owner[x] \in Users /\ t.plan \in Plans /\ t.store \in StoreTypes
  BY <1>1, TaskForTask
<1> HIDE DEF t
<1>3. TaskInv(t)
  BY <1>1, <1>2 DEF TaskInv, MayBegin
<1>4. QED
  BY <1>2, <1>3, BeginStep DEF t

\* The same with the plan of the payment, read from the table.
LEMMA BeginOnPlan ==
  ASSUME WorkOK, NEW w \in Workers, NEW op, NEW pc, NEW x, NEW pl \in Plans,
         Begin(w, [TaskFor(op, pc, x, 0) EXCEPT !.plan = pl]), MayBegin(op, pc, x)
  PROVE  WorkOK'
<1> DEFINE t1 == TaskFor(op, pc, x, 0)
           t2 == [t1 EXCEPT !.plan = pl]
<1>1. /\ op \in Op \ {"none", "grant", "usercancel"} /\ pc \in Pc /\ x \in Purchases
      /\ pc \notin {"providerCancel", "stripeRefund", "stripeCancel", "refundCancel"}
  BY MayBeginTypes
<1>2. /\ t1 \in Task /\ t1.op = op /\ t1.pc = pc /\ t1.x = x /\ t1.user = Owner[x]
      /\ Owner[x] \in Users /\ t1.plan \in Plans /\ t1.store \in StoreTypes
  BY <1>1, TaskForTask
<1>b. Begin(w, t2)
  OBVIOUS
<1> HIDE DEF t1
<1>3. /\ t2 \in Task /\ t2.op = op /\ t2.pc = pc /\ t2.x = x /\ t2.user = Owner[x]
      /\ t2.plan \in Plans /\ t2.store \in StoreTypes
  BY <1>2 DEF Task
<1> HIDE DEF t2
<1>4. TaskInv(t2)
  BY <1>1, <1>2, <1>3 DEF TaskInv, MayBegin
<1>5. QED
  BY <1>b, <1>3, <1>4, BeginStep

LEMMA ArriveTyped ==
  ASSUME Typed, NEW w \in Workers, Arrive(w)
  PROVE  Typed'
<1> USE DEF Typed
<1>1. ASSUME NEW p \in Payments, CheckoutCreate(w, p)
      PROVE  Typed'
  <2>1. WorkOK'
    <3>1. Begin(w, TaskFor("checkout", "provider", p, 0))
      BY <1>1 DEF CheckoutCreate
    <3>2. MayBegin("checkout", "provider", p)
      BY DEF MayBegin, About, OnPayment, OpPc
    <3>3. QED
      BY <3>1, <3>2, BeginOn
  <2>2. PlanOf[p] \in Plans
    BY PurchaseAssumption DEF Purchases
  <2>3. payments' \in [Payments -> PaymentRow]
    BY <1>1, <2>2 DEF TypeOK, CheckoutCreate, PaymentRow, PaymentStatus
  <2>4. QED
    BY <1>1, <2>1, <2>3
    DEF CheckoutCreate, TypeOK, WorkOK, EventsOK, providerVars, observerVars
<1>2. ASSUME NEW p \in Payments, AdminConfirmLoad(w, p) \/ RefundLoad(w, p)
      PROVE  Typed'
  <2>1. payments[p].plan \in Plans
    BY DEF TypeOK, PaymentRow
  <2>2. WorkOK'
    <3>1. CASE AdminConfirmLoad(w, p)
      <4>1. Begin(w, [TaskFor("confirm", "confirm", p, 0) EXCEPT !.plan = payments[p].plan])
        BY <3>1 DEF AdminConfirmLoad
      <4>2. MayBegin("confirm", "confirm", p)
        BY DEF MayBegin, About, OnPayment, OpPc
      <4>3. QED
        BY <2>1, <4>1, <4>2, BeginOnPlan
    <3>2. CASE RefundLoad(w, p)
      <4>1. Begin(w, [TaskFor("refund", "lookup", p, 0) EXCEPT !.plan = payments[p].plan])
        BY <3>2 DEF RefundLoad
      <4>2. MayBegin("refund", "lookup", p)
        BY DEF MayBegin, About, OnPayment, OpPc
      <4>3. QED
        BY <2>1, <4>1, <4>2, BeginOnPlan
    <3>3. QED
      BY <1>2, <3>1, <3>2
  <2>3. QED
    BY <1>2, <2>2
    DEF AdminConfirmLoad, RefundLoad, TypeOK, WorkOK, EventsOK, dbVars, providerVars, observerVars
<1>3. ASSUME NEW e \in events, Hook(w, e) \/ RedeemBegin(w, e)
      PROVE  Typed'
  <2>1. /\ e.x \in Purchases /\ e.end \in Nat
        /\ e.kind \in {"completed", "failed", "success", "sale"} => e.x \in Payments
        /\ e.kind = "apple" => e.x \in AppleTxns
    BY DEF EventsOK, Event
  <2>2. paidThrough[e.x] \in Nat /\ PlanOf[e.x] \in Plans
    BY <2>1, PurchaseAssumption DEF TypeOK
  <2>3. WorkOK'
    <3>1. CASE HookCompleted(w, e)
      <4>1. PICK pc \in {"link", "read"} : Begin(w, TaskFor("complete", pc, e.x, 0))
        BY <3>1 DEF HookCompleted
      <4>2. MayBegin("complete", pc, e.x)
        BY <2>1, <3>1, <4>1 DEF HookCompleted, MayBegin, About, OnPayment, OpPc
      <4>3. QED
        BY <2>1, <2>2, <4>1, <4>2, BeginOn
    <3>2. CASE HookFailed(w, e)
      <4>1. Begin(w, TaskFor("fail", "read", e.x, 0)) /\ e.kind = "failed"
        BY <3>2 DEF HookFailed
      <4>2. MayBegin("fail", "read", e.x)
        BY <2>1, <4>1 DEF MayBegin, About, OnPayment, OpPc
      <4>3. QED
        BY <2>1, <2>2, <4>1, <4>2, BeginOn
    <3>3. CASE HookSuccess(w, e)
      <4>1. PICK pc \in {"link", "check"} : Begin(w, TaskFor("complete", pc, e.x, e.end))
        BY <3>3 DEF HookSuccess
      <4>2. MayBegin("complete", pc, e.x)
        BY <2>1, <3>3, <4>1 DEF HookSuccess, MayBegin, About, OnPayment, OpPc
      <4>3. QED
        BY <2>1, <2>2, <4>1, <4>2, BeginOn
    <3>4. CASE HookSale(w, e)
      <4>1. Begin(w, TaskFor("complete", "extend", e.x, paidThrough[e.x])) /\ e.kind = "sale"
        BY <3>4 DEF HookSale
      <4>2. MayBegin("complete", "extend", e.x)
        BY <2>1, <4>1 DEF MayBegin, About, OnPayment, OpPc
      <4>3. QED
        BY <2>1, <2>2, <4>1, <4>2, BeginOn
    <3>5. CASE RedeemBegin(w, e)
      <4>1. Begin(w, TaskFor("redeem", "cancel", e.x, e.end)) /\ e.kind = "apple"
        BY <3>5 DEF RedeemBegin
      <4>2. MayBegin("redeem", "cancel", e.x)
        BY <2>1, <4>1 DEF MayBegin, About, OnPayment, OpPc
      <4>3. QED
        BY <2>1, <2>2, <4>1, <4>2, BeginOn
    <3>6. QED
      BY <1>3, <3>1, <3>2, <3>3, <3>4, <3>5 DEF Hook
  <2>4. QED
    BY <1>3, <2>3
    DEF Hook, HookCompleted, HookFailed, HookSuccess, HookSale, RedeemBegin,
        TypeOK, WorkOK, EventsOK, dbVars, providerVars, observerVars
<1>4. ASSUME NEW u \in Users, UserCancelRead(w, u)
      PROVE  Typed'
  <2>1. PICK i \in DOMAIN subs :
          /\ subs[i].txn # None
          /\ Begin(w, [Idle EXCEPT !.pc = "providerCancel", !.op = "usercancel",
                                   !.user = u, !.txn = subs[i].txn])
    BY <1>4 DEF UserCancelRead, Newest, ActiveOf
  <2>2. subs[i].txn \in Purchases
    <3>1. subs[i] \in SubRow
      BY DEF TypeOK
    <3>2. QED
      BY <2>1, <3>1 DEF SubRow
  <2> DEFINE t == [Idle EXCEPT !.pc = "providerCancel", !.op = "usercancel",
                              !.user = u, !.txn = subs[i].txn]
  <2>3. t \in Task /\ TaskInv(t)
    BY <2>2 DEF Idle, Task, Pc, Op, TaskInv, OpPc
  <2>4. WorkOK'
    <3> HIDE DEF t
    <3>1. Begin(w, t)
      BY <2>1 DEF t
    <3>2. QED
      BY <2>3, <3>1, BeginStep
  <2>5. QED
    BY <1>4, <2>4
    DEF UserCancelRead, TypeOK, WorkOK, EventsOK, dbVars, providerVars, observerVars
<1>5. ASSUME NEW u \in Users, NEW pl \in Plans, NEW end \in {NoExpiry, now + Period[pl]},
             AdminGrant(w, u, pl, end)
      PROVE  Typed'
  <2>1. end \in Nat \cup {NoExpiry}
    BY PeriodAssumption DEF TypeOK
  <2> DEFINE t == [Idle EXCEPT !.pc = "cancel", !.op = "grant", !.user = u,
                              !.plan = pl, !.store = "admin_granted", !.exp = end]
  <2>2. t \in Task /\ TaskInv(t)
    BY <2>1 DEF Idle, Task, Pc, Op, TaskInv, OpPc, StoreTypes
  <2>3. WorkOK'
    <3> HIDE DEF t
    <3>1. Begin(w, t)
      BY <1>5 DEF t, AdminGrant
    <3>2. QED
      BY <2>2, <3>1, BeginStep
  <2>4. QED
    BY <1>5, <2>3
    DEF AdminGrant, TypeOK, WorkOK, EventsOK, dbVars, providerVars, observerVars
<1>6. QED
  BY <1>1, <1>2, <1>3, <1>4, <1>5 DEF Arrive

\* A worker goes on to a point its kind of request has.
LEMMA GotoOK ==
  ASSUME WorkOK, NEW w \in Workers, NEW pc, Goto(w, pc), OpPc(work[w].op, pc),
         pc \in {"providerCancel", "stripeRefund", "stripeCancel", "refundCancel"}
           => work[w].txn \in Purchases
  PROVE  WorkOK'
<1>1. pc \in Pc
  BY DEF OpPc, Pc
<1>2. work[w] \in Task /\ TaskInv(work[w])
  BY DEF WorkOK
<1>3. TaskInv([work[w] EXCEPT !.pc = pc])
  BY <1>2 DEF TaskInv, Task
<1>4. QED
  BY <1>1, <1>3, GotoStep

LEMMA StatusUpdate ==
  ASSUME TypeOK, NEW x, NEW st \in PaymentStatus,
         payments' = [payments EXCEPT ![x].status = st]
  PROVE  payments' \in [Payments -> PaymentRow]
<1>1. \A r \in PaymentRow : [r EXCEPT !.status = st] \in PaymentRow
  BY DEF PaymentRow
<1>2. QED
  BY <1>1 DEF TypeOK

\* A step that announces provider events.
EventOK(e) ==
  /\ e \in Event
  /\ e.kind \in {"completed", "failed", "success", "sale"} => e.x \in Payments
  /\ e.kind = "apple" => e.x \in AppleTxns

LEMMA AnnounceOK ==
  ASSUME EventsOK, NEW E, Announce(E),
         \A e \in E : EventOK(e) /\ (e.kind \in Charges => paidThrough'[e.x] # 0),
         \A x \in Purchases : paidThrough[x] # 0 => paidThrough'[x] # 0
  PROVE  EventsOK'
  BY DEF EventsOK, Announce, EventOK, Event

LEMMA CheckoutTyped ==
  ASSUME Typed, NEW w \in Workers,
         CheckoutOpened(w) \/ CheckoutRefused(w) \/ CheckoutMarkFailed(w)
  PROVE  Typed'
<1> USE DEF Typed
<1>1. work[w] \in Task /\ TaskInv(work[w])
  BY DEF WorkOK
<1>2. CASE CheckoutOpened(w)
  <2>1. work[w].x \in Payments
    BY <1>1, <1>2 DEF CheckoutOpened, TaskInv, OpPc, About, OnPayment
  <2>2. WorkOK'
    BY <1>2, DoneStep DEF CheckoutOpened
  <2>3. QED
    BY <1>2, <2>1, <2>2
    DEF CheckoutOpened, TypeOK, WorkOK, EventsOK, dbVars, observerVars
<1>3. CASE CheckoutRefused(w)
  <2>1. WorkOK'
    <3>1. OpPc(work[w].op, "markFailed")
      BY <1>1, <1>3 DEF CheckoutRefused, TaskInv, OpPc
    <3>2. QED
      BY <1>3, <3>1, GotoOK DEF CheckoutRefused
  <2>2. QED
    BY <1>3, <2>1
    DEF CheckoutRefused, TypeOK, WorkOK, EventsOK, dbVars, providerVars, observerVars
<1>4. CASE CheckoutMarkFailed(w)
  <2>1. payments' \in [Payments -> PaymentRow]
    BY <1>4, StatusUpdate DEF CheckoutMarkFailed, PaymentStatus
  <2>2. WorkOK'
    BY <1>4, DoneStep DEF CheckoutMarkFailed
  <2>3. QED
    BY <1>4, <2>1, <2>2
    DEF CheckoutMarkFailed, TypeOK, WorkOK, EventsOK, providerVars, observerVars
<1>5. QED
  BY <1>2, <1>3, <1>4

\* The steps of the webhooks that settle a payment, and of admin confirm.
LEMMA SettleTyped ==
  ASSUME Typed, NEW w \in Workers,
         \/ LinkCustomer(w) \/ CheckPending(w) \/ Replan(w) \/ ReadPayment(w)
         \/ MarkCompleted(w) \/ MarkFailedByRef(w) \/ AdminConfirmMark(w)
  PROVE  Typed'
<1> USE DEF Typed
<1>1. work[w] \in Task /\ TaskInv(work[w])
  BY DEF WorkOK
<1>2. CASE LinkCustomer(w)
  <2>1. PICK pc \in {"check", "read"} : Goto(w, pc)
    BY <1>2 DEF LinkCustomer
  <2>2. OpPc(work[w].op, pc) /\ work[w].user \in Users
    BY <1>1, <1>2 DEF LinkCustomer, TaskInv, OpPc
  <2>3. WorkOK'
    BY <2>1, <2>2, GotoOK
  <2>4. QED
    BY <1>2, <2>2, <2>3
    DEF LinkCustomer, TypeOK, WorkOK, EventsOK, providerVars, observerVars
<1>3. CASE CheckPending(w)
  <2>1. PICK pc \in {"extend", "replan", "read"} : Goto(w, pc)
    BY <1>3 DEF CheckPending
  <2>2. OpPc(work[w].op, pc)
    BY <1>1, <1>3 DEF CheckPending, TaskInv, OpPc
  <2>3. WorkOK'
    BY <2>1, <2>2, GotoOK
  <2>4. QED
    BY <1>3, <2>3
    DEF CheckPending, TypeOK, WorkOK, EventsOK, dbVars, providerVars, observerVars
<1>4. CASE Replan(w)
  <2>1. OpPc(work[w].op, "read") /\ work[w].x \in Payments
    BY <1>1, <1>4 DEF Replan, TaskInv, OpPc, About, OnPayment
  <2>2. WorkOK'
    BY <1>4, <2>1, GotoOK DEF Replan
  <2>3. payments' \in [Payments -> PaymentRow]
    <3>1. BilledPlan[work[w].x] \in Plans
      BY <2>1, BilledAssumption DEF Purchases
    <3>2. \A r \in PaymentRow : [r EXCEPT !.plan = BilledPlan[work[w].x]] \in PaymentRow
      BY <3>1 DEF PaymentRow
    <3>3. QED
      BY <1>4, <3>2 DEF Replan, TypeOK
  <2>4. QED
    BY <1>4, <2>2, <2>3
    DEF Replan, TypeOK, WorkOK, EventsOK, providerVars, observerVars
<1>5. CASE ReadPayment(w)
  <2> DEFINE pl == payments[work[w].x].plan
             t(pc) == [work[w] EXCEPT !.plan = pl, !.pc = pc]
  <2>1. work[w].op \in {"complete", "fail"} /\ work[w].pc = "read"
    BY <1>1, <1>5 DEF ReadPayment, ReadPaymentIn, TaskInv, OpPc
  <2>2. work[w].x \in Payments /\ pl \in Plans
    BY <1>1, <2>1 DEF TaskInv, About, OnPayment, TypeOK, PaymentRow
  <2>3. WorkOK'
    <3>1. CASE \E pc \in {"fail", "mark"} :
                 /\ work' = [work EXCEPT ![w] = t(pc)]
                 /\ OpPc(work[w].op, pc)
      <4>1. PICK pc \in {"fail", "mark"} :
              work' = [work EXCEPT ![w] = t(pc)] /\ OpPc(work[w].op, pc)
        BY <3>1
      <4>2. t(pc) \in Task /\ TaskInv(t(pc))
        <5> HIDE DEF pl
        <5>1. QED
          BY <1>1, <2>2, <4>1, ZenonT(60) DEF Task, TaskInv, Pc
      <4>3. QED
        BY <4>1, <4>2, WorkStep
    <3>2. CASE Goto(w, "stamp") /\ work[w].op = "complete"
      BY <3>2, GotoOK DEF OpPc
    <3>3. CASE Done(w)
      BY <3>3, DoneStep
    <3>4. QED
      BY <1>5, <2>1, <3>1, <3>2, <3>3 DEF ReadPayment, ReadPaymentIn, OpPc
  <2>4. QED
    BY <1>5, <2>3
    DEF ReadPayment, ReadPaymentIn, TypeOK, WorkOK, EventsOK, dbVars, providerVars, observerVars
<1>6. CASE MarkCompleted(w) \/ AdminConfirmMark(w)
  <2> DEFINE end == now + Period[work[w].plan]
             t   == [work[w] EXCEPT !.pc = "cancel", !.exp = end]
  <2>1. /\ work[w].op \in {"complete", "confirm"} /\ work[w].x \in Payments
        /\ work[w].plan \in Plans
    BY <1>1, <1>6 DEF MarkCompleted, AdminConfirmMark, TaskInv, OpPc, About, OnPayment
  <2>2. end \in Nat
    BY <2>1, PeriodAssumption DEF TypeOK
  <2>3. t \in Task /\ TaskInv(t)
    <3> HIDE DEF end
    <3>1. QED
      BY <1>1, <2>1, <2>2, ZenonT(60) DEF Task, TaskInv, Pc, OpPc
  <2>4. WorkOK'
    <3>1. work' = [work EXCEPT ![w] = t]
      BY <1>6 DEF MarkCompleted, AdminConfirmMark
    <3>2. QED
      BY <2>3, <3>1, WorkStep
  <2>5. payments' \in [Payments -> PaymentRow]
    BY <1>6, StatusUpdate DEF MarkCompleted, AdminConfirmMark, PaymentStatus
  <2>6. QED
    BY <1>6, <2>1, <2>4, <2>5
    DEF MarkCompleted, AdminConfirmMark, TypeOK, WorkOK, EventsOK, providerVars, observerVars
<1>7. CASE MarkFailedByRef(w)
  <2>1. payments' \in [Payments -> PaymentRow]
    BY <1>7, StatusUpdate DEF MarkFailedByRef, PaymentStatus
  <2>2. WorkOK'
    BY <1>7, DoneStep DEF MarkFailedByRef
  <2>3. QED
    BY <1>7, <2>1, <2>2
    DEF MarkFailedByRef, TypeOK, WorkOK, EventsOK, providerVars, observerVars
<1>8. QED
  BY <1>2, <1>3, <1>4, <1>5, <1>6, <1>7

\* The steps of a grant and of the stamp or renewal at its end.
LEMMA GrantTyped ==
  ASSUME Typed, NEW w \in Workers,
         \/ GrantCancelPrior(w) \/ GrantInsert(w)
         \/ StampByReference(w) \/ StampByUser(w) \/ ExtendSettled(w)
  PROVE  Typed'
<1> USE DEF Typed
<1>1. work[w] \in Task /\ TaskInv(work[w]) /\ subs \in Seq(SubRow) /\ now \in Nat
  BY DEF WorkOK, TypeOK
<1>2. CASE GrantCancelPrior(w)
  <2> DEFINE t == [work[w] EXCEPT !.pc = "insert", !.horizon = Len(subs)]
  <2>1. subs' \in Seq(SubRow)
    <3>1. Rewrites(subs, CancelActiveSubsByUser(subs, work[w].user))
      BY <1>1, CancelUserRewrites
    <3>2. QED
      BY <1>2, <3>1 DEF GrantCancelPrior, Rewrites
  <2>2. Len(subs) \in Nat /\ OpPc(work[w].op, "insert")
    BY <1>1, <1>2 DEF GrantCancelPrior, TaskInv, OpPc
  <2>3. t \in Task /\ TaskInv(t)
    <3>1. /\ t \in Task /\ t.pc = "insert" /\ t.op = work[w].op /\ t.x = work[w].x
          /\ t.user = work[w].user /\ t.plan = work[w].plan /\ t.store = work[w].store
      BY <1>1, <2>2, ZenonT(60) DEF Task, Pc
    <3> HIDE DEF t
    <3>2. QED
      BY <1>1, <2>2, <3>1 DEF TaskInv
  <2>4. WorkOK'
    <3>1. work' = [work EXCEPT ![w] = t]
      BY <1>2 DEF GrantCancelPrior
    <3>2. QED
      BY <2>3, <3>1, WorkStep
  <2>5. QED
    BY <1>2, <2>1, <2>4
    DEF GrantCancelPrior, TypeOK, WorkOK, EventsOK, providerVars, observerVars
<1>3. CASE GrantInsert(w)
  <2>1. work[w].op \in {"complete", "confirm", "redeem", "grant"}
    BY <1>1, <1>3 DEF GrantInsert, TaskInv, OpPc
  <2>2. GrantedRow(work[w]) \in SubRow
    <3>1. /\ work[w].user \in Users /\ work[w].plan \in Plans /\ work[w].store \in StoreTypes
          /\ work[w].exp \in Nat \cup {NoExpiry} /\ work[w].x \in Purchases \cup {None}
          /\ work[w].horizon \in Nat
      BY <1>1, <2>1 DEF Task, TaskInv
    <3>2. QED
      BY <3>1 DEF GrantedRow, SubRow, SubStatus
  <2>3. subs' \in Seq(SubRow)
    BY <1>1, <1>3, <2>2 DEF GrantInsert, InsertGrantedSubscription
  <2>4. WorkOK'
    <3>1. CASE Done(w)
      BY <3>1, DoneStep
    <3>2. CASE Goto(w, "stamp") /\ work[w].op = "complete"
      BY <3>2, GotoOK DEF OpPc
    <3>3. CASE Goto(w, "stampUser") /\ work[w].op = "redeem"
      BY <3>3, GotoOK DEF OpPc
    <3>4. QED
      BY <1>3, <2>1, <3>1, <3>2, <3>3 DEF GrantInsert, AfterGrant
  <2>5. QED
    BY <1>3, <2>3, <2>4
    DEF GrantInsert, TypeOK, WorkOK, EventsOK, providerVars, observerVars
<1>4. CASE StampByReference(w) \/ StampByUser(w)
  <2>1. work[w].x \in Purchases
    BY <1>1, <1>4
    DEF StampByReference, StampByUser, TaskInv, OpPc, About, OnPayment, Purchases
  <2>2. StoreTypeForMethod(Method[work[w].x]) \in StoreTypes /\ "apple_iap" \in StoreTypes
    BY <2>1, StoreTypeIsType DEF StoreTypes
  <2>3. subs' \in Seq(SubRow)
    BY <1>1, <1>4, <2>1, <2>2, StampRewrites
    DEF StampByReference, StampByUser, StampStoreRefByReference, StampStoreRefByUser, Rewrites
  <2>4. WorkOK'
    BY <1>4, DoneStep DEF StampByReference, StampByUser
  <2>5. QED
    BY <1>4, <2>3, <2>4
    DEF StampByReference, StampByUser, TypeOK, WorkOK, EventsOK, providerVars, observerVars
<1>5. CASE ExtendSettled(w)
  <2>1. work[w].exp \in Nat \cup {NoExpiry}
    BY <1>1 DEF Task
  <2>2. subs' \in Seq(SubRow)
    <3>1. Rewrites(subs, ExtendByStoreRef(subs, StoreOf(work[w].x), work[w].x, work[w].exp))
      BY <1>1, <2>1, ExtendRewrites
    <3>2. QED
      BY <1>5, <3>1 DEF ExtendSettled, Rewrites
  <2>3. WorkOK'
    BY <1>5, DoneStep DEF ExtendSettled
  <2>4. QED
    BY <1>5, <2>2, <2>3
    DEF ExtendSettled, TypeOK, WorkOK, EventsOK, providerVars, observerVars
<1>6. QED
  BY <1>2, <1>3, <1>4, <1>5

\* The steps of admin refund and in-app cancel.
LEMMA RefundTyped ==
  ASSUME Typed, NEW w \in Workers,
         \/ RefundLookup(w) \/ RefundCharge(w) \/ RefundNoCharge(w)
         \/ RefundCancelAtStripe(w) \/ RefundMark(w) \/ RefundCancelSub(w)
         \/ UserCancelCall(w)
  PROVE  Typed'
<1> USE DEF Typed
<1>1. work[w] \in Task /\ TaskInv(work[w]) /\ subs \in Seq(SubRow)
  BY DEF WorkOK, TypeOK
<1>2. CASE RefundLookup(w)
  <2> DEFINE txn == FindLatestStripeForUserPlan(subs, work[w].user, work[w].plan)
             pc  == IF txn = None THEN "refundMark" ELSE "stripeRefund"
             t   == [work[w] EXCEPT !.txn = txn, !.pc = pc]
  <2>1. txn \in Purchases \cup {None}
    <3> DEFINE M == Newest({i \in DOMAIN subs : /\ subs[i].user = work[w].user
                                                /\ subs[i].plan = work[w].plan
                                                /\ subs[i].store = "stripe"})
    <3>1. CASE M = {}
      BY <3>1 DEF FindLatestStripeForUserPlan
    <3>2. CASE M # {}
      <4>1. (CHOOSE i \in M : TRUE) \in M
        BY <3>2
      <4>2. (CHOOSE i \in M : TRUE) \in DOMAIN subs
        BY <4>1 DEF Newest
      <4>3. subs[CHOOSE i \in M : TRUE] \in SubRow
        BY <1>1, <4>2
      <4>4. subs[CHOOSE i \in M : TRUE].txn \in Purchases \cup {None}
        BY <4>3 DEF SubRow
      <4>5. txn = subs[CHOOSE i \in M : TRUE].txn
        BY <3>2 DEF FindLatestStripeForUserPlan
      <4>6. QED
        BY <4>4, <4>5
    <3>3. QED
      BY <3>1, <3>2
  <2>2. /\ pc \in Pc /\ OpPc(work[w].op, pc) /\ (pc = "stripeRefund" => txn \in Purchases)
        /\ pc \in {"refundMark", "stripeRefund"}
    <3> HIDE DEF txn
    <3>1. QED
      BY <1>1, <1>2, <2>1 DEF RefundLookup, TaskInv, OpPc, Pc
  <2> HIDE DEF txn, pc
  <2>3. t \in Task /\ TaskInv(t)
    <3>1. /\ t \in Task /\ t.pc = pc /\ t.op = work[w].op /\ t.x = work[w].x
          /\ t.user = work[w].user /\ t.plan = work[w].plan /\ t.store = work[w].store
          /\ t.txn = txn
      BY <1>1, <2>1, <2>2 DEF Task
    <3> HIDE DEF t
    <3>2. QED
      BY <1>1, <2>2, <3>1 DEF TaskInv
  <2>4. WorkOK'
    <3>1. work' = [work EXCEPT ![w] = t]
      BY <1>2 DEF RefundLookup, txn, pc
    <3>2. QED
      BY <2>3, <3>1, WorkStep
  <2>5. QED
    BY <1>2, <2>4
    DEF RefundLookup, TypeOK, WorkOK, EventsOK, dbVars, providerVars, observerVars
<1>3. CASE RefundCharge(w) \/ RefundNoCharge(w)
  <2>1. work[w].txn \in Purchases /\ OpPc(work[w].op, "stripeCancel")
    BY <1>1, <1>3 DEF RefundCharge, RefundNoCharge, TaskInv, OpPc
  <2>2. WorkOK'
    BY <1>3, <2>1, DoneStep, GotoOK DEF RefundCharge, RefundNoCharge
  <2>3. QED
    BY <1>3, <2>1, <2>2
    DEF RefundCharge, RefundNoCharge, TypeOK, WorkOK, EventsOK, dbVars, providerVars, observerVars
<1>4. CASE RefundCancelAtStripe(w)
  <2>1. work[w].txn \in Purchases /\ OpPc(work[w].op, "refundMark")
    BY <1>1, <1>4 DEF RefundCancelAtStripe, TaskInv, OpPc
  <2>2. WorkOK'
    BY <1>4, <2>1, GotoOK DEF RefundCancelAtStripe
  <2>3. EventsOK'
    <3>1. CASE UNCHANGED events
      BY <1>4, <3>1 DEF RefundCancelAtStripe, EventsOK
    <3>2. CASE Announce({Ev("cancelled", work[w].txn, 0)})
      <4>1. EventOK(Ev("cancelled", work[w].txn, 0)) /\ Ev("cancelled", work[w].txn, 0).kind \notin Charges
        BY <2>1 DEF Ev, EventOK, Event, EventKinds, Charges
      <4>2. QED
        BY <1>4, <3>2, <4>1, AnnounceOK DEF RefundCancelAtStripe
    <3>3. QED
      BY <1>4, <3>1, <3>2 DEF RefundCancelAtStripe
  <2>4. QED
    BY <1>4, <2>1, <2>2, <2>3
    DEF RefundCancelAtStripe, TypeOK, WorkOK, EventsOK, dbVars, observerVars
<1>5. CASE RefundMark(w)
  <2>1. payments' \in [Payments -> PaymentRow]
    BY <1>5, StatusUpdate DEF RefundMark, PaymentStatus
  <2>2. WorkOK'
    <3>1. CASE Done(w)
      BY <3>1, DoneStep
    <3>2. CASE Goto(w, "refundCancel") /\ work[w].txn # None
      <4>1. OpPc(work[w].op, "refundCancel") /\ work[w].txn \in Purchases
        BY <1>1, <1>5, <3>2 DEF RefundMark, Task, TaskInv, OpPc
      <4>2. QED
        BY <3>2, <4>1, GotoOK
    <3>3. QED
      BY <1>5, <3>1, <3>2 DEF RefundMark
  <2>3. QED
    BY <1>5, <2>1, <2>2
    DEF RefundMark, TypeOK, WorkOK, EventsOK, providerVars, observerVars
<1>6. CASE RefundCancelSub(w)
  <2>1. subs' \in Seq(SubRow)
    <3>1. Rewrites(subs, CancelByStoreRef(subs, "stripe", work[w].txn))
      BY <1>1, CancelRefRewrites
    <3>2. QED
      BY <1>6, <3>1 DEF RefundCancelSub, Rewrites
  <2>2. WorkOK'
    BY <1>6, DoneStep DEF RefundCancelSub
  <2>3. QED
    BY <1>6, <2>1, <2>2
    DEF RefundCancelSub, TypeOK, WorkOK, EventsOK, providerVars, observerVars
<1>7. CASE UserCancelCall(w)
  <2>1. work[w].txn \in Purchases
    BY <1>1, <1>7 DEF UserCancelCall, TaskInv
  <2>2. WorkOK'
    BY <1>7, DoneStep DEF UserCancelCall
  <2>3. EventsOK'
    <3>1. PICK E \in SUBSET {Ev("cancelled", work[w].txn, 0)} : Announce(E)
      BY <1>7 DEF UserCancelCall
    <3>2. EventOK(Ev("cancelled", work[w].txn, 0)) /\ Ev("cancelled", work[w].txn, 0).kind \notin Charges
      BY <2>1 DEF Ev, EventOK, Event, EventKinds, Charges
    <3>3. QED
      BY <1>7, <3>1, <3>2, AnnounceOK DEF UserCancelCall
  <2>4. QED
    BY <1>7, <2>1, <2>2, <2>3
    DEF UserCancelCall, TypeOK, WorkOK, EventsOK, dbVars, observerVars
<1>8. QED
  BY <1>2, <1>3, <1>4, <1>5, <1>6, <1>7

\* The webhooks of one statement.
LEMMA NotifyTyped ==
  ASSUME Typed, NEW e \in events, Notify(e)
  PROVE  Typed'
<1> USE DEF Typed
<1>1. /\ subs \in Seq(SubRow) /\ now \in Nat /\ e \in Event /\ e.end \in Nat
      /\ e.kind = "apple" => e.x \in AppleTxns
  BY DEF TypeOK, EventsOK, Event
<1>2. subs' \in Seq(SubRow)
  <2>1. CASE HookRenewed(e)
    <3>1. Rewrites(subs, ExtendByStoreRef(subs, StoreOf(e.x), e.x, e.end))
      BY <1>1, ExtendRewrites
    <3>2. QED
      BY <2>1, <3>1 DEF HookRenewed, Rewrites
  <2>2. CASE HookApple(e)
    <3>1. Rewrites(subs, ExtendByStoreRef(subs, "apple_iap", e.x, e.end))
      BY <1>1, ExtendRewrites
    <3>2. QED
      BY <2>2, <3>1 DEF HookApple, Rewrites
  <2>3. CASE HookCancelled(e)
    <3>1. Rewrites(subs, CancelByStoreRef(subs, StoreOf(e.x), e.x))
      BY <1>1, CancelRefRewrites
    <3>2. QED
      BY <2>3, <3>1 DEF HookCancelled, Rewrites
  <2>4. CASE HookExpired(e)
    <3>1. Rewrites(subs, ExpireByStoreRef(subs, StoreOf(e.x), e.x, now))
      BY <1>1, ExpireRewrites
    <3>2. QED
      BY <2>4, <3>1 DEF HookExpired, Rewrites
  <2>5. QED
    BY <2>1, <2>2, <2>3, <2>4 DEF Notify
<1>3. warned' \subseteq AppleTxns
  BY <1>1
  DEF Notify, HookRenewed, HookApple, HookCancelled, HookExpired, observerVars, TypeOK
<1>4. QED
  BY <1>2, <1>3
  DEF Notify, HookRenewed, HookApple, HookCancelled, HookExpired,
      TypeOK, WorkOK, EventsOK, providerVars, observerVars

\* What a charge announces carries what its kind needs.
LEMMA ChargeEvents ==
  ASSUME NEW x \in Purchases, NEW end \in Nat
  PROVE  /\ \A e \in FirstCycle(x, end) : EventOK(e) /\ e.x = x
         /\ Recurring(x) => \A e \in Renewal(x, end) : EventOK(e) /\ e.x = x
<1>1. Method[x] # "apple_iap" => x \in Payments
  BY PurchaseAssumption DEF Purchases
<1>2. Method[x] = "apple_iap" => x \in AppleTxns
  BY PurchaseAssumption
<1>3. \A k \in EventKinds : \A n \in Nat :
        Ev(k, x, n) \in Event /\ Ev(k, x, n).kind = k /\ Ev(k, x, n).x = x
  BY DEF Ev, Event
<1>4. \A e \in FirstCycle(x, end) : EventOK(e) /\ e.x = x
  BY <1>1, <1>2, <1>3 DEF FirstCycle, EventOK, EventKinds
<1>5. Recurring(x) => \A e \in Renewal(x, end) : EventOK(e) /\ e.x = x
  BY <1>1, <1>2, <1>3 DEF Renewal, Recurring, EventOK, EventKinds
<1>6. QED
  BY <1>4, <1>5

LEMMA ProviderTyped ==
  ASSUME Typed, Provider
  PROVE  Typed'
<1> USE DEF Typed
<1>1. ASSUME NEW x \in Purchases, ProviderCharge(x) \/ ProviderRenew(x)
      PROVE  Typed'
  <2>1. /\ Period[BilledPlan[x]] \in Nat \ {0} /\ now \in Nat
        /\ paidThrough \in [Purchases -> Nat]
    BY PeriodAssumption, BilledAssumption DEF TypeOK
  <2>2. PICK end \in Nat \ {0} :
          /\ paidThrough' = [paidThrough EXCEPT ![x] = end]
          /\ \/ Announce(FirstCycle(x, end))
             \/ Recurring(x) /\ Announce(Renewal(x, end))
    BY <1>1, <2>1 DEF ProviderCharge, ProviderRenew
  <2>3. PICK E : Announce(E) /\ \A e \in E : EventOK(e) /\ e.x = x
    BY <2>2, ChargeEvents
  <2>4. EventsOK'
    <3>1. paidThrough'[x] # 0 /\ \A y \in Purchases : paidThrough[y] # 0 => paidThrough'[y] # 0
      BY <2>1, <2>2
    <3>2. QED
      BY <2>3, <3>1, AnnounceOK
  <2>5. QED
    BY <1>1, <2>1, <2>2, <2>4
    DEF ProviderCharge, ProviderRenew, TypeOK, WorkOK, dbVars, observerVars, EventsOK
<1>2. ASSUME NEW x \in Purchases, NEW k \in {"failed", "cancelled", "expired"},
             NEW E \in SUBSET {Ev(k, x, 0)}, Announce(E), k = "failed" => x \in Payments,
             UNCHANGED paidThrough
      PROVE  EventsOK'
  <2>1. EventOK(Ev(k, x, 0)) /\ Ev(k, x, 0).kind \notin Charges
    BY <1>2 DEF Ev, EventOK, Event, EventKinds, Charges
  <2>2. QED
    BY <1>2, <2>1, AnnounceOK
<1>3. ASSUME NEW x \in Purchases, ProviderEnd(x) \/ ProviderPeriodOver(x)
      PROVE  Typed'
  <2>1. PICK k \in {"cancelled", "expired"} : \E E \in SUBSET {Ev(k, x, 0)} : Announce(E)
    BY <1>3 DEF ProviderEnd, ProviderPeriodOver
  <2>2. EventsOK'
    BY <1>2, <1>3, <2>1 DEF ProviderEnd, ProviderPeriodOver
  <2>3. QED
    BY <1>3, <2>2
    DEF ProviderEnd, ProviderPeriodOver, TypeOK, WorkOK, dbVars, observerVars, EventsOK
<1>4. ASSUME NEW p \in Payments, ProviderDecline(p)
      PROVE  Typed'
  <2>1. p \in Purchases
    BY DEF Purchases
  <2>2. EventsOK'
    BY <1>2, <1>4, <2>1 DEF ProviderDecline
  <2>3. QED
    BY <1>4, <2>2 DEF ProviderDecline, TypeOK, WorkOK, dbVars, observerVars, EventsOK
<1>5. QED
  BY <1>1, <1>3, <1>4 DEF Provider

\* Failures, the daily job and the clock.
LEMMA OtherTyped ==
  ASSUME Typed,
         \/ \E w \in Workers : Abort(w) \/ SkipIgnored(w)
         \/ CronExpireLapsed \/ Tick
  PROVE  Typed'
<1> USE DEF Typed
<1>1. ASSUME NEW w \in Workers, Abort(w)
      PROVE  Typed'
  <2>1. WorkOK'
    BY <1>1, DoneStep DEF Abort
  <2>2. QED
    BY <1>1, <2>1 DEF Abort, TypeOK, WorkOK, EventsOK, dbVars, providerVars
<1>2. ASSUME NEW w \in Workers, SkipIgnored(w)
      PROVE  Typed'
  <2>1. PICK pc \in {"check", "read"} : Goto(w, pc)
    BY <1>2 DEF SkipIgnored
  <2>2. OpPc(work[w].op, pc)
    <3>1. TaskInv(work[w]) /\ work[w].pc \in {"link", "replan"}
      BY <1>2 DEF WorkOK, SkipIgnored
    <3>2. QED
      BY <3>1 DEF TaskInv, OpPc
  <2>3. WorkOK'
    BY <2>1, <2>2, GotoOK
  <2>4. QED
    BY <1>2, <2>3 DEF SkipIgnored, TypeOK, WorkOK, EventsOK, dbVars, providerVars
<1>3. CASE CronExpireLapsed
  <2>1. subs \in Seq(SubRow)
    BY DEF TypeOK
  <2>2. Rewrites(subs, ExpireLapsedSubs(subs, now))
    BY <2>1, LapsedRewrites
  <2>3. QED
    BY <1>3, <2>2
    DEF CronExpireLapsed, Rewrites, TypeOK, WorkOK, EventsOK, providerVars, observerVars
<1>4. CASE Tick
  BY <1>4 DEF Tick, TypeOK, WorkOK, EventsOK, dbVars, providerVars, observerVars
<1>5. QED
  BY <1>1, <1>2, <1>3, <1>4

LEMMA InitTyped == Init => Typed
<1> SUFFICES ASSUME Init PROVE Typed
  OBVIOUS
<1>1. payments \in [Payments -> PaymentRow]
  <2>1. \A p \in Payments : PlanOf[p] \in Plans
    BY PurchaseAssumption DEF Purchases
  <2>2. QED
    BY <2>1 DEF Init, PaymentRow, PaymentStatus
<1>2. subs \in Seq(SubRow)
  <2>1. \A u \in Users : FreeRow(u) \in SubRow
    BY DEF FreeRow, SubRow, SubStatus, StoreTypes
  <2>2. subs = <<>> \/ \E u \in Users : subs = <<FreeRow(u)>>
    BY DEF Init
  <2>3. \A r \in SubRow : <<r>> \in Seq(SubRow)
    OBVIOUS
  <2>4. <<>> \in Seq(SubRow)
    OBVIOUS
  <2>5. QED
    BY <2>1, <2>2, <2>3, <2>4
<1>3. WorkOK
  BY IdleTask DEF Init, WorkOK
<1>4. QED
  BY <1>1, <1>2, <1>3 DEF Init, Typed, TypeOK, WorkOK, EventsOK

\* Every reachable state has the declared types, and every request carries what
\* its handler relies on: in particular no handler inserts a row without a user,
\* a plan and a store, and no provider call goes out without a subscription id.
THEOREM TypeInvariant == Spec => []Typed
<1>1. Typed /\ [Next]_vars => Typed'
  <2> SUFFICES ASSUME Typed, [Next]_vars PROVE Typed'
    OBVIOUS
  <2>1. ASSUME NEW w \in Workers, Continue(w)
        PROVE  Typed'
    BY <2>1, CheckoutTyped, SettleTyped, GrantTyped, RefundTyped DEF Continue
  <2>2. CASE Next
    BY <2>1, <2>2, ArriveTyped, NotifyTyped, ProviderTyped, OtherTyped DEF Next
  <2>3. CASE UNCHANGED vars
    BY <2>3 DEF vars, dbVars, providerVars, observerVars, Typed, TypeOK, WorkOK, EventsOK
  <2>4. QED
    BY <2>2, <2>3
<1>2. QED
  BY <1>1, InitTyped, PTL DEF Spec

\* The types alone, as the runs check them.
THEOREM TypeCorrectness == Spec => []TypeOK
<1>1. Typed => TypeOK
  BY DEF Typed
<1>2. QED
  BY <1>1, TypeInvariant, PTL

-----------------------------------------------------------------------------
(***************************************************************************)
(* What one step can do to the subscriptions table.                        *)
(***************************************************************************)
Stamps(w) == StampByReference(w) \/ StampByUser(w)

LEMMA SameRewrites ==
  ASSUME subs \in Seq(SubRow), subs' = subs
  PROVE  Rewrites(subs, subs') /\ KeepsRefs(subs, subs')
  BY DEF Rewrites, KeepsRefs

LEMMA StampStep ==
  ASSUME Typed, NEW w \in Workers, Stamps(w)
  PROVE  /\ Rewrites(subs, subs')
         /\ StampsOnly(subs, subs', ActiveOf(subs, Owner[work[w].x]),
                       StoreOf(work[w].x), work[w].x)
         /\ work[w].x \in Purchases
<1>1. work[w] \in Task /\ TaskInv(work[w]) /\ subs \in Seq(SubRow)
  BY DEF Typed, WorkOK, TypeOK
<1> DEFINE x == work[w].x
           A == ActiveOf(subs, Owner[x])
<1>2. /\ x \in Purchases /\ StoreOf(x) \in StoreTypes
      /\ StampByUser(w) => StoreOf(x) = "apple_iap" /\ work[w].user = Owner[x]
  <2>1. x \in Purchases /\ (StampByUser(w) => x \in AppleTxns /\ work[w].user = Owner[x])
    BY <1>1 DEF Stamps, StampByReference, StampByUser, TaskInv, OpPc, About, OnPayment, Purchases
  <2>2. StampByUser(w) => Method[x] = "apple_iap"
    BY <2>1, PurchaseAssumption
  <2>3. QED
    BY <2>1, <2>2, StoreTypeIsType DEF StoreOf, StoreTypeForMethod
<1>3. PICK M \in SUBSET A : subs' = StampRows(subs, M, StoreOf(x), x)
  <2>1. CASE StampByReference(w)
    BY <2>1 DEF StampByReference, StampStoreRefByReference, Newest, StoreOf
  <2>2. CASE StampByUser(w)
    BY <1>2, <2>2 DEF StampByUser, StampStoreRefByUser, Newest
  <2>3. QED
    BY <2>1, <2>2 DEF Stamps
<1>4. /\ Rewrites(subs, StampRows(subs, M, StoreOf(x), x))
      /\ StampsOnly(subs, StampRows(subs, M, StoreOf(x), x), M, StoreOf(x), x)
  BY <1>1, <1>2, StampRewrites
<1>5. QED
  BY <1>2, <1>3, <1>4 DEF StampsOnly

\* A step inserts one row, stamps, or changes at most the status and expiry of
\* rows.
LEMMA TableStep ==
  ASSUME Typed, [Next]_vars
  PROVE  \/ \E w \in Workers : GrantInsert(w) \/ Stamps(w)
         \/ Rewrites(subs, subs') /\ KeepsRefs(subs, subs')
<1>1. subs \in Seq(SubRow) /\ now \in Nat /\ work \in [Workers -> Task]
  BY DEF Typed, TypeOK
<1>2. ASSUME NEW w \in Workers, Arrive(w)
      PROVE  subs' = subs
  BY <1>2
  DEF Arrive, Hook, HookCompleted, HookFailed, HookSuccess, HookSale, RedeemBegin,
      CheckoutCreate, AdminConfirmLoad, RefundLoad, UserCancelRead, AdminGrant, dbVars
<1>3. ASSUME NEW w \in Workers, Continue(w), ~GrantInsert(w), ~Stamps(w)
      PROVE  Rewrites(subs, subs') /\ KeepsRefs(subs, subs')
  <2>1. CASE GrantCancelPrior(w)
    BY <1>1, <2>1, CancelUserRewrites DEF GrantCancelPrior
  <2>2. CASE ExtendSettled(w)
    <3>1. work[w].exp \in Nat \cup {NoExpiry}
      BY <1>1 DEF Task
    <3>2. QED
      BY <1>1, <2>2, <3>1, ExtendRewrites DEF ExtendSettled
  <2>3. CASE RefundCancelSub(w)
    BY <1>1, <2>3, CancelRefRewrites DEF RefundCancelSub
  <2>4. CASE ~GrantCancelPrior(w) /\ ~ExtendSettled(w) /\ ~RefundCancelSub(w)
    <3>1. subs' = subs
      BY <1>3, <2>4
      DEF Continue, Stamps, CheckoutOpened, CheckoutRefused, CheckoutMarkFailed, LinkCustomer,
          CheckPending, Replan, ReadPayment, ReadPaymentIn, MarkCompleted, MarkFailedByRef,
          AdminConfirmMark, RefundLookup, RefundCharge, RefundNoCharge, RefundCancelAtStripe,
          RefundMark, UserCancelCall, dbVars
    <3>2. QED
      BY <1>1, <3>1, SameRewrites
  <2>5. QED
    BY <2>1, <2>2, <2>3, <2>4
<1>4. ASSUME NEW w \in Workers, Abort(w) \/ SkipIgnored(w)
      PROVE  subs' = subs
  BY <1>4 DEF Abort, SkipIgnored, dbVars
<1>5. ASSUME NEW e \in events, Notify(e)
      PROVE  Rewrites(subs, subs') /\ KeepsRefs(subs, subs')
  <2>1. e.end \in Nat \cup {NoExpiry}
    BY DEF Typed, EventsOK, Event
  <2>2. CASE HookRenewed(e)
    BY <1>1, <2>1, <2>2, ExtendRewrites DEF HookRenewed
  <2>3. CASE HookApple(e)
    BY <1>1, <2>1, <2>3, ExtendRewrites DEF HookApple
  <2>4. CASE HookCancelled(e)
    BY <1>1, <2>4, CancelRefRewrites DEF HookCancelled
  <2>5. CASE HookExpired(e)
    BY <1>1, <2>5, ExpireRewrites DEF HookExpired
  <2>6. QED
    BY <1>5, <2>2, <2>3, <2>4, <2>5 DEF Notify
<1>6. ASSUME Provider \/ Tick
      PROVE  subs' = subs
  BY <1>6
  DEF Provider, ProviderCharge, ProviderRenew, ProviderEnd, ProviderPeriodOver,
      ProviderDecline, Tick, dbVars
<1>7. ASSUME CronExpireLapsed
      PROVE  Rewrites(subs, subs') /\ KeepsRefs(subs, subs')
  BY <1>1, <1>7, LapsedRewrites DEF CronExpireLapsed
<1>8. CASE UNCHANGED vars
  BY <1>1, <1>8, SameRewrites DEF vars, dbVars
<1>9. CASE Next
  BY <1>1, <1>2, <1>3, <1>4, <1>5, <1>6, <1>7, <1>9, SameRewrites DEF Next
<1>10. QED
  BY <1>8, <1>9

\* An insert appends the granted row.
LEMMA InsertStep ==
  ASSUME Typed, NEW w \in Workers, GrantInsert(w)
  PROVE  /\ subs' \in Seq(SubRow) /\ Len(subs') = Len(subs) + 1
         /\ \A i \in 1 .. Len(subs) : subs'[i] = subs[i]
         /\ subs'[Len(subs) + 1] = GrantedRow(work[w])
<1>1. Typed'
  BY GrantTyped
<1>2. subs' = Append(subs, GrantedRow(work[w])) /\ subs \in Seq(SubRow)
  BY DEF GrantInsert, InsertGrantedSubscription, Typed, TypeOK
<1>3. subs' \in Seq(SubRow)
  BY <1>1 DEF Typed, TypeOK
<1>4. QED
  BY <1>2, <1>3

\* No step brings a row back, shortens the table or moves a row to another user.
LEMMA StatusStepHolds ==
  ASSUME Typed, [Next]_vars
  PROVE  StatusStep
<1>1. subs \in Seq(SubRow) /\ \A i \in 1 .. Len(subs) : subs[i].status \in SubStatus
  <2>1. subs \in Seq(SubRow)
    BY DEF Typed, TypeOK
  <2>2. ASSUME NEW i \in 1 .. Len(subs)
        PROVE  subs[i].status \in SubStatus
    <3>1. subs[i] \in SubRow
      BY <2>1
    <3>2. QED
      BY <3>1 DEF SubRow
  <2>3. QED
    BY <2>1, <2>2
<1>2. /\ Rank["active"] = 0 /\ Rank["cancelled"] = 1 /\ Rank["expired"] = 2
  BY DEF Rank
<1>3. CASE Rewrites(subs, subs')
  <2>1. DOMAIN subs' = DOMAIN subs
    BY <1>1, <1>3 DEF Rewrites
  <2>2. ASSUME NEW i \in DOMAIN subs
        PROVE  Rank[subs'[i].status] >= Rank[subs[i].status]
    <3>1. /\ subs[i].status \in {"active", "cancelled", "expired"}
          /\ \/ subs'[i].status = subs[i].status
             \/ subs'[i].status = "expired"
             \/ subs'[i].status = "cancelled" /\ subs[i].status = "active"
      BY <1>1, <1>3 DEF Rewrites, SubStatus
    <3>2. QED
      BY <1>2, <3>1
  <2>3. QED
    BY <1>1, <1>3, <2>1, <2>2 DEF Rewrites, StatusStep
<1>4. CASE \E w \in Workers : GrantInsert(w)
  <2>1. ASSUME NEW i \in DOMAIN subs
        PROVE  i \in DOMAIN subs' /\ subs'[i] = subs[i]
    BY <1>1, <1>4, InsertStep
  <2>2. \A st \in SubStatus : Rank[st] >= Rank[st]
    BY <1>2 DEF SubStatus
  <2>3. QED
    BY <1>1, <2>1, <2>2 DEF StatusStep
<1>5. QED
  BY <1>3, <1>4, TableStep, StampStep

\* No webhook, stamp, renewal or job brings a cancelled or expired row back,
\* whatever arrives late or twice and however many requests overlap.
THEOREM NothingRevivesTheorem == Spec => NothingRevives
<1>1. Typed /\ [Next]_vars => [StatusStep]_vars
  BY StatusStepHolds
<1>2. QED
  BY <1>1, TypeInvariant, PTL DEF Spec, NothingRevives

-----------------------------------------------------------------------------
(***************************************************************************)
(* What one step can do to a worker.                                       *)
(***************************************************************************)
Starts(t) ==
  /\ t.pc # "insert" /\ (t.pc = "cancel" => t.op \in {"redeem", "grant"})
  /\ t.op = "complete" => t.x \in Purchases /\ paidThrough[t.x] # 0

GoesOn(t, t2) == t2.op = t.op /\ t2.x = t.x /\ t2.pc \notin {"cancel", "insert"}

Marks(w) == MarkCompleted(w) \/ AdminConfirmMark(w)

TaskMoves(w) ==
  \/ work'[w] = work[w] \/ work'[w] = Idle
  \/ Starts(work'[w])
  \/ GoesOn(work[w], work'[w])
  \/ Marks(w) \/ GrantCancelPrior(w)

LEMMA ArriveMoves ==
  ASSUME Typed, NEW w \in Workers, Arrive(w)
  PROVE  TaskMoves(w) /\ \A v \in Workers \ {w} : work'[v] = work[v]
<1>1. work \in [Workers -> Task]
  BY DEF Typed, TypeOK
<1>2. \A op, pc, x, end : /\ TaskFor(op, pc, x, end).op = op /\ TaskFor(op, pc, x, end).pc = pc
                         /\ TaskFor(op, pc, x, end).x = x
  BY DEF TaskFor, Idle
<1>3. \A op, pc, x, end, pl :
        /\ [TaskFor(op, pc, x, end) EXCEPT !.plan = pl].op = op
        /\ [TaskFor(op, pc, x, end) EXCEPT !.plan = pl].pc = pc
  BY DEF TaskFor, Idle
<1>4. ASSUME NEW t, Begin(w, t), Starts(t)
      PROVE  TaskMoves(w) /\ \A v \in Workers \ {w} : work'[v] = work[v]
  BY <1>1, <1>4 DEF Begin, TaskMoves
<1>5. ASSUME NEW e \in events, Hook(w, e) \/ RedeemBegin(w, e)
      PROVE  \E t : Begin(w, t) /\ Starts(t)
  <2>1. e.x \in Purchases /\ (e.kind \in Charges => paidThrough[e.x] # 0)
    BY DEF Typed, EventsOK, Event
  <2>2. PICK op, pc, end :
          /\ Begin(w, TaskFor(op, pc, e.x, end))
          /\ pc # "insert" /\ (pc = "cancel" => op = "redeem")
          /\ op = "complete" => e.kind \in Charges
    BY <1>5 DEF Hook, HookCompleted, HookFailed, HookSuccess, HookSale, RedeemBegin, Charges
  <2>3. Starts(TaskFor(op, pc, e.x, end))
    BY <1>2, <2>1, <2>2 DEF Starts
  <2>4. QED
    BY <2>2, <2>3
<1>6. ASSUME NEW p \in Payments, CheckoutCreate(w, p)
      PROVE  \E t : Begin(w, t) /\ Starts(t)
  BY <1>2, <1>6 DEF CheckoutCreate, Starts
<1>7. ASSUME NEW p \in Payments, AdminConfirmLoad(w, p) \/ RefundLoad(w, p)
      PROVE  \E t : Begin(w, t) /\ Starts(t)
  <2>1. PICK op \in {"confirm", "refund"}, pc \in {"confirm", "lookup"} :
          Begin(w, [TaskFor(op, pc, p, 0) EXCEPT !.plan = payments[p].plan])
    BY <1>7 DEF AdminConfirmLoad, RefundLoad
  <2>2. Starts([TaskFor(op, pc, p, 0) EXCEPT !.plan = payments[p].plan])
    BY <1>3 DEF Starts
  <2>3. QED
    BY <2>1, <2>2
<1>8. ASSUME NEW u \in Users, UserCancelRead(w, u)
      PROVE  \E t : Begin(w, t) /\ Starts(t)
  <2>1. PICK txn : Begin(w, [Idle EXCEPT !.pc = "providerCancel", !.op = "usercancel",
                                        !.user = u, !.txn = txn])
    BY <1>8 DEF UserCancelRead
  <2>2. Starts([Idle EXCEPT !.pc = "providerCancel", !.op = "usercancel",
                            !.user = u, !.txn = txn])
    BY DEF Starts, Idle
  <2>3. QED
    BY <2>1, <2>2
<1>9. ASSUME NEW u \in Users, NEW pl \in Plans, NEW end, AdminGrant(w, u, pl, end)
      PROVE  \E t : Begin(w, t) /\ Starts(t)
  <2> DEFINE t == [Idle EXCEPT !.pc = "cancel", !.op = "grant", !.user = u,
                              !.plan = pl, !.store = "admin_granted", !.exp = end]
  <2>1. Begin(w, t)
    BY <1>9 DEF AdminGrant
  <2>2. Starts(t)
    BY DEF Starts, Idle
  <2> HIDE DEF t
  <2>3. QED
    BY <2>1, <2>2
<1>10. QED
  BY <1>4, <1>5, <1>6, <1>7, <1>8, <1>9 DEF Arrive

LEMMA ContinueMoves ==
  ASSUME Typed, NEW w \in Workers, Continue(w) \/ Abort(w) \/ SkipIgnored(w)
  PROVE  TaskMoves(w) /\ \A v \in Workers \ {w} : work'[v] = work[v]
<1>1. work \in [Workers -> Task] /\ work[w] \in Task
  BY DEF Typed, TypeOK
<1>2. CASE Marks(w) \/ GrantCancelPrior(w)
  BY <1>1, <1>2 DEF TaskMoves, Marks, MarkCompleted, AdminConfirmMark, GrantCancelPrior
<1>3. CASE ~Marks(w) /\ ~GrantCancelPrior(w)
  <2>1. \/ Done(w)
        \/ \E pc : Goto(w, pc) /\ pc \notin {"cancel", "insert"}
        \/ ReadPayment(w) \/ RefundLookup(w)
    BY <1>3
    DEF Continue, Marks, CheckoutOpened, CheckoutRefused, CheckoutMarkFailed, LinkCustomer,
        CheckPending, Replan, MarkFailedByRef, GrantInsert, AfterGrant, StampByReference,
        StampByUser, ExtendSettled, RefundCharge, RefundNoCharge, RefundCancelAtStripe,
        RefundMark, RefundCancelSub, UserCancelCall, Abort, SkipIgnored
  <2>2. CASE Done(w)
    BY <1>1, <2>2 DEF Done, TaskMoves
  <2>3. ASSUME NEW pc, Goto(w, pc), pc \notin {"cancel", "insert"}
        PROVE  TaskMoves(w) /\ \A v \in Workers \ {w} : work'[v] = work[v]
    BY <1>1, <2>3 DEF Goto, TaskMoves, GoesOn, Task
  <2>4. CASE ReadPayment(w)
    <3>1. CASE \E pl : \E pc \in {"fail", "mark"} :
                 work' = [work EXCEPT ![w].plan = pl, ![w].pc = pc]
      BY <1>1, <3>1 DEF TaskMoves, GoesOn, Task
    <3>2. QED
      BY <2>2, <2>3, <2>4, <3>1 DEF ReadPayment, ReadPaymentIn
  <2>5. CASE RefundLookup(w)
    <3> DEFINE txn == FindLatestStripeForUserPlan(subs, work[w].user, work[w].plan)
               pc  == IF txn = None THEN "refundMark" ELSE "stripeRefund"
    <3>1. work' = [work EXCEPT ![w].txn = txn, ![w].pc = pc]
      BY <2>5 DEF RefundLookup
    <3>2. pc \notin {"cancel", "insert"}
      OBVIOUS
    <3> HIDE DEF txn, pc
    <3>3. QED
      BY <1>1, <3>1, <3>2 DEF TaskMoves, GoesOn, Task
  <2>6. QED
    BY <2>1, <2>2, <2>3, <2>4, <2>5
<1>4. QED
  BY <1>2, <1>3

LEMMA TaskStep ==
  ASSUME Typed, [Next]_vars, NEW w \in Workers
  PROVE  TaskMoves(w)
<1>1. CASE \E v \in Workers : Arrive(v) \/ Continue(v) \/ Abort(v) \/ SkipIgnored(v)
  BY <1>1, ArriveMoves, ContinueMoves DEF TaskMoves
<1>2. CASE \E e \in events : Notify(e)
  BY <1>2 DEF Notify, HookRenewed, HookApple, HookCancelled, HookExpired, TaskMoves
<1>3. CASE Provider \/ CronExpireLapsed \/ Tick
  BY <1>3
  DEF Provider, ProviderCharge, ProviderRenew, ProviderEnd, ProviderPeriodOver,
      ProviderDecline, CronExpireLapsed, Tick, TaskMoves
<1>4. CASE UNCHANGED vars
  BY <1>4 DEF vars, TaskMoves
<1>5. QED
  BY <1>1, <1>2, <1>3, <1>4 DEF Next

-----------------------------------------------------------------------------
(***************************************************************************)
(* A grant supersedes.                                                     *)
(***************************************************************************)

\* The rows of user u up to n are not active in table T.
Superseded(T, u, n) == \A i \in 1 .. n : T[i].user = u => T[i].status # "active"

\* GrantSupersedes with what makes it inductive: a horizon lies before its row,
\* and between the two statements of a grant what the first one cancelled stays
\* cancelled.
SupersedeInv ==
  /\ GrantSupersedes
  /\ \A j \in DOMAIN subs : subs[j].horizon < j
  /\ \A w \in Workers : work[w].pc = "insert" =>
       work[w].horizon <= Len(subs) /\ Superseded(subs, work[w].user, work[w].horizon)

\* What is superseded stays so.
LEMMA SupersededStable ==
  ASSUME Typed, [Next]_vars, NEW u, NEW n \in Nat, n <= Len(subs), Superseded(subs, u, n)
  PROVE  Superseded(subs', u, n) /\ n <= Len(subs')
<1>1. subs \in Seq(SubRow) /\ Len(subs) \in Nat
  BY DEF Typed, TypeOK
<1>2. CASE Rewrites(subs, subs')
  BY <1>1, <1>2 DEF Rewrites, Superseded
<1>3. CASE \E w \in Workers : GrantInsert(w)
  BY <1>1, <1>3, InsertStep DEF Superseded
<1>4. QED
  BY <1>2, <1>3, TableStep, StampStep

LEMMA SupersedeInductive ==
  ASSUME Typed, [Next]_vars, SupersedeInv
  PROVE  SupersedeInv'
<1>1. /\ subs \in Seq(SubRow) /\ \A j \in 1 .. Len(subs) : subs[j].horizon \in Nat
      /\ DOMAIN subs = 1 .. Len(subs) /\ Len(subs) \in Nat
  <2>1. subs \in Seq(SubRow)
    BY DEF Typed, TypeOK
  <2>2. ASSUME NEW j \in 1 .. Len(subs)
        PROVE  subs[j].horizon \in Nat
    <3>1. subs[j] \in SubRow
      BY <2>1
    <3>2. QED
      BY <3>1 DEF SubRow
  <2>3. QED
    BY <2>1, <2>2
<1>2. \A w \in Workers : work[w] \in Task /\ work[w].horizon \in Nat
  BY DEF Typed, TypeOK, Task
<1>3. \A j \in 1 .. Len(subs) :
        /\ subs[j].horizon < j
        /\ Superseded(subs', subs[j].user, subs[j].horizon)
  <2>1. TAKE j \in 1 .. Len(subs)
  <2>2. subs[j].horizon < j /\ Superseded(subs, subs[j].user, subs[j].horizon)
    BY <1>1 DEF SupersedeInv, GrantSupersedes, Superseded
  <2>3. QED
    BY <1>1, <2>2, SupersededStable
<1>4. \A w \in Workers : work[w].pc = "insert" =>
        /\ work[w].horizon <= Len(subs) /\ work[w].horizon <= Len(subs')
        /\ Superseded(subs', work[w].user, work[w].horizon)
  BY <1>2, SupersededStable DEF SupersedeInv
<1>5. \A j \in DOMAIN subs' :
        subs'[j].horizon < j /\ Superseded(subs', subs'[j].user, subs'[j].horizon)
  <2>1. CASE Rewrites(subs, subs')
    BY <1>1, <1>3, <2>1 DEF Rewrites
  <2>2. ASSUME NEW w \in Workers, GrantInsert(w)
        PROVE  \A j \in DOMAIN subs' :
                 subs'[j].horizon < j /\ Superseded(subs', subs'[j].user, subs'[j].horizon)
    <3>1. /\ DOMAIN subs' = 1 .. Len(subs) + 1
          /\ \A j \in 1 .. Len(subs) : subs'[j] = subs[j]
          /\ subs'[Len(subs) + 1].user = work[w].user
          /\ subs'[Len(subs) + 1].horizon = work[w].horizon
      <4>1. /\ subs' \in Seq(SubRow) /\ Len(subs') = Len(subs) + 1
            /\ \A j \in 1 .. Len(subs) : subs'[j] = subs[j]
            /\ subs'[Len(subs) + 1] = GrantedRow(work[w])
        BY <2>2, InsertStep
      <4>2. DOMAIN subs' = 1 .. Len(subs')
        BY <4>1
      <4>3. /\ GrantedRow(work[w]).user = work[w].user
            /\ GrantedRow(work[w]).horizon = work[w].horizon
        BY DEF GrantedRow
      <4>4. QED
        BY <4>1, <4>2, <4>3
    <3>2. work[w].pc = "insert"
      BY <2>2 DEF GrantInsert
    <3>3. QED
      BY <1>1, <1>2, <1>3, <1>4, <3>1, <3>2
  <2>3. QED
    BY <2>1, <2>2, TableStep, StampStep
<1>6. ASSUME NEW w \in Workers, work'[w].pc = "insert"
      PROVE  work'[w].horizon <= Len(subs') /\ Superseded(subs', work'[w].user, work'[w].horizon)
  <2>1. CASE work'[w] = work[w]
    BY <1>4, <1>6, <2>1
  <2>2. CASE GrantCancelPrior(w)
    <3>1. work'[w].horizon = Len(subs) /\ work'[w].user = work[w].user
      BY <1>2, <2>2 DEF GrantCancelPrior, Typed, TypeOK, Task
    <3>2. Len(subs') = Len(subs)
      BY <1>1, <2>2, CancelUserRewrites DEF GrantCancelPrior, Rewrites
    <3>3. \A i \in 1 .. Len(subs) : subs'[i].user = work[w].user => subs'[i].status # "active"
      <4>1. TAKE i \in 1 .. Len(subs)
      <4>2. subs[i] \in SubRow
        BY <1>1
      <4>3. subs'[i] = IF subs[i].user = work[w].user /\ subs[i].status = "active"
                       THEN [subs[i] EXCEPT !.status = "cancelled"] ELSE subs[i]
        BY <1>1, <2>2 DEF GrantCancelPrior, CancelActiveSubsByUser, SetStatus, ActiveOf
      <4>4. QED
        BY <4>2, <4>3 DEF SubRow
    <3>4. QED
      BY <1>1, <3>1, <3>2, <3>3 DEF Superseded
  <2>3. CASE work'[w] = Idle \/ Starts(work'[w]) \/ GoesOn(work[w], work'[w])
    BY <1>6, <2>3 DEF Idle, Starts, GoesOn
  <2>4. CASE Marks(w)
    BY <1>2, <1>6, <2>4 DEF Marks, MarkCompleted, AdminConfirmMark, Typed, TypeOK, Task
  <2>5. QED
    BY <2>1, <2>2, <2>3, <2>4, TaskStep DEF TaskMoves
<1>7. QED
  BY <1>5, <1>6 DEF SupersedeInv, GrantSupersedes, Superseded

\* However many grants, stamps, renewals and jobs overlap, two rows of a user
\* are active together only if the later one's grant began before the earlier
\* row was there.
THEOREM GrantSupersedesTheorem == Spec => []GrantSupersedes
<1>1. Init => SupersedeInv
  BY DEF Init, SupersedeInv, GrantSupersedes, Idle, FreeRow
<1>2. Typed /\ SupersedeInv /\ [Next]_vars => SupersedeInv'
  BY SupersedeInductive
<1>3. SupersedeInv => GrantSupersedes
  BY DEF SupersedeInv
<1>4. QED
  BY <1>1, <1>2, <1>3, TypeInvariant, PTL DEF Spec

-----------------------------------------------------------------------------
(***************************************************************************)
(* A store reference stays with the buyer.                                 *)
(***************************************************************************)
LEMMA TxnStaysInductive ==
  ASSUME Typed, [Next]_vars, TxnStaysWithOwner
  PROVE  TxnStaysWithOwner'
<1>1. subs \in Seq(SubRow) /\ DOMAIN subs = 1 .. Len(subs) /\ Len(subs) \in Nat
  BY DEF Typed, TypeOK
<1>2. CASE Rewrites(subs, subs') /\ KeepsRefs(subs, subs')
  BY <1>1, <1>2 DEF Rewrites, KeepsRefs, TxnStaysWithOwner
<1>3. ASSUME NEW w \in Workers, Stamps(w)
      PROVE  TxnStaysWithOwner'
  <2> DEFINE x == work[w].x
  <2>1. /\ Rewrites(subs, subs')
        /\ StampsOnly(subs, subs', ActiveOf(subs, Owner[x]), StoreOf(x), x)
    BY <1>3, StampStep
  <2>2. \A i \in ActiveOf(subs, Owner[x]) : subs[i].user = Owner[x]
    BY DEF ActiveOf
  <2> HIDE DEF x
  <2>3. QED
    BY <1>1, <2>1, <2>2 DEF Rewrites, StampsOnly, TxnStaysWithOwner
<1>4. ASSUME NEW w \in Workers, GrantInsert(w)
      PROVE  TxnStaysWithOwner'
  <2>1. /\ subs' \in Seq(SubRow) /\ Len(subs') = Len(subs) + 1
        /\ \A j \in 1 .. Len(subs) : subs'[j] = subs[j]
        /\ subs'[Len(subs) + 1] = GrantedRow(work[w])
    BY <1>4, InsertStep
  <2>2. DOMAIN subs' = 1 .. Len(subs')
    BY <2>1
  <2>3. GrantedRow(work[w]).txn = None
    BY DEF GrantedRow
  <2>4. QED
    BY <1>1, <2>1, <2>2, <2>3 DEF TxnStaysWithOwner
<1>5. QED
  BY <1>2, <1>3, <1>4, TableStep

\* A provider's subscription id is only ever on rows of the account that bought
\* it, under the store of its method.
THEOREM TxnStaysWithOwnerTheorem == Spec => []TxnStaysWithOwner
<1>1. Init => TxnStaysWithOwner
  BY DEF Init, TxnStaysWithOwner, FreeRow
<1>2. Typed /\ TxnStaysWithOwner /\ [Next]_vars => TxnStaysWithOwner'
  BY TxnStaysInductive
<1>3. QED
  BY <1>1, <1>2, TypeInvariant, PTL DEF Spec

-----------------------------------------------------------------------------
(***************************************************************************)
(* A grant is backed.                                                      *)
(***************************************************************************)
Settled == {"completed", "failed", "refunded"}

\* A completion runs only for what was charged, and from the mark on the payment
\* is settled.
WorkerBacked(w) ==
  /\ work[w].op = "complete" => paidThrough[work[w].x] # 0
  /\ work[w].op \in {"complete", "confirm"} /\ work[w].pc \in {"cancel", "insert"} =>
       payments[work[w].x].status \in Settled
  /\ work[w].op = "confirm" /\ work[w].pc \in {"cancel", "insert"} =>
       work[w].x \in confirmed

\* GrantBacked with what makes it inductive.
BackedInv == GrantBacked /\ \A w \in Workers : WorkerBacked(w)

\* Charges, confirmations and settlements are never taken back.
LedgerGrows ==
  /\ \A x \in Purchases : paidThrough[x] # 0 => paidThrough'[x] # 0
  /\ confirmed \subseteq confirmed'
  /\ \A p \in Payments : payments[p].status \in Settled => payments'[p].status \in Settled

LEMMA LedgerStep ==
  ASSUME Typed, [Next]_vars
  PROVE  LedgerGrows
<1>1. /\ payments \in [Payments -> PaymentRow] /\ paidThrough \in [Purchases -> Nat]
      /\ now \in Nat /\ \A x \in Purchases : Period[BilledPlan[x]] \in Nat \ {0}
  BY PeriodAssumption, BilledAssumption DEF Typed, TypeOK
<1>2. ASSUME UNCHANGED <<payments, paidThrough>>, confirmed \subseteq confirmed'
      PROVE  LedgerGrows
  BY <1>2 DEF LedgerGrows
<1>3. ASSUME NEW x, NEW st \in Settled, payments' = [payments EXCEPT ![x].status = st],
             paidThrough' = paidThrough, confirmed \subseteq confirmed'
      PROVE  LedgerGrows
  BY <1>1, <1>3 DEF LedgerGrows, PaymentRow
<1>4. ASSUME NEW w \in Workers, Arrive(w)
      PROVE  LedgerGrows
  <2>1. ASSUME NEW p \in Payments, CheckoutCreate(w, p)
        PROVE  LedgerGrows
    BY <1>1, <2>1 DEF CheckoutCreate, LedgerGrows, Settled, providerVars, observerVars
  <2>2. CASE ~\E p \in Payments : CheckoutCreate(w, p)
    <3>1. UNCHANGED <<payments, paidThrough, confirmed>>
      BY <1>4, <2>2
      DEF Arrive, Hook, HookCompleted, HookFailed, HookSuccess, HookSale, RedeemBegin,
          AdminConfirmLoad, RefundLoad, UserCancelRead, AdminGrant, dbVars, providerVars,
          observerVars
    <3>2. QED
      BY <1>2, <3>1
  <2>3. QED
    BY <2>1, <2>2
<1>5. ASSUME NEW w \in Workers, Continue(w)
      PROVE  LedgerGrows
  <2>1. CASE CheckoutMarkFailed(w) \/ MarkFailedByRef(w)
    BY <1>3, <2>1 DEF CheckoutMarkFailed, MarkFailedByRef, Settled, providerVars, observerVars
  <2>2. CASE MarkCompleted(w) \/ AdminConfirmMark(w)
    BY <1>3, <2>2 DEF MarkCompleted, AdminConfirmMark, Settled, providerVars, observerVars
  <2>3. CASE RefundMark(w)
    BY <1>3, <2>3 DEF RefundMark, Settled, providerVars, observerVars
  <2>4. CASE Replan(w)
    BY <1>1, <2>4 DEF Replan, LedgerGrows, PaymentRow, providerVars, observerVars
  <2>5. CASE /\ ~CheckoutMarkFailed(w) /\ ~MarkFailedByRef(w) /\ ~MarkCompleted(w)
             /\ ~AdminConfirmMark(w) /\ ~RefundMark(w) /\ ~Replan(w)
    <3>1. UNCHANGED <<payments, paidThrough, confirmed>>
      BY <1>5, <2>5
      DEF Continue, CheckoutOpened, CheckoutRefused, LinkCustomer, CheckPending, ReadPayment,
          ReadPaymentIn, GrantCancelPrior, GrantInsert, StampByReference, StampByUser,
          ExtendSettled, RefundLookup, RefundCharge, RefundNoCharge, RefundCancelAtStripe,
          RefundCancelSub, UserCancelCall, dbVars, providerVars, observerVars
    <3>2. QED
      BY <1>2, <3>1
  <2>6. QED
    BY <2>1, <2>2, <2>3, <2>4, <2>5
<1>6. ASSUME \/ \E w \in Workers : Abort(w) \/ SkipIgnored(w)
             \/ \E e \in events : Notify(e)
             \/ CronExpireLapsed \/ Tick
      PROVE  LedgerGrows
  <2>1. UNCHANGED <<payments, paidThrough, confirmed>>
    BY <1>6
    DEF Abort, SkipIgnored, Notify, HookRenewed, HookApple, HookCancelled, HookExpired,
        CronExpireLapsed, Tick, dbVars, providerVars, observerVars
  <2>2. QED
    BY <1>2, <2>1
<1>7. ASSUME Provider
      PROVE  LedgerGrows
  <2>1. ASSUME NEW x \in Purchases, ProviderCharge(x) \/ ProviderRenew(x)
        PROVE  LedgerGrows
    <3>1. PICK end \in Nat \ {0} : paidThrough' = [paidThrough EXCEPT ![x] = end]
      BY <1>1, <2>1 DEF ProviderCharge, ProviderRenew
    <3>2. UNCHANGED <<payments, confirmed>>
      BY <2>1 DEF ProviderCharge, ProviderRenew, dbVars, observerVars
    <3>3. QED
      BY <1>1, <3>1, <3>2 DEF LedgerGrows
  <2>2. CASE ~\E x \in Purchases : ProviderCharge(x) \/ ProviderRenew(x)
    <3>1. UNCHANGED <<payments, paidThrough, confirmed>>
      BY <1>7, <2>2
      DEF Provider, ProviderEnd, ProviderPeriodOver, ProviderDecline, dbVars, observerVars
    <3>2. QED
      BY <1>2, <3>1
  <2>3. QED
    BY <2>1, <2>2
<1>8. CASE UNCHANGED vars
  BY <1>2, <1>8 DEF vars, dbVars, providerVars, observerVars
<1>9. QED
  BY <1>4, <1>5, <1>6, <1>7, <1>8 DEF Next

LEMMA WorkerBackedStep ==
  ASSUME Typed, [Next]_vars, NEW w \in Workers, WorkerBacked(w)
  PROVE  WorkerBacked(w)'
<1>1. LedgerGrows
  BY LedgerStep
<1>2. work[w] \in Task /\ TaskInv(work[w]) /\ payments \in [Payments -> PaymentRow]
  BY DEF Typed, WorkOK, TypeOK
<1>3. work[w].op \in {"complete", "confirm"} => work[w].x \in Payments /\ work[w].x \in Purchases
  BY <1>2 DEF TaskInv, About, OnPayment, Purchases
<1>4. CASE work'[w] = work[w]
  BY <1>1, <1>3, <1>4 DEF WorkerBacked, LedgerGrows
<1>5. CASE work'[w] = Idle
  BY <1>5 DEF WorkerBacked, Idle
<1>6. CASE Starts(work'[w])
  BY <1>1, <1>6 DEF Starts, WorkerBacked, LedgerGrows
<1>7. CASE GoesOn(work[w], work'[w])
  BY <1>1, <1>3, <1>7 DEF GoesOn, WorkerBacked, LedgerGrows
<1>8. CASE Marks(w)
  <2>1. /\ work[w].op \in {"complete", "confirm"}
        /\ work'[w].op = work[w].op /\ work'[w].x = work[w].x
    BY <1>2, <1>8
    DEF Marks, MarkCompleted, AdminConfirmMark, TaskInv, OpPc, Typed, WorkOK, Task
  <2>2. payments'[work[w].x].status \in Settled
    BY <1>2, <1>3, <1>8, <2>1 DEF Marks, MarkCompleted, AdminConfirmMark, PaymentRow, Settled
  <2>3. work[w].op = "confirm" => work[w].x \in confirmed'
    BY <1>2, <1>8, <2>1 DEF Marks, MarkCompleted, AdminConfirmMark, TaskInv, OpPc
  <2>4. QED
    BY <1>1, <1>3, <2>1, <2>2, <2>3 DEF WorkerBacked, LedgerGrows
<1>9. CASE GrantCancelPrior(w)
  <2>1. /\ work[w].pc = "cancel"
        /\ work'[w].op = work[w].op /\ work'[w].x = work[w].x
    BY <1>2, <1>9 DEF GrantCancelPrior, Typed, WorkOK, Task
  <2>2. QED
    BY <1>1, <1>3, <2>1 DEF WorkerBacked, LedgerGrows
<1>10. QED
  BY <1>4, <1>5, <1>6, <1>7, <1>8, <1>9, TaskStep DEF TaskMoves

LEMMA BackedInductive ==
  ASSUME Typed, [Next]_vars, BackedInv
  PROVE  BackedInv'
<1>1. LedgerGrows
  BY LedgerStep
<1>2. subs \in Seq(SubRow) /\ DOMAIN subs = 1 .. Len(subs) /\ Len(subs) \in Nat
  BY DEF Typed, TypeOK
<1>3. \A w \in Workers : WorkerBacked(w)'
  BY WorkerBackedStep DEF BackedInv
<1> DEFINE Backed(x) == /\ paidThrough'[x] # 0 \/ x \in confirmed'
                        /\ payments'[x].status \in Settled
<1>4. \A i \in 1 .. Len(subs) : subs[i].src \in Payments => Backed(subs[i].src)
  BY <1>1, <1>2 DEF BackedInv, GrantBacked, LedgerGrows, Settled, Purchases
<1>5. ASSUME NEW w \in Workers, GrantInsert(w), work[w].x \in Payments
      PROVE  Backed(work[w].x)
  <2>1. work[w] \in Task /\ TaskInv(work[w]) /\ work[w].pc = "insert"
    BY <1>5 DEF Typed, WorkOK, GrantInsert
  <2>2. work[w].op \in {"complete", "confirm"}
    BY <1>5, <2>1, PurchaseAssumption, NoneAssumption
    DEF TaskInv, OpPc, About, OnPayment, Purchases
  <2>3. QED
    BY <1>1, <1>5, <2>1, <2>2 DEF BackedInv, WorkerBacked, LedgerGrows, Purchases
<1>6. GrantBacked'
  <2>1. CASE Rewrites(subs, subs')
    <3>1. DOMAIN subs' = 1 .. Len(subs) /\ \A i \in 1 .. Len(subs) : subs'[i].src = subs[i].src
      BY <1>2, <2>1 DEF Rewrites
    <3>2. QED
      BY <1>4, <3>1 DEF GrantBacked, Settled
  <2>2. ASSUME NEW w \in Workers, GrantInsert(w)
        PROVE  GrantBacked'
    <3>1. /\ subs' \in Seq(SubRow) /\ Len(subs') = Len(subs) + 1
          /\ \A j \in 1 .. Len(subs) : subs'[j] = subs[j]
          /\ subs'[Len(subs) + 1] = GrantedRow(work[w])
      BY <2>2, InsertStep
    <3>2. DOMAIN subs' = 1 .. Len(subs')
      BY <3>1
    <3>3. GrantedRow(work[w]).src = work[w].x
      BY DEF GrantedRow
    <3>4. QED
      BY <1>2, <1>4, <1>5, <2>2, <3>1, <3>2, <3>3 DEF GrantBacked, Settled
  <2>3. QED
    BY <2>1, <2>2, TableStep, StampStep
<1>7. QED
  BY <1>3, <1>6 DEF BackedInv

\* Whatever webhooks, confirmations, refunds and failures interleave, no row is
\* granted for a payment that was neither charged nor confirmed, or that is
\* still pending.
THEOREM GrantBackedTheorem == Spec => []GrantBacked
<1>1. Init => BackedInv
  BY NoneAssumption DEF Init, BackedInv, WorkerBacked, GrantBacked, Idle, FreeRow, Purchases
<1>2. Typed /\ BackedInv /\ [Next]_vars => BackedInv'
  BY BackedInductive
<1>3. BackedInv => GrantBacked
  BY DEF BackedInv
<1>4. QED
  BY <1>1, <1>2, <1>3, TypeInvariant, PTL DEF Spec
-----------------------------------------------------------------------------
(***************************************************************************)
(* What one step can do, in full: where a handler goes from each point,    *)
(* what it carries along and what it does to the payment it is about.      *)
(***************************************************************************)

\* A checkout notice is not how Lemon Squeezy or PayPal announce a charge.
NoticesOK ==
  \A e \in events : e.kind = "completed" => Method[e.x] \notin {"lemonsqueezy", "paypal"}

\* A handler begins with task t.
Opens(t) ==
  /\ t.pc \in {"provider", "link", "read", "check", "extend", "confirm", "cancel",
               "lookup", "providerCancel"}
  /\ t.pc = "provider" => t.op = "checkout"
  /\ t.pc = "cancel" => t.op \in {"redeem", "grant"}
  /\ t.op = "checkout" => payments[t.x].status = "none" /\ payments'[t.x].status = "pending"
  /\ t.op = "complete" =>
       /\ t.store = StoreOf(t.x)
       /\ t.pc = "link" => Method[t.x] # "paypal"
       /\ t.pc = "read" => Method[t.x] \notin {"lemonsqueezy", "paypal"}
  /\ t.op = "confirm" => t.store = StoreOf(t.x) /\ payments[t.x].status = "pending"
  /\ t.op = "refund" => /\ payments[t.x].status = "completed" /\ Method[t.x] = "stripe"
                        /\ t.plan = payments[t.x].plan /\ t.pc = "lookup"

Begins(w) ==
  /\ work[w] = Idle /\ Opens(work'[w])
  /\ work'[w].op # "checkout" => payments' = payments
  /\ \A p \in Payments : p # work'[w].x => payments'[p] = payments[p]
  /\ subs' = subs /\ confirmed' = confirmed

\* From each point of a handler to the next.
Edges ==
  {<<"provider", "markFailed">>, <<"link", "check">>, <<"link", "read">>,
   <<"check", "extend">>, <<"check", "replan">>, <<"check", "read">>,
   <<"replan", "read">>, <<"read", "mark">>, <<"read", "fail">>, <<"read", "stamp">>,
   <<"mark", "cancel">>, <<"confirm", "cancel">>, <<"cancel", "insert">>,
   <<"insert", "stamp">>, <<"insert", "stampUser">>,
   <<"lookup", "refundMark">>, <<"lookup", "stripeRefund">>,
   <<"stripeRefund", "stripeCancel">>, <<"stripeCancel", "refundMark">>,
   <<"refundMark", "refundCancel">>}

Carries(t, t2) ==
  /\ t2.op = t.op /\ t2.x = t.x /\ t2.user = t.user /\ t2.store = t.store
  /\ <<t.pc, t2.pc>> \in Edges
  /\ t.pc # "read" => t2.plan = t.plan
  /\ t.pc # "lookup" => t2.txn = t.txn

\* What the branches tell of the payment.
Branches(t, t2) ==
  /\ t.pc = "link" => (t2.pc = "check" <=> Method[t.x] = "lemonsqueezy")
  /\ t.pc = "check" /\ t2.pc # "extend" =>
       /\ payments[t.x].status = "pending"
       /\ Method[t.x] = "lemonsqueezy" /\ t2.pc = "read" =>
            payments[t.x].plan = BilledPlan[t.x]
  /\ t.pc = "read" =>
       /\ t2.pc \in {"mark", "fail"} =>
            payments[t.x].status = "pending" /\ t2.plan = payments[t.x].plan
       /\ t2.pc = "mark" => t.op = "complete"
       /\ t2.pc = "stamp" =>
            t.op = "complete" /\ Recurring(t.x) /\ payments[t.x].status # "pending"
  /\ t.pc = "insert" => (t2.pc = "stamp" <=> t.op = "complete")

Settling == [markFailed |-> "failed", mark |-> "completed", fail |-> "failed",
             confirm |-> "completed", refundMark |-> "refunded"]

\* What a point of a handler does to the payments table.
Writes(t) ==
  /\ \A p \in Payments : p # t.x => payments'[p] = payments[p]
  /\ t.pc \notin DOMAIN Settling \cup {"replan"} => payments' = payments
  /\ t.pc \in DOMAIN Settling =>
       payments'[t.x].status = Settling[t.pc] /\ payments'[t.x].plan = payments[t.x].plan
  /\ t.pc = "replan" => /\ payments'[t.x].status = payments[t.x].status
                        /\ \/ payments'[t.x].plan = BilledPlan[t.x]
                           \/ payments' = payments /\ aborts' # 0
  /\ confirmed \subseteq confirmed'
  /\ t.pc # "confirm" => confirmed' = confirmed
  /\ t.pc = "confirm" => t.x \in confirmed'

Proceeds(w) ==
  /\ Continue(w) \/ SkipIgnored(w)
  /\ \/ work'[w] = Idle
     \/ Carries(work[w], work'[w]) /\ Branches(work[w], work'[w])
  /\ Writes(work[w])

\* A handler is cut short.
Breaks(w) ==
  /\ work'[w] = Idle /\ aborts' # 0
  /\ payments' = payments /\ subs' = subs /\ confirmed' = confirmed

Others(w) == \A v \in Workers \ {w} : work'[v] = work[v]

\* A step that is not a handler's.
Aside == UNCHANGED <<work, payments, confirmed>>

LEMMA TaskForFields ==
  ASSUME NEW op, NEW pc, NEW x, NEW end
  PROVE  /\ TaskFor(op, pc, x, end).op = op /\ TaskFor(op, pc, x, end).pc = pc
         /\ TaskFor(op, pc, x, end).x = x /\ TaskFor(op, pc, x, end).store = StoreOf(x)
  BY DEF TaskFor, Idle, StoreOf

LEMMA TaskForPlanFields ==
  ASSUME NEW op, NEW pc, NEW x, NEW pl
  PROVE  LET t == [TaskFor(op, pc, x, 0) EXCEPT !.plan = pl]
         IN  t.op = op /\ t.pc = pc /\ t.x = x /\ t.store = StoreOf(x) /\ t.plan = pl
  BY DEF TaskFor, Idle, StoreOf

LEMMA BeginGives ==
  ASSUME Typed, NEW w \in Workers, NEW t, Begin(w, t)
  PROVE  work[w] = Idle /\ work'[w] = t /\ Others(w)
  BY DEF Typed, TypeOK, Begin, Others

LEMMA ArriveBegins ==
  ASSUME Typed, NoticesOK, NEW w \in Workers, Arrive(w)
  PROVE  Begins(w) /\ Others(w)
<1>0. payments \in [Payments -> PaymentRow]
  BY DEF Typed, TypeOK
<1>1. ASSUME NEW p \in Payments, CheckoutCreate(w, p)
      PROVE  Begins(w) /\ Others(w)
  <2> DEFINE t == TaskFor("checkout", "provider", p, 0)
  <2>1. t.op = "checkout" /\ t.pc = "provider" /\ t.x = p
    BY TaskForFields
  <2>2. Begin(w, t)
    BY <1>1 DEF CheckoutCreate
  <2> HIDE DEF t
  <2>3. work[w] = Idle /\ work'[w] = t /\ Others(w)
    BY <2>2, BeginGives
  <2>4. /\ payments[p].status = "none" /\ payments'[p].status = "pending"
        /\ \A q \in Payments : q # p => payments'[q] = payments[q]
        /\ subs' = subs /\ confirmed' = confirmed
    BY <1>0, <1>1 DEF CheckoutCreate, observerVars
  <2>5. Opens(work'[w])
    BY <2>1, <2>3, <2>4 DEF Opens
  <2>6. QED
    BY <2>1, <2>3, <2>4, <2>5 DEF Begins
<1>2. ASSUME NEW e \in events, Hook(w, e) \/ RedeemBegin(w, e)
      PROVE  Begins(w) /\ Others(w)
  <2>1. PICK op, pc, end :
          /\ Begin(w, TaskFor(op, pc, e.x, end))
          /\ \/ op = "redeem" /\ pc = "cancel"
             \/ op = "fail" /\ pc = "read"
             \/ op = "complete" /\ pc = "extend"
             \/ op = "complete" /\ pc = "link" /\ Method[e.x] # "paypal"
             \/ op = "complete" /\ pc = "check"
             \/ op = "complete" /\ pc = "read" /\ Method[e.x] \notin {"lemonsqueezy", "paypal"}
    <3>1. CASE HookCompleted(w, e)
      <4>1. Method[e.x] \notin {"lemonsqueezy", "paypal"}
        BY <3>1 DEF HookCompleted, NoticesOK
      <4>2. QED
        BY <3>1, <4>1 DEF HookCompleted
    <3>2. CASE HookFailed(w, e)
      BY <3>2 DEF HookFailed
    <3>3. CASE HookSuccess(w, e)
      BY <3>3 DEF HookSuccess
    <3>4. CASE HookSale(w, e)
      BY <3>4 DEF HookSale
    <3>5. CASE RedeemBegin(w, e)
      BY <3>5 DEF RedeemBegin
    <3>6. QED
      BY <1>2, <3>1, <3>2, <3>3, <3>4, <3>5 DEF Hook
  <2> DEFINE t == TaskFor(op, pc, e.x, end)
  <2>2. t.op = op /\ t.pc = pc /\ t.x = e.x /\ t.store = StoreOf(e.x)
    BY TaskForFields
  <2> HIDE DEF t
  <2>3. work[w] = Idle /\ work'[w] = t /\ Others(w)
    BY <2>1, BeginGives DEF t
  <2>4. payments' = payments /\ subs' = subs /\ confirmed' = confirmed
    BY <1>2
    DEF Hook, HookCompleted, HookFailed, HookSuccess, HookSale, RedeemBegin, dbVars, observerVars
  <2>5. Opens(work'[w])
    BY <2>1, <2>2, <2>3 DEF Opens
  <2>6. QED
    BY <2>3, <2>4, <2>5 DEF Begins
<1>3. ASSUME NEW p \in Payments, AdminConfirmLoad(w, p) \/ RefundLoad(w, p)
      PROVE  Begins(w) /\ Others(w)
  <2>1. PICK op, pc :
          /\ Begin(w, [TaskFor(op, pc, p, 0) EXCEPT !.plan = payments[p].plan])
          /\ \/ op = "confirm" /\ pc = "confirm" /\ payments[p].status = "pending"
             \/ /\ op = "refund" /\ pc = "lookup" /\ payments[p].status = "completed"
                /\ Method[p] = "stripe"
    BY <1>3 DEF AdminConfirmLoad, RefundLoad
  <2> DEFINE pl == payments[p].plan
             t  == [TaskFor(op, pc, p, 0) EXCEPT !.plan = pl]
  <2>2. t.op = op /\ t.pc = pc /\ t.x = p /\ t.store = StoreOf(p) /\ t.plan = pl
    <3> HIDE DEF pl
    <3>1. QED
      BY TaskForPlanFields
  <2> HIDE DEF t
  <2>3. work[w] = Idle /\ work'[w] = t /\ Others(w)
    BY <2>1, BeginGives DEF t
  <2>4. payments' = payments /\ subs' = subs /\ confirmed' = confirmed
    BY <1>3 DEF AdminConfirmLoad, RefundLoad, dbVars, observerVars
  <2>5. Opens(work'[w])
    BY <2>1, <2>2, <2>3 DEF Opens
  <2>6. QED
    BY <2>3, <2>4, <2>5 DEF Begins
<1>4. ASSUME NEW u \in Users, UserCancelRead(w, u)
      PROVE  Begins(w) /\ Others(w)
  <2>1. PICK txn : Begin(w, [Idle EXCEPT !.pc = "providerCancel", !.op = "usercancel",
                                        !.user = u, !.txn = txn])
    BY <1>4 DEF UserCancelRead
  <2> DEFINE t == [Idle EXCEPT !.pc = "providerCancel", !.op = "usercancel",
                              !.user = u, !.txn = txn]
  <2>2. t.op = "usercancel" /\ t.pc = "providerCancel"
    BY DEF Idle
  <2> HIDE DEF t
  <2>3. work[w] = Idle /\ work'[w] = t /\ Others(w)
    BY <2>1, BeginGives DEF t
  <2>4. payments' = payments /\ subs' = subs /\ confirmed' = confirmed
    BY <1>4 DEF UserCancelRead, dbVars, observerVars
  <2>5. QED
    BY <2>2, <2>3, <2>4 DEF Begins, Opens
<1>5. ASSUME NEW u \in Users, NEW pl \in Plans, NEW end, AdminGrant(w, u, pl, end)
      PROVE  Begins(w) /\ Others(w)
  <2> DEFINE t == [Idle EXCEPT !.pc = "cancel", !.op = "grant", !.user = u,
                              !.plan = pl, !.store = "admin_granted", !.exp = end]
  <2>1. Begin(w, t)
    BY <1>5 DEF AdminGrant
  <2>2. t.op = "grant" /\ t.pc = "cancel"
    BY DEF Idle
  <2> HIDE DEF t
  <2>3. work[w] = Idle /\ work'[w] = t /\ Others(w)
    BY <2>1, BeginGives
  <2>4. payments' = payments /\ subs' = subs /\ confirmed' = confirmed
    BY <1>5 DEF AdminGrant, dbVars, observerVars
  <2>5. QED
    BY <2>2, <2>3, <2>4 DEF Begins, Opens
<1>6. QED
  BY <1>1, <1>2, <1>3, <1>4, <1>5 DEF Arrive

\* A task that only moves to another point.
LEMMA GotoCarries ==
  ASSUME Typed, NEW w \in Workers, NEW pc, Goto(w, pc), <<work[w].pc, pc>> \in Edges
  PROVE  Carries(work[w], work'[w]) /\ work'[w].pc = pc /\ work'[w].plan = work[w].plan /\ Others(w)
<1>1. work \in [Workers -> Task] /\ work[w] \in Task
  BY DEF Typed, TypeOK
<1>2. work'[w] = [work[w] EXCEPT !.pc = pc] /\ Others(w)
  BY <1>1 DEF Goto, Others
<1>3. QED
  BY <1>1, <1>2 DEF Carries, Task

LEMMA DoneGives ==
  ASSUME Typed, NEW w \in Workers, Done(w)
  PROVE  work'[w] = Idle /\ Others(w)
  BY DEF Typed, TypeOK, Done, Others

\* A statement that sets the status of the payment at hand.
LEMMA StatusWritten ==
  ASSUME Typed, NEW x \in Payments, NEW st, payments' = [payments EXCEPT ![x].status = st]
  PROVE  /\ \A p \in Payments : p # x => payments'[p] = payments[p]
         /\ payments'[x].status = st /\ payments'[x].plan = payments[x].plan
<1>1. payments \in [Payments -> PaymentRow] /\ payments[x] \in PaymentRow
  BY DEF Typed, TypeOK
<1>2. payments'[x] = [payments[x] EXCEPT !.status = st]
  BY <1>1
<1>3. QED
  BY <1>1, <1>2 DEF PaymentRow

LEMMA SettlingPoints ==
  /\ DOMAIN Settling = {"markFailed", "mark", "fail", "confirm", "refundMark"}
  /\ Settling["markFailed"] = "failed" /\ Settling["mark"] = "completed"
  /\ Settling["fail"] = "failed" /\ Settling["confirm"] = "completed"
  /\ Settling["refundMark"] = "refunded"
  BY DEF Settling

\* A statement that leaves the payments alone.
LEMMA WritesNothing ==
  ASSUME NEW t, t.pc \notin {"markFailed", "mark", "fail", "confirm", "refundMark", "replan"},
         payments' = payments, confirmed' = confirmed
  PROVE  Writes(t)
  BY SettlingPoints DEF Writes

LEMMA ContinueProceeds ==
  ASSUME Typed, NEW w \in Workers, Continue(w)
  PROVE  Proceeds(w) /\ Others(w)
<1> USE DEF observerVars, dbVars
<1>1. work[w] \in Task /\ TaskInv(work[w]) /\ payments \in [Payments -> PaymentRow]
      /\ work \in [Workers -> Task]
  BY DEF Typed, WorkOK, TypeOK
<1>2. \A pc : work[w].op \in {"checkout", "complete", "fail", "confirm", "refund"}
        => work[w].x \in Payments
  BY <1>1 DEF TaskInv, About, OnPayment
<1>3. CASE \/ CheckoutOpened(w) \/ StampByReference(w) \/ StampByUser(w) \/ ExtendSettled(w)
           \/ RefundCancelSub(w) \/ UserCancelCall(w)
  <2>1. Done(w) /\ payments' = payments /\ confirmed' = confirmed
        /\ work[w].pc \in {"provider", "stamp", "stampUser", "extend", "refundCancel",
                           "providerCancel"}
    BY <1>3
    DEF CheckoutOpened, StampByReference, StampByUser, ExtendSettled, RefundCancelSub,
        UserCancelCall
  <2>2. QED
    BY <2>1, DoneGives, WritesNothing DEF Proceeds
<1>4. CASE \/ CheckoutRefused(w) \/ LinkCustomer(w) \/ CheckPending(w)
           \/ RefundNoCharge(w) \/ RefundCancelAtStripe(w)
  <2>1. payments' = payments /\ confirmed' = confirmed
        /\ work[w].pc \in {"provider", "link", "check", "stripeRefund", "stripeCancel"}
    BY <1>4
    DEF CheckoutRefused, LinkCustomer, CheckPending, RefundNoCharge, RefundCancelAtStripe
  <2>2. PICK pc : /\ Goto(w, pc) /\ <<work[w].pc, pc>> \in Edges
                  /\ work[w].pc = "link" => (pc = "check" <=> Method[work[w].x] = "lemonsqueezy")
                  /\ work[w].pc = "check" /\ pc # "extend" =>
                       /\ payments[work[w].x].status = "pending"
                       /\ Method[work[w].x] = "lemonsqueezy" /\ pc = "read" =>
                            payments[work[w].x].plan = BilledPlan[work[w].x]
    BY <1>4
    DEF CheckoutRefused, LinkCustomer, CheckPending, RefundNoCharge, RefundCancelAtStripe, Edges
  <2>3. Carries(work[w], work'[w]) /\ work'[w].pc = pc /\ Others(w)
    BY <2>2, GotoCarries
  <2>4. QED
    BY <2>1, <2>2, <2>3, WritesNothing DEF Proceeds, Branches
<1>5. CASE CheckoutMarkFailed(w) \/ MarkFailedByRef(w)
  <2>1. /\ Done(w) /\ confirmed' = confirmed
        /\ work[w].pc \in {"markFailed", "fail"} /\ work[w].x \in Payments
        /\ payments' = [payments EXCEPT ![work[w].x].status = "failed"]
    BY <1>1, <1>2, <1>5 DEF CheckoutMarkFailed, MarkFailedByRef, TaskInv, OpPc
  <2>2. Writes(work[w])
    BY <2>1, StatusWritten, SettlingPoints DEF Writes
  <2>3. QED
    BY <2>1, <2>2, DoneGives DEF Proceeds
<1>6. CASE Replan(w)
  <2>1. Goto(w, "read") /\ work[w].pc = "replan" /\ work[w].x \in Payments /\ confirmed' = confirmed
    BY <1>1, <1>2, <1>6 DEF Replan, TaskInv, OpPc
  <2>2. Writes(work[w])
    <3>1. /\ payments'[work[w].x] = [payments[work[w].x] EXCEPT !.plan = BilledPlan[work[w].x]]
          /\ \A p \in Payments : p # work[w].x => payments'[p] = payments[p]
          /\ payments[work[w].x] \in PaymentRow
      BY <1>1, <1>6, <2>1 DEF Replan
    <3>2. /\ payments'[work[w].x].status = payments[work[w].x].status
          /\ payments'[work[w].x].plan = BilledPlan[work[w].x]
      BY <3>1 DEF PaymentRow
    <3>3. QED
      BY <2>1, <3>1, <3>2, SettlingPoints DEF Writes
  <2>3. Carries(work[w], work'[w]) /\ Others(w)
    BY <2>1, GotoCarries DEF Edges
  <2>4. QED
    BY <2>1, <2>2, <2>3 DEF Proceeds, Branches
<1>7. CASE ReadPayment(w)
  <2> DEFINE pl == payments[work[w].x].plan
  <2>1. /\ work[w].pc = "read" /\ payments' = payments /\ confirmed' = confirmed
        /\ work[w].op \in {"complete", "fail"}
    BY <1>1, <1>7 DEF ReadPayment, ReadPaymentIn, TaskInv, OpPc
  <2>2. Writes(work[w])
    BY <2>1, WritesNothing
  <2>3. CASE payments[work[w].x].status = "pending"
    <3>1. PICK pc \in {"fail", "mark"} :
            /\ work' = [work EXCEPT ![w].plan = pl, ![w].pc = pc]
            /\ pc = "mark" => work[w].op = "complete"
      BY <1>7, <2>1, <2>3 DEF ReadPayment, ReadPaymentIn
    <3> HIDE DEF pl
    <3>2. /\ work'[w] = [work[w] EXCEPT !.plan = pl, !.pc = pc] /\ Others(w)
      BY <1>1, <3>1 DEF Others
    <3>3. Carries(work[w], work'[w]) /\ work'[w].pc = pc /\ work'[w].plan = pl
      BY <1>1, <2>1, <3>2 DEF Carries, Task, Edges
    <3>4. QED
      BY <2>1, <2>2, <2>3, <3>1, <3>2, <3>3 DEF Proceeds, Branches, pl
  <2>4. CASE payments[work[w].x].status # "pending"
    <3>1. Done(w) \/ (Goto(w, "stamp") /\ work[w].op = "complete" /\ Recurring(work[w].x))
      BY <1>7, <2>4 DEF ReadPayment, ReadPaymentIn, StampRef
    <3>2. Goto(w, "stamp") => Carries(work[w], work'[w]) /\ work'[w].pc = "stamp" /\ Others(w)
      BY <2>1, GotoCarries DEF Edges
    <3>3. QED
      BY <2>1, <2>2, <2>4, <3>1, <3>2, DoneGives DEF Proceeds, Branches
  <2>5. QED
    BY <2>3, <2>4
<1>8. CASE Marks(w)
  <2> DEFINE end == now + Period[work[w].plan]
  <2>1. /\ work[w].pc \in {"mark", "confirm"} /\ work[w].x \in Payments
        /\ payments' = [payments EXCEPT ![work[w].x].status = "completed"]
        /\ work' = [work EXCEPT ![w].pc = "cancel", ![w].exp = end]
        /\ confirmed \subseteq confirmed'
        /\ work[w].pc = "mark" => confirmed' = confirmed
        /\ work[w].pc = "confirm" => work[w].x \in confirmed'
    BY <1>1, <1>2, <1>8 DEF Marks, MarkCompleted, AdminConfirmMark, TaskInv, OpPc
  <2> HIDE DEF end
  <2>2. Writes(work[w])
    BY <2>1, StatusWritten, SettlingPoints DEF Writes
  <2>3. work'[w] = [work[w] EXCEPT !.pc = "cancel", !.exp = end] /\ Others(w)
    BY <1>1, <2>1 DEF Others
  <2>4. Carries(work[w], work'[w])
    BY <1>1, <2>1, <2>3 DEF Carries, Task, Edges
  <2>5. QED
    BY <2>1, <2>2, <2>3, <2>4 DEF Proceeds, Branches
<1>9. CASE GrantCancelPrior(w)
  <2>1. /\ work[w].pc = "cancel" /\ payments' = payments /\ confirmed' = confirmed
        /\ work' = [work EXCEPT ![w].pc = "insert", ![w].horizon = Len(subs)]
    BY <1>9 DEF GrantCancelPrior
  <2>2. work'[w] = [work[w] EXCEPT !.pc = "insert", !.horizon = Len(subs)] /\ Others(w)
    BY <1>1, <2>1 DEF Others
  <2>3. Carries(work[w], work'[w])
    BY <1>1, <2>1, <2>2 DEF Carries, Task, Edges
  <2>4. QED
    BY <2>1, <2>2, <2>3, WritesNothing DEF Proceeds, Branches
<1>10. CASE GrantInsert(w)
  <2>1. /\ work[w].pc = "insert" /\ payments' = payments /\ confirmed' = confirmed
        /\ \/ Done(w)
           \/ Goto(w, "stamp") /\ work[w].op = "complete"
           \/ Goto(w, "stampUser") /\ work[w].op # "complete"
    BY <1>10 DEF GrantInsert, AfterGrant
  <2>2. \A pc \in {"stamp", "stampUser"} : Goto(w, pc) =>
          Carries(work[w], work'[w]) /\ work'[w].pc = pc /\ Others(w)
    BY <2>1, GotoCarries DEF Edges
  <2>3. QED
    BY <2>1, <2>2, DoneGives, WritesNothing DEF Proceeds, Branches
<1>11. CASE RefundLookup(w)
  <2> DEFINE txn == FindLatestStripeForUserPlan(subs, work[w].user, work[w].plan)
  <2>1. PICK pc \in {"refundMark", "stripeRefund"} :
           work' = [work EXCEPT ![w].txn = txn, ![w].pc = pc]
    BY <1>11 DEF RefundLookup
  <2>2. work[w].pc = "lookup" /\ payments' = payments /\ confirmed' = confirmed
    BY <1>11 DEF RefundLookup
  <2> HIDE DEF txn
  <2>3. work'[w] = [work[w] EXCEPT !.txn = txn, !.pc = pc] /\ Others(w)
    BY <1>1, <2>1 DEF Others
  <2>4. Carries(work[w], work'[w])
    BY <1>1, <2>2, <2>3 DEF Carries, Task, Edges
  <2>5. QED
    BY <2>2, <2>3, <2>4, WritesNothing DEF Proceeds, Branches
<1>12. CASE RefundCharge(w)
  <2>1. /\ work[w].pc = "stripeRefund" /\ payments' = payments /\ confirmed' = confirmed
        /\ Done(w) \/ Goto(w, "stripeCancel")
    BY <1>12 DEF RefundCharge
  <2>2. Goto(w, "stripeCancel") => Carries(work[w], work'[w]) /\ Others(w)
    BY <2>1, GotoCarries DEF Edges
  <2>3. QED
    BY <2>1, <2>2, DoneGives, WritesNothing DEF Proceeds, Branches
<1>13. CASE RefundMark(w)
  <2>1. /\ work[w].pc = "refundMark" /\ confirmed' = confirmed /\ work[w].x \in Payments
        /\ payments' = [payments EXCEPT ![work[w].x].status = "refunded"]
        /\ Done(w) \/ Goto(w, "refundCancel")
    BY <1>1, <1>2, <1>13 DEF RefundMark, TaskInv, OpPc
  <2>2. Writes(work[w])
    BY <2>1, StatusWritten, SettlingPoints DEF Writes
  <2>3. Goto(w, "refundCancel") => Carries(work[w], work'[w]) /\ Others(w)
    BY <2>1, GotoCarries DEF Edges
  <2>4. QED
    BY <2>1, <2>2, <2>3, DoneGives DEF Proceeds, Branches
<1>14. QED
  BY <1>3, <1>4, <1>5, <1>6, <1>7, <1>8, <1>9, <1>10, <1>11, <1>12, <1>13 DEF Continue, Marks

LEMMA FailureBreaks ==
  ASSUME Typed, NEW w \in Workers, Abort(w) \/ SkipIgnored(w)
  PROVE  (Breaks(w) \/ Proceeds(w)) /\ Others(w) /\ subs' = subs /\ aborts' # 0
<1>1. aborts \in Nat /\ aborts' = aborts + 1 /\ payments' = payments /\ subs' = subs
      /\ confirmed' = confirmed
  BY DEF Typed, TypeOK, Abort, SkipIgnored, dbVars
<1>2. aborts' # 0
  BY <1>1
<1>3. CASE Abort(w)
  BY <1>1, <1>2, <1>3, DoneGives DEF Abort, Breaks
<1>4. CASE SkipIgnored(w)
  <2>1. PICK pc : /\ Goto(w, pc) /\ <<work[w].pc, pc>> \in Edges
                  /\ work[w].pc = "link" => (pc = "check" <=> Method[work[w].x] = "lemonsqueezy")
                  /\ work[w].pc \in {"link", "replan"}
    BY <1>4 DEF SkipIgnored, Edges
  <2>2. Carries(work[w], work'[w]) /\ work'[w].pc = pc /\ Others(w)
    BY <2>1, GotoCarries
  <2>3. Writes(work[w])
    <3>1. CASE work[w].pc = "link"
      BY <1>1, <3>1, WritesNothing
    <3>2. CASE work[w].pc = "replan"
      BY <1>1, <1>2, <3>2, SettlingPoints DEF Writes
    <3>3. QED
      BY <2>1, <3>1, <3>2
  <2>4. QED
    BY <1>1, <1>2, <1>4, <2>1, <2>2, <2>3 DEF Proceeds, Branches
<1>5. QED
  BY <1>3, <1>4

\* Every step is a handler's beginning, one of its statements, its end before
\* time, or leaves the handlers and the payments alone.
LEMMA EveryMove ==
  ASSUME Typed, NoticesOK, [Next]_vars
  PROVE  \/ \E w \in Workers : Others(w) /\ (Begins(w) \/ Proceeds(w) \/ Breaks(w))
         \/ Aside
<1>1. CASE \E w \in Workers : Arrive(w) \/ Continue(w) \/ Abort(w) \/ SkipIgnored(w)
  BY <1>1, ArriveBegins, ContinueProceeds, FailureBreaks
<1>2. CASE \E e \in events : Notify(e)
  BY <1>2
  DEF Notify, HookRenewed, HookApple, HookCancelled, HookExpired, Aside, observerVars
<1>3. CASE Provider \/ CronExpireLapsed \/ Tick
  BY <1>3
  DEF Provider, ProviderCharge, ProviderRenew, ProviderEnd, ProviderPeriodOver,
      ProviderDecline, CronExpireLapsed, Tick, Aside, dbVars, observerVars
<1>4. CASE UNCHANGED vars
  BY <1>4 DEF vars, dbVars, observerVars, Aside
<1>5. QED
  BY <1>1, <1>2, <1>3, <1>4 DEF Next

\* Only a charge is announced as completed, and only under the other methods.
LEMMA NoticesStep ==
  ASSUME Typed, NoticesOK, [Next]_vars
  PROVE  NoticesOK'
<1> DEFINE Fits(E) == \A e \in E :
             e.kind = "completed" => Method[e.x] \notin {"lemonsqueezy", "paypal"}
<1>1. ASSUME NEW E, Announce(E), Fits(E)
      PROVE  NoticesOK'
  BY <1>1 DEF Announce, NoticesOK
<1>2. ASSUME events' = events
      PROVE  NoticesOK'
  BY <1>2 DEF NoticesOK
<1>3. \A k, x : k # "completed" => Fits({Ev(k, x, 0)})
  BY DEF Ev
<1>4. Fits({})
  OBVIOUS
<1>5. \A x, end : Fits(FirstCycle(x, end)) /\ (Recurring(x) => Fits(Renewal(x, end)))
  <2>1. TAKE x, end
  <2>2. \A k, n : Ev(k, x, n).kind = k /\ Ev(k, x, n).x = x
    BY DEF Ev
  <2>3. QED
    BY <2>2 DEF FirstCycle, Renewal, Recurring
<1> HIDE DEF Fits
<1>6. ASSUME NEW w \in Workers, Arrive(w)
      PROVE  NoticesOK'
  <2>1. events' = events
    BY <1>6
    DEF Arrive, Hook, HookCompleted, HookFailed, HookSuccess, HookSale, RedeemBegin,
        CheckoutCreate, AdminConfirmLoad, RefundLoad, UserCancelRead, AdminGrant, providerVars
  <2>2. QED
    BY <1>2, <2>1
<1>7. ASSUME NEW w \in Workers, Continue(w)
      PROVE  NoticesOK'
  <2>1. CASE RefundCancelAtStripe(w) \/ UserCancelCall(w)
    <3>1. \/ events' = events
          \/ \E x : Announce({Ev("cancelled", x, 0)}) \/ Announce({})
      BY <2>1 DEF RefundCancelAtStripe, UserCancelCall
    <3>2. QED
      BY <1>1, <1>2, <1>3, <1>4, <3>1
  <2>2. CASE ~RefundCancelAtStripe(w) /\ ~UserCancelCall(w)
    <3>1. events' = events
      BY <1>7, <2>2
      DEF Continue, CheckoutOpened, CheckoutRefused, CheckoutMarkFailed, LinkCustomer,
          CheckPending, Replan, ReadPayment, ReadPaymentIn, MarkCompleted, MarkFailedByRef,
          AdminConfirmMark, GrantCancelPrior, GrantInsert, StampByReference, StampByUser,
          ExtendSettled, RefundLookup, RefundCharge, RefundNoCharge, RefundMark,
          RefundCancelSub, providerVars
    <3>2. QED
      BY <1>2, <3>1
  <2>3. QED
    BY <2>1, <2>2
<1>8. ASSUME \/ \E w \in Workers : Abort(w) \/ SkipIgnored(w)
             \/ \E e \in events : Notify(e)
             \/ CronExpireLapsed \/ Tick
      PROVE  NoticesOK'
  <2>1. events' = events
    BY <1>8
    DEF Abort, SkipIgnored, Notify, HookRenewed, HookApple, HookCancelled, HookExpired,
        CronExpireLapsed, Tick, providerVars
  <2>2. QED
    BY <1>2, <2>1
<1>9. ASSUME Provider
      PROVE  NoticesOK'
  <2>1. \/ \E x, end : Announce(FirstCycle(x, end))
        \/ \E x, end : Recurring(x) /\ Announce(Renewal(x, end))
        \/ \E x : \/ Announce({Ev("cancelled", x, 0)}) \/ Announce({Ev("expired", x, 0)})
                  \/ Announce({Ev("failed", x, 0)}) \/ Announce({})
    BY <1>9
    DEF Provider, ProviderCharge, ProviderRenew, ProviderEnd, ProviderPeriodOver, ProviderDecline
  <2>2. QED
    BY <1>1, <1>3, <1>4, <1>5, <2>1
<1>10. CASE UNCHANGED vars
  BY <1>2, <1>10 DEF vars, providerVars
<1>11. QED
  BY <1>6, <1>7, <1>8, <1>9, <1>10 DEF Next

LEMMA NoticesInit == Init => NoticesOK
  BY DEF Init, NoticesOK

\* No row is inserted but by a grant at its second statement.
LEMMA InsertedRow ==
  ASSUME Typed, [Next]_vars, NEW i \in 1 .. Len(subs')
  PROVE  \/ /\ i \in 1 .. Len(subs)
            /\ subs'[i].src = subs[i].src /\ subs'[i].plan = subs[i].plan
            /\ subs'[i].user = subs[i].user /\ subs'[i].horizon = subs[i].horizon
            /\ subs'[i].status = "active" => subs[i].status = "active"
         \/ \E w \in Workers : /\ GrantInsert(w) /\ i = Len(subs) + 1
                               /\ subs'[i] = GrantedRow(work[w])
<1>1. subs \in Seq(SubRow) /\ Len(subs) \in Nat
  BY DEF Typed, TypeOK
<1>2. CASE Rewrites(subs, subs')
  BY <1>1, <1>2 DEF Rewrites
<1>3. ASSUME NEW w \in Workers, GrantInsert(w)
      PROVE  \/ i \in 1 .. Len(subs) /\ subs'[i] = subs[i]
             \/ i = Len(subs) + 1 /\ subs'[i] = GrantedRow(work[w])
  BY <1>1, <1>3, InsertStep
<1>4. QED
  BY <1>2, <1>3, TableStep, StampStep

-----------------------------------------------------------------------------
(***************************************************************************)
(* The plan that was billed.                                               *)
(***************************************************************************)

\* A Lemon Squeezy completion reads the plan only once the payment has the
\* billed one, and carries it from then on.
BilledTask(w) ==
  work[w].op = "complete" /\ Method[work[w].x] = "lemonsqueezy" =>
    /\ work[w].pc \in {"replan", "read"} => payments[work[w].x].status # "none"
    /\ work[w].pc = "read" => payments[work[w].x].plan = BilledPlan[work[w].x]
    /\ work[w].pc \in {"mark", "cancel", "insert"} => work[w].plan = BilledPlan[work[w].x]

\* BilledPlanGranted with what makes it inductive.
BilledInv == BilledPlanGranted /\ \A w \in Workers : BilledTask(w)

\* While no update is dropped, a payment that is there keeps the billed plan.
LEMMA BilledPlanStays ==
  ASSUME Typed, NoticesOK, [Next]_vars, aborts' = 0, NEW p \in Payments,
         payments[p].status # "none"
  PROVE  /\ payments'[p].status # "none"
         /\ payments[p].plan = BilledPlan[p] => payments'[p].plan = BilledPlan[p]
<1>1. ASSUME NEW w \in Workers, Begins(w)
      PROVE  payments'[p] = payments[p]
  BY <1>1 DEF Begins, Opens
<1>2. ASSUME NEW w \in Workers, Proceeds(w)
      PROVE  /\ payments'[p].status # "none"
             /\ payments[p].plan = BilledPlan[p] => payments'[p].plan = BilledPlan[p]
  BY <1>2, SettlingPoints DEF Proceeds, Writes
<1>3. QED
  BY <1>1, <1>2, EveryMove DEF Breaks, Aside

LEMMA BilledTaskStep ==
  ASSUME Typed, NoticesOK, [Next]_vars, aborts' = 0, NEW w \in Workers, BilledTask(w)
  PROVE  BilledTask(w)'
<1>1. work[w] \in Task /\ TaskInv(work[w])
  BY DEF Typed, WorkOK, TypeOK
<1>2. work[w].op = "complete" => work[w].x \in Payments
  BY <1>1 DEF TaskInv, About, OnPayment
<1>3. CASE work'[w] = work[w]
  <2>1. SUFFICES ASSUME work[w].op = "complete", Method[work[w].x] = "lemonsqueezy"
                 PROVE  /\ work[w].pc \in {"replan", "read"} => payments'[work[w].x].status # "none"
                        /\ work[w].pc = "read" =>
                             payments'[work[w].x].plan = BilledPlan[work[w].x]
                        /\ work[w].pc \in {"mark", "cancel", "insert"} =>
                             work[w].plan = BilledPlan[work[w].x]
    BY <1>3 DEF BilledTask
  <2>2. work[w].x \in Payments
    BY <1>2, <2>1
  <2>3. QED
    BY <2>1, <2>2, BilledPlanStays DEF BilledTask
<1>4. CASE Begins(w)
  BY <1>4 DEF Begins, Opens, BilledTask
<1>5. CASE work'[w] = Idle
  BY <1>5 DEF BilledTask, Idle
<1>6. CASE Proceeds(w) /\ work'[w] # Idle
  <2> DEFINE t == work[w]
             t2 == work'[w]
  <2>1. Carries(t, t2) /\ Branches(t, t2) /\ Writes(t)
    BY <1>6 DEF Proceeds
  <2>2. SUFFICES ASSUME t.op = "complete", Method[t.x] = "lemonsqueezy"
                 PROVE  /\ t2.pc \in {"replan", "read"} => payments'[t.x].status # "none"
                        /\ t2.pc = "read" => payments'[t.x].plan = BilledPlan[t.x]
                        /\ t2.pc \in {"mark", "cancel", "insert"} => t2.plan = BilledPlan[t.x]
    BY <2>1 DEF BilledTask, Carries
  <2>3. /\ t.pc \in {"replan", "read"} => payments[t.x].status # "none"
        /\ t.pc = "read" => payments[t.x].plan = BilledPlan[t.x]
        /\ t.pc \in {"mark", "cancel", "insert"} => t.plan = BilledPlan[t.x]
    BY <2>2 DEF BilledTask
  <2> HIDE DEF t, t2
  <2>4. CASE t2.pc \in {"mark", "cancel", "insert"}
    <3>1. /\ t.pc \in {"read", "mark", "cancel", "confirm"} /\ (t.pc = "confirm" => FALSE)
          /\ t.pc # "read" => t2.plan = t.plan
          /\ t.pc = "read" => t2.plan = payments[t.x].plan
      <4>1. t.pc # "confirm"
        BY <1>1, <2>2 DEF TaskInv, OpPc, t
      <4>2. QED
        BY <2>1, <2>4, <4>1 DEF Carries, Branches, Edges
    <3>2. QED
      BY <2>3, <2>4, <3>1
  <2>5. CASE t2.pc = "replan"
    <3>1. t.pc = "check" /\ payments[t.x].status = "pending" /\ payments' = payments
      BY <2>1, <2>5, SettlingPoints DEF Carries, Branches, Writes, Edges
    <3>2. QED
      BY <2>5, <3>1
  <2>6. CASE t2.pc = "read"
    <3>1. t.pc \in {"link", "check", "replan"}
      BY <2>1, <2>6 DEF Carries, Edges
    <3>2. CASE t.pc = "link"
      BY <2>1, <2>2, <2>6, <3>2 DEF Branches
    <3>3. CASE t.pc = "check"
      <4>1. /\ payments[t.x].status = "pending" /\ payments' = payments
            /\ payments[t.x].plan = BilledPlan[t.x]
        BY <2>1, <2>2, <2>6, <3>3, SettlingPoints DEF Branches, Writes
      <4>2. QED
        BY <2>6, <4>1
    <3>4. CASE t.pc = "replan"
      BY <2>1, <2>3, <2>6, <3>4 DEF Writes
    <3>5. QED
      BY <3>1, <3>2, <3>3, <3>4
  <2>7. QED
    BY <2>4, <2>5, <2>6
<1>7. QED
  BY <1>3, <1>4, <1>5, <1>6, EveryMove DEF Others, Breaks, Aside

LEMMA BilledInductive ==
  ASSUME Typed, NoticesOK, BackedInv, BilledInv, [Next]_vars, aborts' = 0
  PROVE  BilledInv'
<1>1. LedgerGrows
  BY LedgerStep
<1>2. subs' \in Seq(SubRow) /\ DOMAIN subs' = 1 .. Len(subs') /\ DOMAIN subs = 1 .. Len(subs)
  <2>1. subs \in Seq(SubRow)
    BY DEF Typed, TypeOK
  <2>2. subs' \in Seq(SubRow)
    BY TableStep, StampStep, InsertStep DEF Rewrites
  <2>3. QED
    BY <2>1, <2>2
<1>3. ASSUME NEW i \in DOMAIN subs', subs'[i].src \in Payments \ confirmed',
             Method[subs'[i].src] = "lemonsqueezy"
      PROVE  subs'[i].plan = BilledPlan[subs'[i].src]
  <2>1. CASE i \in 1 .. Len(subs) /\ subs'[i].src = subs[i].src /\ subs'[i].plan = subs[i].plan
    <3>1. subs[i].src \in Payments \ confirmed
      BY <1>1, <1>3, <2>1 DEF LedgerGrows
    <3>2. QED
      BY <1>2, <1>3, <2>1, <3>1 DEF BilledInv, BilledPlanGranted
  <2>2. ASSUME NEW w \in Workers, GrantInsert(w), subs'[i] = GrantedRow(work[w])
        PROVE  subs'[i].plan = BilledPlan[subs'[i].src]
    <3>1. /\ subs'[i].src = work[w].x /\ subs'[i].plan = work[w].plan
          /\ work[w].pc = "insert" /\ TaskInv(work[w])
      BY <2>2 DEF GrantedRow, GrantInsert, Typed, WorkOK
    <3>2. work[w].op = "complete"
      <4>1. work[w].op # "confirm"
        BY <1>1, <1>3, <3>1 DEF BackedInv, WorkerBacked, LedgerGrows
      <4>2. QED
        BY <1>3, <3>1, <4>1, PurchaseAssumption, NoneAssumption
        DEF TaskInv, OpPc, About, OnPayment, Purchases
    <3>3. QED
      BY <1>3, <3>1, <3>2 DEF BilledInv, BilledTask
  <2>3. QED
    BY <1>2, <2>1, <2>2, InsertedRow
<1>4. QED
  BY <1>3, BilledTaskStep DEF BilledInv, BilledPlanGranted

\* Failures are only counted up.
LEMMA AbortsStep ==
  ASSUME Typed, [Next]_vars, aborts' = 0
  PROVE  aborts = 0
<1>1. aborts \in Nat
  BY DEF Typed, TypeOK
<1>2. aborts' = aborts \/ aborts' = aborts + 1
  <2>1. ASSUME NEW w \in Workers, Arrive(w) \/ Continue(w)
        PROVE  aborts' = aborts
    BY <2>1
    DEF Arrive, Hook, HookCompleted, HookFailed, HookSuccess, HookSale, RedeemBegin,
        CheckoutCreate, AdminConfirmLoad, RefundLoad, UserCancelRead, AdminGrant,
        Continue, CheckoutOpened, CheckoutRefused, CheckoutMarkFailed, LinkCustomer,
        CheckPending, Replan, ReadPayment, ReadPaymentIn, MarkCompleted, MarkFailedByRef,
        AdminConfirmMark, GrantCancelPrior, GrantInsert, StampByReference, StampByUser,
        ExtendSettled, RefundLookup, RefundCharge, RefundNoCharge, RefundCancelAtStripe,
        RefundMark, RefundCancelSub, UserCancelCall, observerVars
  <2>2. CASE \/ \E w \in Workers : Abort(w) \/ SkipIgnored(w)
             \/ \E e \in events : Notify(e)
             \/ Provider \/ CronExpireLapsed \/ Tick \/ UNCHANGED vars
    BY <2>2
    DEF Abort, SkipIgnored, Notify, HookRenewed, HookApple, HookCancelled, HookExpired,
        Provider, ProviderCharge, ProviderRenew, ProviderEnd, ProviderPeriodOver,
        ProviderDecline, CronExpireLapsed, Tick, observerVars, vars
  <2>3. QED
    BY <2>1, <2>2 DEF Next
<1>3. QED
  BY <1>1, <1>2

\* However many completions, redeliveries, confirmations and grants overlap: as
\* long as no handler was cut short and no update of the plan was dropped, a
\* Lemon Squeezy payment is granted under the plan that was billed.
THEOREM BilledPlanGrantedTheorem == Spec => [](aborts = 0 => BilledPlanGranted)
<1> DEFINE Inv == Typed /\ NoticesOK /\ BackedInv /\ (aborts = 0 => BilledInv)
<1>1. Init => Inv
  <2>1. Init => BackedInv
    BY NoneAssumption DEF Init, BackedInv, WorkerBacked, GrantBacked, Idle, FreeRow, Purchases
  <2>2. Init => BilledInv
    BY NoneAssumption DEF Init, BilledInv, BilledTask, BilledPlanGranted, Idle, FreeRow, Purchases
  <2>3. QED
    BY <2>1, <2>2, InitTyped, NoticesInit
<1>2. Inv /\ Typed' /\ [Next]_vars => Inv'
  BY NoticesStep, BackedInductive, BilledInductive, AbortsStep
<1>3. Inv => (aborts = 0 => BilledPlanGranted)
  BY DEF BilledInv
<1>4. QED
  BY <1>1, <1>2, <1>3, TypeInvariant, PTL DEF Spec

-----------------------------------------------------------------------------
(***************************************************************************)
(* One request at a time.                                                  *)
(***************************************************************************)
OneAtATime == \A v, w \in Workers : v = w

\* What the request at work found in the payments table is still so.
Holds(t, P) ==
  /\ t.pc \in {"provider", "markFailed", "replan", "mark", "fail", "confirm"} =>
       P[t.x].status = "pending"
  /\ t.op = "complete" /\ Method[t.x] \in {"lemonsqueezy", "paypal"} =>
       /\ t.pc = "read" => P[t.x].status = "pending"
       /\ t.pc = "link" => Method[t.x] = "lemonsqueezy"
  /\ t.op \in {"complete", "confirm"} =>
       /\ t.store = StoreOf(t.x)
       /\ t.pc \in {"cancel", "insert"} => P[t.x].status = "completed"
  /\ t.op = "complete" /\ t.pc \in {"mark", "cancel", "insert"} => t.plan = P[t.x].plan
  /\ t.op = "refund" =>
       /\ t.plan = P[t.x].plan /\ Method[t.x] = "stripe"
       /\ t.pc # "refundCancel" => P[t.x].status = "completed"

HoldsInv == \A w \in Workers : Holds(work[w], payments)

LEMMA IdleHolds == \A P : Holds(Idle, P)
  BY DEF Holds, Idle

\* A handler that begins holds what it loaded.
LEMMA BeginHolds ==
  ASSUME Typed, Typed', NEW w \in Workers, Begins(w)
  PROVE  Holds(work'[w], payments')
<1> DEFINE t == work'[w]
<1>1. Opens(t) /\ (t.op # "checkout" => payments' = payments) /\ OpPc(t.op, t.pc)
  BY DEF Begins, Typed, WorkOK, TaskInv
<1> HIDE DEF t
<1>2. t.pc \notin {"markFailed", "mark", "fail", "insert", "replan"}
  BY <1>1 DEF Opens
<1>3. /\ t.pc = "provider" => t.op = "checkout"
      /\ t.pc = "confirm" => t.op = "confirm"
      /\ t.op \in {"complete", "confirm"} => t.pc # "cancel"
  BY <1>1 DEF Opens, OpPc
<1>4. Holds(t, payments')
  BY <1>1, <1>2, <1>3 DEF Opens, Holds
<1>5. QED
  BY <1>4 DEF t

\* A handler that goes on holds what it held, or what it has just found or
\* written.
LEMMA ProceedHolds ==
  ASSUME Typed, Typed', NEW w \in Workers, Proceeds(w), Holds(work[w], payments)
  PROVE  Holds(work'[w], payments')
<1> DEFINE t  == work[w]
           t2 == work'[w]
<1>1. CASE work'[w] = Idle
  BY <1>1, IdleHolds
<1>2. CASE work'[w] # Idle
  <2>1. /\ Carries(t, t2) /\ Branches(t, t2) /\ Writes(t) /\ Holds(t, payments)
        /\ TaskInv(t) /\ OpPc(t.op, t.pc) /\ OpPc(t.op, t2.pc)
    BY <1>2 DEF Proceeds, Typed, WorkOK, TaskInv, Carries
  <2> HIDE DEF t, t2
  <2>2. /\ t2.op = t.op /\ t2.x = t.x /\ t2.store = t.store
        /\ t.pc # "read" => t2.plan = t.plan
    BY <2>1 DEF Carries
  <2>3. t2.pc \in {"provider", "markFailed", "replan", "mark", "fail", "confirm"} =>
          payments'[t.x].status = "pending"
    <3>1. SUFFICES ASSUME t2.pc \in {"provider", "markFailed", "replan", "mark", "fail", "confirm"}
                   PROVE  payments'[t.x].status = "pending"
      OBVIOUS
    <3>2. \/ t.pc = "provider"
          \/ t.pc = "check" /\ t2.pc = "replan"
          \/ t.pc = "read" /\ t2.pc \in {"mark", "fail"}
      <4>1. <<t.pc, t2.pc>> \in Edges
        BY <2>1 DEF Carries
      <4>2. t2.pc \notin {"provider", "confirm"} /\ (t2.pc = "markFailed" => t.pc = "provider")
            /\ (t2.pc = "replan" => t.pc = "check") /\ (t2.pc \in {"mark", "fail"} => t.pc = "read")
        BY <4>1 DEF Edges
      <4>3. QED
        BY <3>1, <4>2
    <3>3. payments' = payments
      BY <2>1, <3>2, SettlingPoints DEF Writes
    <3>4. QED
      BY <2>1, <3>2, <3>3 DEF Holds, Branches
  <2>4. t.op = "complete" /\ Method[t.x] \in {"lemonsqueezy", "paypal"} =>
          /\ t2.pc = "read" => payments'[t.x].status = "pending"
          /\ t2.pc # "link"
    <3>1. SUFFICES ASSUME t.op = "complete", Method[t.x] \in {"lemonsqueezy", "paypal"}
                   PROVE  /\ t2.pc = "read" => payments'[t.x].status = "pending"
                          /\ t2.pc # "link"
      OBVIOUS
    <3>2. t2.pc # "link" /\ (t2.pc = "read" => t.pc \in {"link", "check", "replan"})
      BY <2>1 DEF Carries, Edges
    <3>3. CASE t.pc = "link"
      BY <2>1, <3>1, <3>2, <3>3 DEF Holds, Branches, Carries, Edges
    <3>4. CASE t.pc = "check" /\ t2.pc = "read"
      BY <2>1, <3>2, <3>4, SettlingPoints DEF Branches, Writes
    <3>5. CASE t.pc = "replan"
      BY <2>1, <3>1, <3>2, <3>5 DEF Holds, Writes
    <3>6. QED
      BY <3>2, <3>3, <3>4, <3>5
  <2>5. t.op \in {"complete", "confirm"} /\ t2.pc \in {"cancel", "insert"} =>
          payments'[t.x].status = "completed"
    <3>1. SUFFICES ASSUME t.op \in {"complete", "confirm"}, t2.pc \in {"cancel", "insert"}
                   PROVE  payments'[t.x].status = "completed"
      OBVIOUS
    <3>2. t.pc \in {"mark", "confirm", "cancel"}
      BY <2>1, <3>1 DEF Carries, Edges
    <3>3. CASE t.pc \in {"mark", "confirm"}
      BY <2>1, <3>3, SettlingPoints DEF Writes
    <3>4. CASE t.pc = "cancel"
      BY <2>1, <3>1, <3>4, SettlingPoints DEF Holds, Writes
    <3>5. QED
      BY <3>2, <3>3, <3>4
  <2>6. t.op = "complete" /\ t2.pc \in {"mark", "cancel", "insert"} => t2.plan = payments'[t.x].plan
    <3>1. SUFFICES ASSUME t.op = "complete", t2.pc \in {"mark", "cancel", "insert"}
                   PROVE  t2.plan = payments'[t.x].plan
      OBVIOUS
    <3>2. t.pc \in {"read", "mark", "cancel"}
      BY <2>1, <3>1 DEF Carries, Edges, OpPc
    <3>3. payments'[t.x].plan = payments[t.x].plan
      BY <2>1, <3>2, SettlingPoints DEF Writes
    <3>4. QED
      BY <2>1, <2>2, <3>1, <3>2, <3>3 DEF Holds, Branches, Carries, Edges
  <2>7. t.op = "refund" =>
          /\ t2.plan = payments'[t.x].plan /\ Method[t.x] = "stripe"
          /\ t2.pc # "refundCancel" => payments'[t.x].status = "completed"
    <3>1. SUFFICES ASSUME t.op = "refund"
                   PROVE  /\ t2.plan = payments'[t.x].plan /\ Method[t.x] = "stripe"
                          /\ t2.pc # "refundCancel" => payments'[t.x].status = "completed"
      OBVIOUS
    <3>2. t.pc \in {"lookup", "stripeRefund", "stripeCancel", "refundMark"}
          /\ (t.pc = "refundMark" <=> t2.pc = "refundCancel")
      BY <2>1, <3>1 DEF Carries, Edges, OpPc
    <3>3. payments'[t.x].plan = payments[t.x].plan
          /\ (t.pc # "refundMark" => payments'[t.x].status = payments[t.x].status)
      BY <2>1, <3>2, SettlingPoints DEF Writes
    <3>4. QED
      BY <2>1, <2>2, <3>1, <3>2, <3>3 DEF Holds
  <2>8. t.op \in {"complete", "confirm"} => t.store = StoreOf(t.x)
    BY <2>1 DEF Holds
  <2>9. Holds(t2, payments')
    BY <2>2, <2>3, <2>4, <2>5, <2>6, <2>7, <2>8 DEF Holds
  <2>10. QED
    BY <2>9 DEF t2
<1>3. QED
  BY <1>1, <1>2

LEMMA HoldsStep ==
  ASSUME OneAtATime, Typed, Typed', NoticesOK, HoldsInv, [Next]_vars
  PROVE  HoldsInv'
<1>1. SUFFICES ASSUME NEW w \in Workers
               PROVE  Holds(work'[w], payments')
  BY DEF HoldsInv
<1>2. Holds(work[w], payments)
  BY DEF HoldsInv
<1>3. \/ Begins(w) \/ Proceeds(w) \/ Breaks(w) \/ Aside
  BY EveryMove DEF OneAtATime
<1>4. QED
  BY <1>2, <1>3, BeginHolds, ProceedHolds, IdleHolds DEF Breaks, Aside

\* What one request finds of a payment, no other changes meanwhile.
LEMMA HoldsAlways ==
  ASSUME OneAtATime
  PROVE  Spec => [](Typed /\ NoticesOK /\ HoldsInv)
<1>1. Init => HoldsInv
  BY IdleHolds DEF Init, HoldsInv
<1>2. Typed /\ Typed' /\ NoticesOK /\ HoldsInv /\ [Next]_vars => NoticesOK' /\ HoldsInv'
  BY NoticesStep, HoldsStep
<1>3. QED
  BY <1>1, <1>2, NoticesInit, TypeInvariant, PTL DEF Spec

LEMMA LegalPayment ==
  ASSUME OneAtATime, Typed, NoticesOK, HoldsInv, [Next]_vars
  PROVE  LegalPaymentStep
<1>1. SUFFICES ASSUME NEW p \in Payments, payments'[p].status # payments[p].status
               PROVE  <<payments[p].status, payments'[p].status>> \in
                        {<<"none", "pending">>, <<"pending", "completed">>,
                         <<"pending", "failed">>, <<"completed", "refunded">>}
  BY DEF LegalPaymentStep
<1>2. ASSUME NEW w \in Workers, Begins(w)
      PROVE  payments[p].status = "none" /\ payments'[p].status = "pending"
  BY <1>1, <1>2 DEF Begins, Opens
<1>3. ASSUME NEW w \in Workers, Proceeds(w)
      PROVE  <<payments[p].status, payments'[p].status>> \in
               {<<"pending", "completed">>, <<"pending", "failed">>, <<"completed", "refunded">>}
  <2> DEFINE t == work[w]
  <2>1. Writes(t) /\ Holds(t, payments) /\ TaskInv(t)
    BY <1>3 DEF Proceeds, HoldsInv, Typed, WorkOK
  <2> HIDE DEF t
  <2>2. p = t.x /\ t.pc \in {"markFailed", "mark", "fail", "confirm", "refundMark"}
    BY <1>1, <2>1, SettlingPoints DEF Writes
  <2>3. t.pc = "refundMark" => payments[p].status = "completed"
    BY <2>1, <2>2 DEF Holds, TaskInv, OpPc
  <2>4. t.pc # "refundMark" => payments[p].status = "pending"
    BY <2>1, <2>2 DEF Holds
  <2>5. QED
    BY <2>1, <2>2, <2>3, <2>4, SettlingPoints DEF Writes
<1>4. QED
  BY <1>1, <1>2, <1>3, EveryMove DEF Breaks, Aside

\* While requests come one at a time, a payment leaves pending once, and only a
\* completed one is refunded, whatever is redelivered, confirmed or cut short.
THEOREM PaymentsSettleOnce ==
  ASSUME OneAtATime
  PROVE  Spec => PaymentSettlesOnce
<1>1. Typed /\ NoticesOK /\ HoldsInv /\ [Next]_vars => [LegalPaymentStep]_vars
  BY LegalPayment
<1>2. QED
  BY <1>1, HoldsAlways, PTL DEF Spec, PaymentSettlesOnce

\* The statement a handler executes at each point that touches the rows.
LEMMA ActionAt ==
  ASSUME NEW w \in Workers, Continue(w)
  PROVE  /\ work[w].pc = "cancel" => GrantCancelPrior(w)
         /\ work[w].pc = "insert" => GrantInsert(w)
         /\ work[w].pc = "stamp" => StampByReference(w)
         /\ work[w].pc = "lookup" => RefundLookup(w)
         /\ work[w].pc = "refundMark" => RefundMark(w)
         /\ work[w].pc = "refundCancel" => RefundCancelSub(w)
  BY DEF Continue, CheckoutOpened, CheckoutRefused, CheckoutMarkFailed, LinkCustomer,
         CheckPending, Replan, ReadPayment, ReadPaymentIn, MarkCompleted, MarkFailedByRef,
         AdminConfirmMark, GrantCancelPrior, GrantInsert, StampByReference, StampByUser,
         ExtendSettled, RefundLookup, RefundCharge, RefundNoCharge, RefundCancelAtStripe,
         RefundMark, RefundCancelSub, UserCancelCall

\* The same for a handler that goes on, cut short in no statement.
LEMMA ProceedsAt ==
  ASSUME NEW w \in Workers, Proceeds(w), work[w].pc \notin {"link", "replan"}
  PROVE  Continue(w)
  BY DEF Proceeds, SkipIgnored

\* A grant has not been made before, its row follows all others, and a provider
\* other than Stripe stamps only the row of its own grant.
RowTask(t, T) ==
  /\ t.op \in {"complete", "confirm"} /\ t.pc \in {"cancel", "insert"} =>
       \A i \in DOMAIN T : T[i].src # t.x
  /\ t.pc = "insert" => t.horizon = Len(T)
  /\ t.pc = "stampUser" \/ (t.pc = "stamp" /\ Method[t.x] # "stripe") =>
       \A i \in ActiveOf(T, t.user) : T[i].src = t.x

\* An id that is not Stripe's is on the row of its own purchase.
OwnIds ==
  \A i \in DOMAIN subs : subs[i].txn # None =>
    subs[i].txn = subs[i].src \/ Method[subs[i].txn] = "stripe"

RowsInv ==
  /\ GrantedOnce /\ OwnIds
  /\ \A j \in DOMAIN subs : subs[j].horizon = j - 1
  /\ \A w \in Workers : RowTask(work[w], subs)

LEMMA IdleRowTask == \A T : RowTask(Idle, T)
  BY DEF RowTask, Idle

LEMMA Indices ==
  ASSUME Typed, [Next]_vars
  PROVE  /\ DOMAIN subs = 1 .. Len(subs) /\ Len(subs) \in Nat
         /\ DOMAIN subs' = 1 .. Len(subs') /\ Len(subs') \in Nat
<1>1. subs \in Seq(SubRow)
  BY DEF Typed, TypeOK
<1>2. subs' \in Seq(SubRow)
  BY TableStep, StampStep, InsertStep DEF Rewrites
<1>3. QED
  BY <1>1, <1>2

\* While no row is added, what a task says of the rows stays true of them.
LEMMA RowTaskKept ==
  ASSUME Typed, [Next]_vars, Rewrites(subs, subs'), NEW t, RowTask(t, subs)
  PROVE  RowTask(t, subs')
<1>1. /\ DOMAIN subs = 1 .. Len(subs) /\ DOMAIN subs' = 1 .. Len(subs) /\ Len(subs') = Len(subs)
      /\ \A i \in 1 .. Len(subs) :
           /\ subs'[i].src = subs[i].src /\ subs'[i].user = subs[i].user
           /\ subs'[i].status = "active" => subs[i].status = "active"
  <2>1. DOMAIN subs = 1 .. Len(subs) /\ DOMAIN subs' = 1 .. Len(subs') /\ Len(subs') = Len(subs)
    BY Indices DEF Rewrites
  <2>2. ASSUME NEW i \in 1 .. Len(subs)
        PROVE  /\ subs'[i].src = subs[i].src /\ subs'[i].user = subs[i].user
               /\ subs'[i].status = "active" => subs[i].status = "active"
    BY <2>2 DEF Rewrites
  <2>3. QED
    BY <2>1, <2>2
<1>2. \A u : \A i \in ActiveOf(subs', u) : i \in ActiveOf(subs, u) /\ subs'[i].src = subs[i].src
  BY <1>1 DEF ActiveOf
<1>3. t.pc = "stampUser" \/ (t.pc = "stamp" /\ Method[t.x] # "stripe") =>
        \A i \in ActiveOf(subs', t.user) : subs'[i].src = t.x
  BY <1>2 DEF RowTask
<1>4. t.op \in {"complete", "confirm"} /\ t.pc \in {"cancel", "insert"} =>
        \A i \in DOMAIN subs' : subs'[i].src # t.x
  <2>1. ASSUME t.op \in {"complete", "confirm"}, t.pc \in {"cancel", "insert"},
               NEW i \in 1 .. Len(subs)
        PROVE  subs'[i].src # t.x
    <3>1. subs'[i].src = subs[i].src /\ i \in DOMAIN subs
      BY <1>1
    <3>2. QED
      BY <2>1, <3>1 DEF RowTask
  <2>2. QED
    BY <1>1, <2>1
<1>5. t.pc = "insert" => t.horizon = Len(subs')
  BY <1>1 DEF RowTask
<1>6. QED
  BY <1>3, <1>4, <1>5 DEF RowTask

\* The inserting handler was at its second statement and is now past it.
LEMMA InsertsOnce ==
  ASSUME Typed, NEW w \in Workers, GrantInsert(w)
  PROVE  work[w].pc = "insert" /\ work'[w].pc # "insert"
<1>1. work \in [Workers -> Task] /\ work[w] \in Task
  BY DEF Typed, TypeOK
<1>2. work[w].pc = "insert" /\ (Done(w) \/ Goto(w, "stamp") \/ Goto(w, "stampUser"))
  BY DEF GrantInsert, AfterGrant
<1>3. QED
  BY <1>1, <1>2 DEF Done, Goto, Idle, Task

LEMMA RowTaskStep ==
  ASSUME OneAtATime, Typed, Typed', NoticesOK, HoldsInv, BackedInv, SupersedeInv, RowsInv,
         [Next]_vars, NEW w \in Workers
  PROVE  RowTask(work'[w], subs')
<1>1. RowTask(work[w], subs) /\ Holds(work[w], payments) /\ TaskInv(work[w])
  BY DEF RowsInv, HoldsInv, Typed, WorkOK
<1>2. Rewrites(subs, subs') \/ GrantInsert(w)
  BY TableStep, StampStep DEF OneAtATime
<1>3. CASE work'[w] = Idle
  BY <1>3, IdleRowTask
<1>4. CASE work'[w] = work[w]
  BY <1>1, <1>2, <1>4, InsertsOnce, RowTaskKept
<1>5. CASE Begins(w)
  <2>1. /\ work'[w].pc \notin {"insert", "stamp", "stampUser"}
        /\ work'[w].op \in {"complete", "confirm"} => work'[w].pc # "cancel"
    BY <1>5 DEF Begins, Opens
  <2>2. QED
    BY <2>1 DEF RowTask
<1>6. CASE Proceeds(w) /\ work'[w] # Idle
  <2> DEFINE t  == work[w]
             t2 == work'[w]
  <2>1. /\ Carries(t, t2) /\ Branches(t, t2) /\ OpPc(t.op, t.pc) /\ OpPc(t.op, t2.pc)
        /\ t2.op = t.op /\ t2.x = t.x /\ t2.user = t.user /\ <<t.pc, t2.pc>> \in Edges
    BY <1>1, <1>6 DEF Proceeds, Typed, WorkOK, TaskInv, Carries
  <2>2. t.op \in {"complete", "confirm"} /\ t2.pc \in {"cancel", "insert"} =>
          \A i \in DOMAIN subs' : subs'[i].src # t.x
    <3>1. SUFFICES ASSUME t.op \in {"complete", "confirm"}, t2.pc \in {"cancel", "insert"},
                          NEW i \in DOMAIN subs'
                   PROVE  subs'[i].src # t.x
      OBVIOUS
    <3>2. t.pc \in {"mark", "confirm", "cancel"} /\ t.x \in Payments
      BY <1>1, <2>1, <3>1 DEF Edges, TaskInv, About, OnPayment
    <3>3. i \in 1 .. Len(subs) /\ i \in DOMAIN subs /\ subs'[i].src = subs[i].src
      <4>1. ~GrantInsert(w)
        BY <3>2 DEF GrantInsert
      <4>2. QED
        BY <1>2, <3>1, <4>1, Indices DEF Rewrites
    <3>4. CASE t.pc = "cancel"
      BY <1>1, <3>1, <3>3, <3>4 DEF RowTask
    <3>5. CASE t.pc \in {"mark", "confirm"}
      <4>1. payments[t.x].status = "pending"
        BY <1>1, <3>5 DEF Holds
      <4>2. QED
        BY <3>2, <3>3, <4>1 DEF BackedInv, GrantBacked
    <3>6. QED
      BY <3>2, <3>4, <3>5
  <2>3. t2.pc = "insert" => t2.horizon = Len(subs')
    <3>1. SUFFICES ASSUME t2.pc = "insert" PROVE t2.horizon = Len(subs')
      OBVIOUS
    <3>2. GrantCancelPrior(w)
      <4>1. t.pc = "cancel"
        BY <2>1, <3>1 DEF Edges
      <4>2. QED
        BY <1>6, <4>1, ProceedsAt, ActionAt
    <3>3. t2.horizon = Len(subs)
      BY <3>2 DEF GrantCancelPrior, Typed, TypeOK, Task
    <3>4. Len(subs') = Len(subs)
      BY <3>2, CancelUserRewrites DEF GrantCancelPrior, Rewrites, Typed, TypeOK
    <3>5. QED
      BY <3>3, <3>4
  <2>4. t2.pc = "stampUser" \/ (t2.pc = "stamp" /\ Method[t.x] # "stripe") =>
          \A i \in ActiveOf(subs', t.user) : subs'[i].src = t.x
    <3>1. SUFFICES ASSUME t2.pc = "stampUser" \/ (t2.pc = "stamp" /\ Method[t.x] # "stripe"),
                          NEW i \in ActiveOf(subs', t.user)
                   PROVE  subs'[i].src = t.x
      OBVIOUS
    <3>2. t.pc = "insert"
      <4>1. t.pc = "insert" \/ (t.pc = "read" /\ t2.pc = "stamp")
        BY <2>1, <3>1 DEF Edges
      <4>2. CASE t.pc = "read" /\ t2.pc = "stamp"
        <5>1. /\ t.op = "complete" /\ Recurring(t.x) /\ payments[t.x].status # "pending"
              /\ t.x \in Payments
          BY <1>1, <2>1, <4>2 DEF Branches, TaskInv, About, OnPayment
        <5>2. Method[t.x] # "apple_iap"
          BY <5>1, PurchaseAssumption DEF Purchases
        <5>3. Method[t.x] \in {"lemonsqueezy", "paypal"}
          BY <3>1, <4>2, <5>1, <5>2 DEF Recurring
        <5>4. QED
          BY <1>1, <4>2, <5>1, <5>3 DEF Holds
      <4>3. QED
        BY <4>1, <4>2
    <3>3. GrantInsert(w)
      BY <1>6, <3>2, ProceedsAt, ActionAt
    <3>4. i \in 1 .. Len(subs') /\ subs'[i].user = t.user /\ subs'[i].status = "active"
      BY <3>1, Indices DEF ActiveOf
    <3>5. CASE i \in 1 .. Len(subs)
      <4>1. subs'[i] = subs[i]
        BY <3>3, <3>5, InsertStep
      <4>2. Superseded(subs, t.user, t.horizon) /\ t.horizon = Len(subs)
        BY <1>1, <3>2 DEF SupersedeInv, RowTask
      <4>3. Superseded(subs, t.user, Len(subs))
        BY <4>2
      <4> HIDE DEF t
      <4>4. QED
        BY <3>4, <3>5, <4>1, <4>3 DEF Superseded
    <3>6. CASE i = Len(subs) + 1
      <4>1. subs'[i] = GrantedRow(work[w])
        BY <3>3, <3>6, InsertStep
      <4>2. QED
        BY <4>1 DEF GrantedRow
    <3>7. QED
      BY <3>3, <3>4, <3>5, <3>6, InsertStep, Indices
  <2>5. QED
    BY <2>1, <2>2, <2>3, <2>4 DEF RowTask
<1>7. QED
  BY <1>3, <1>4, <1>5, <1>6, EveryMove DEF OneAtATime, Breaks, Aside

LEMMA RowsStep ==
  ASSUME OneAtATime, Typed, Typed', NoticesOK, HoldsInv, BackedInv, SupersedeInv, RowsInv,
         [Next]_vars
  PROVE  RowsInv'
<1>1. /\ DOMAIN subs = 1 .. Len(subs) /\ Len(subs) \in Nat
      /\ DOMAIN subs' = 1 .. Len(subs') /\ Len(subs') \in Nat
  BY Indices
<1>2. ASSUME NEW w \in Workers, GrantInsert(w)
      PROVE  /\ work[w].pc = "insert" /\ work[w].horizon = Len(subs)
             /\ work[w].x \in Payments => \A i \in 1 .. Len(subs) : subs[i].src # work[w].x
             /\ GrantedRow(work[w]).horizon = work[w].horizon /\ GrantedRow(work[w]).src = work[w].x
             /\ GrantedRow(work[w]).txn = None
  <2>1. work[w].pc = "insert" /\ RowTask(work[w], subs) /\ TaskInv(work[w])
    BY <1>2 DEF GrantInsert, RowsInv, Typed, WorkOK
  <2>2. work[w].x \in Payments => work[w].op \in {"complete", "confirm"}
    BY <2>1, PurchaseAssumption, NoneAssumption DEF TaskInv, OpPc, About, OnPayment, Purchases
  <2>3. QED
    BY <1>1, <2>1, <2>2 DEF RowTask, GrantedRow
<1>3. \A j \in DOMAIN subs' : subs'[j].horizon = j - 1
  <2>1. TAKE j \in DOMAIN subs'
  <2>2. CASE j \in 1 .. Len(subs) /\ subs'[j].horizon = subs[j].horizon
    BY <1>1, <2>2 DEF RowsInv
  <2>3. ASSUME NEW w \in Workers, GrantInsert(w), j = Len(subs) + 1, subs'[j] = GrantedRow(work[w])
        PROVE  subs'[j].horizon = j - 1
    BY <1>1, <1>2, <2>3
  <2>4. QED
    BY <1>1, <2>2, <2>3, InsertedRow
<1>4. GrantedOnce'
  <2>1. CASE Rewrites(subs, subs')
    <3>1. DOMAIN subs' = DOMAIN subs /\ \A i \in DOMAIN subs : subs'[i].src = subs[i].src
      BY <1>1, <2>1 DEF Rewrites
    <3>2. QED
      BY <3>1 DEF RowsInv, GrantedOnce
  <2>2. ASSUME NEW w \in Workers, GrantInsert(w)
        PROVE  GrantedOnce'
    <3>1. /\ DOMAIN subs' = 1 .. Len(subs) + 1
          /\ \A i \in 1 .. Len(subs) : subs'[i] = subs[i]
          /\ subs'[Len(subs) + 1].src = work[w].x
      BY <1>1, <1>2, <2>2, InsertStep
    <3>2. QED
      BY <1>1, <1>2, <2>2, <3>1 DEF RowsInv, GrantedOnce
  <2>3. QED
    BY <2>1, <2>2, TableStep, StampStep
<1>5. OwnIds'
  <2>1. CASE Rewrites(subs, subs') /\ KeepsRefs(subs, subs')
    BY <1>1, <2>1 DEF Rewrites, KeepsRefs, RowsInv, OwnIds
  <2>2. ASSUME NEW w \in Workers, Stamps(w)
        PROVE  OwnIds'
    <3> DEFINE x == work[w].x
    <3>1. /\ Rewrites(subs, subs')
          /\ StampsOnly(subs, subs', ActiveOf(subs, Owner[x]), StoreOf(x), x)
      BY <2>2, StampStep
    <3>2. \A i \in ActiveOf(subs, Owner[x]) : Method[x] = "stripe" \/ subs[i].src = x
      <4>1. /\ TaskInv(work[w]) /\ RowTask(work[w], subs)
            /\ work[w].pc \in {"stamp", "stampUser"}
        BY <2>2 DEF Typed, WorkOK, RowsInv, Stamps, StampByReference, StampByUser
      <4>2. work[w].user = Owner[x]
        BY <4>1 DEF TaskInv, OpPc
      <4>3. QED
        BY <4>1, <4>2 DEF RowTask
    <3> HIDE DEF x
    <3>3. QED
      BY <1>1, <3>1, <3>2 DEF Rewrites, StampsOnly, RowsInv, OwnIds
  <2>3. ASSUME NEW w \in Workers, GrantInsert(w)
        PROVE  OwnIds'
    <3>1. /\ DOMAIN subs' = 1 .. Len(subs) + 1
          /\ \A i \in 1 .. Len(subs) : subs'[i] = subs[i]
          /\ subs'[Len(subs) + 1].txn = None
      BY <1>1, <1>2, <2>3, InsertStep
    <3>2. QED
      BY <1>1, <3>1 DEF RowsInv, OwnIds
  <2>4. QED
    BY <2>1, <2>2, <2>3, TableStep
<1>6. QED
  BY <1>3, <1>4, <1>5, RowTaskStep DEF RowsInv

\* The invariants one request at a time relies on.
LEMMA RowsAlways ==
  ASSUME OneAtATime
  PROVE  Spec => [](Typed /\ NoticesOK /\ HoldsInv /\ BackedInv /\ SupersedeInv /\ RowsInv)
<1>1. Init => BackedInv
  BY NoneAssumption DEF Init, BackedInv, WorkerBacked, GrantBacked, Idle, FreeRow, Purchases
<1>2. Init => SupersedeInv
  BY DEF Init, SupersedeInv, GrantSupersedes, Idle, FreeRow
<1>3. Init => RowsInv
  BY NoneAssumption, IdleRowTask DEF Init, RowsInv, GrantedOnce, OwnIds, FreeRow, Purchases
<1>4. /\ Typed /\ NoticesOK /\ HoldsInv /\ BackedInv /\ SupersedeInv /\ RowsInv
      /\ Typed' /\ [Next]_vars
      => BackedInv' /\ SupersedeInv' /\ RowsInv'
  BY BackedInductive, SupersedeInductive, RowsStep
<1>5. QED
  BY <1>1, <1>2, <1>3, <1>4, HoldsAlways, PTL DEF Spec

\* While requests come one at a time, a payment is granted once, however often
\* its webhook is redelivered and whoever else confirms it.
THEOREM GrantedOnceTheorem ==
  ASSUME OneAtATime
  PROVE  Spec => []GrantedOnce
<1>1. RowsInv => GrantedOnce
  BY DEF RowsInv
<1>2. QED
  BY <1>1, RowsAlways, PTL

\* While requests come one at a time, every id of a provider other than Stripe is
\* on the row of the purchase it belongs to: with no purchase made by Stripe, on
\* every row, whatever is redelivered, renewed, redeemed again or cut short.
THEOREM StampMatchesGrantTheorem ==
  ASSUME OneAtATime, \A x \in Purchases : Method[x] # "stripe"
  PROVE  Spec => []StampMatchesGrant
<1>1. Typed /\ RowsInv => StampMatchesGrant
  <2>1. SUFFICES ASSUME Typed, RowsInv, NEW i \in DOMAIN subs, subs[i].txn # None
                 PROVE  subs[i].txn = subs[i].src
    BY DEF StampMatchesGrant
  <2>2. subs[i].txn \in Purchases
    <3>1. subs[i] \in SubRow
      BY <2>1 DEF Typed, TypeOK
    <3>2. QED
      BY <2>1, <3>1 DEF SubRow
  <2>3. QED
    BY <2>1, <2>2 DEF RowsInv, OwnIds
<1>2. QED
  BY <1>1, RowsAlways, PTL

-----------------------------------------------------------------------------
(***************************************************************************)
(* A refund ends access.                                                   *)
(***************************************************************************)
ActiveFor(x) == {i \in DOMAIN subs : subs[i].src = x /\ subs[i].status = "active"}

\* The row can be found by the refund of its payment, and is stamped or about
\* to be.
Findable(i) ==
  /\ subs[i].store = "stripe" /\ subs[i].plan = payments[subs[i].src].plan
  /\ subs[i].user = Owner[subs[i].src]
  /\ \/ subs[i].txn # None
     \/ \E w \in Workers : work[w].pc = "stamp" /\ work[w].x = subs[i].src

\* A refund past its lookup knows the id on the active row of its payment.
RefundTask(w) ==
  work[w].op = "refund" /\ work[w].pc # "lookup" /\ work[w].x \notin confirmed =>
    \A i \in ActiveFor(work[w].x) :
      subs[i].store = "stripe" /\ subs[i].txn = work[w].txn /\ work[w].txn # None

RowsFindable ==
  \A p \in Payments \ confirmed : Method[p] = "stripe" => \A i \in ActiveFor(p) : Findable(i)

Ending(p) ==
  \/ NoRowActive(p)
  \/ \E w \in Workers : work[w].pc = "refundCancel" /\ work[w].x = p

RefundedEnd ==
  \A p \in Payments \ confirmed : payments[p].status = "refunded" => Ending(p)

RefundInv == RowsFindable /\ (\A w \in Workers : RefundTask(w)) /\ RefundedEnd

SerialInv == Typed /\ NoticesOK /\ HoldsInv /\ BackedInv /\ SupersedeInv /\ RowsInv

\* Of the rows of a user only the newest can be active.
LEMMA OnlyNewest ==
  ASSUME SerialInv, NEW i \in DOMAIN subs, subs[i].status = "active",
         NEW j \in DOMAIN subs, subs[j].user = subs[i].user
  PROVE  j <= i
<1>1. DOMAIN subs = 1 .. Len(subs) /\ Len(subs) \in Nat
  BY DEF SerialInv, Typed, TypeOK
<1>2. SUFFICES ASSUME i < j PROVE FALSE
  BY <1>1
<1>3. subs[j].horizon = j - 1 /\ i \in 1 .. subs[j].horizon
  BY <1>1, <1>2 DEF SerialInv, RowsInv
<1>4. QED
  BY <1>3 DEF SerialInv, SupersedeInv, GrantSupersedes

\* An active row of a payment was there before, unless it was just inserted.
LEMMA ActiveBefore ==
  ASSUME Typed, [Next]_vars, NEW x, NEW i \in ActiveFor(x)',
         ~ \E w \in Workers : GrantInsert(w) /\ i = Len(subs) + 1 /\ subs'[i] = GrantedRow(work[w])
  PROVE  i \in ActiveFor(x) /\ subs'[i].plan = subs[i].plan /\ subs'[i].user = subs[i].user
                            /\ subs'[i].src = subs[i].src
<1>1. i \in DOMAIN subs' /\ subs'[i].src = x /\ subs'[i].status = "active"
  BY DEF ActiveFor
<1>2. QED
  BY <1>1, InsertedRow, Indices DEF ActiveFor

\* The plan of a payment that is settled stays as it is.
LEMMA SettledPlan ==
  ASSUME OneAtATime, SerialInv, [Next]_vars, NEW p \in Payments, payments[p].status \in Settled
  PROVE  payments'[p].plan = payments[p].plan
<1> USE DEF SerialInv
<1>1. ASSUME NEW w \in Workers, Begins(w)
      PROVE  payments'[p] = payments[p]
  BY <1>1 DEF Begins, Opens, Settled
<1>2. ASSUME NEW w \in Workers, Proceeds(w)
      PROVE  payments'[p].plan = payments[p].plan
  <2>1. Writes(work[w]) /\ Holds(work[w], payments)
    BY <1>2 DEF Proceeds, HoldsInv
  <2>2. work[w].pc = "replan" => work[w].x # p
    BY <2>1 DEF Holds, Settled
  <2>3. QED
    BY <2>1, <2>2, SettlingPoints DEF Writes
<1>3. QED
  BY <1>1, <1>2, EveryMove DEF Breaks, Aside

\* A row that was just granted for a reported Stripe payment is findable.
LEMMA GrantFindable ==
  ASSUME OneAtATime, SerialInv, [Next]_vars, NEW w \in Workers, GrantInsert(w),
         work[w].x \in Payments \ confirmed', Method[work[w].x] = "stripe",
         NEW i, subs'[i] = GrantedRow(work[w])
  PROVE  Findable(i)'
<1> DEFINE t == work[w]
<1>1. /\ TaskInv(t) /\ Holds(t, payments) /\ t.pc = "insert" /\ t \in Task
      /\ payments' = payments /\ work \in [Workers -> Task]
      /\ t.op = "confirm" => t.x \in confirmed
  BY DEF SerialInv, Typed, TypeOK, WorkOK, HoldsInv, GrantInsert, BackedInv, WorkerBacked
<1>2. t.op = "complete"
  <2>1. t.op # "confirm"
    BY <1>1, LedgerStep DEF SerialInv, LedgerGrows
  <2>2. QED
    BY <1>1, <2>1, PurchaseAssumption, NoneAssumption
    DEF TaskInv, OpPc, About, OnPayment, Purchases
<1>3. t.store = "stripe" /\ t.plan = payments[t.x].plan /\ t.user = Owner[t.x]
  BY <1>1, <1>2 DEF Holds, TaskInv, StoreOf, StoreTypeForMethod
<1>4. work'[w].pc = "stamp" /\ work'[w].x = t.x
  <2>1. AfterGrant(t) = "stamp"
    BY <1>1, <1>2, NoneAssumption DEF AfterGrant, StampRef, Recurring, Purchases
  <2>2. Goto(w, "stamp")
    BY <2>1 DEF GrantInsert
  <2>3. QED
    BY <1>1, <2>2 DEF Goto, Task
<1>5. /\ subs'[i].store = t.store /\ subs'[i].plan = t.plan /\ subs'[i].user = t.user
      /\ subs'[i].src = t.x
  BY DEF GrantedRow
<1> HIDE DEF t
<1>6. QED
  BY <1>1, <1>3, <1>4, <1>5 DEF Findable

\* A findable row stays so: only Stripe stamps it again.
LEMMA FindableStays ==
  ASSUME OneAtATime, SerialInv, [Next]_vars, aborts' = 0, NEW p \in Payments, Method[p] = "stripe",
         NEW i \in ActiveFor(p), Findable(i),
         subs'[i].plan = subs[i].plan, subs'[i].user = subs[i].user, subs'[i].src = subs[i].src
  PROVE  Findable(i)'
<1>1. /\ i \in DOMAIN subs /\ DOMAIN subs = 1 .. Len(subs) /\ subs[i].src = p
      /\ subs[i].status = "active" /\ subs[i].user = Owner[p] /\ Typed /\ NoticesOK
  BY DEF SerialInv, Typed, TypeOK, ActiveFor, Findable
<1>2. payments'[p].plan = payments[p].plan
  BY <1>1, SettledPlan DEF SerialInv, BackedInv, GrantBacked, Settled
<1>3. CASE \E w \in Workers : Stamps(w)
  <2>1. PICK w \in Workers : Stamps(w)
    BY <1>3
  <2> DEFINE x == work[w].x
  <2>2. /\ StampsOnly(subs, subs', ActiveOf(subs, Owner[x]), StoreOf(x), x)
        /\ x \in Purchases /\ x # None
    BY <1>1, <2>1, StampStep, NoneAssumption
  <2>3. i \in ActiveOf(subs, Owner[x]) => Method[x] = "stripe"
    <3>1. /\ TaskInv(work[w]) /\ RowTask(work[w], subs)
          /\ work[w].pc \in {"stamp", "stampUser"}
      BY <2>1 DEF SerialInv, Typed, WorkOK, RowsInv, Stamps, StampByReference, StampByUser
    <3>2. work[w].user = Owner[x]
      BY <3>1 DEF TaskInv, OpPc
    <3>3. QED
      BY <1>1, <3>1, <3>2 DEF RowTask
  <2>4. /\ subs'[i].store = "stripe"
        /\ subs'[i].txn # None \/ subs'[i].txn = subs[i].txn
    BY <1>1, <2>2, <2>3 DEF StampsOnly, StoreOf, StoreTypeForMethod, Findable
  <2>5. CASE subs[i].txn # None
    BY <1>1, <1>2, <2>4, <2>5 DEF Findable
  <2>6. CASE subs[i].txn = None
    <3>1. work[w].pc = "stamp" /\ x = p
      BY <1>1, <2>6 DEF Findable, OneAtATime
    <3>2. StampByReference(w)
      BY <2>1, <3>1 DEF Stamps, StampByUser
    <3>3. i \in Newest(ActiveOf(subs, Owner[p]))
      <4>1. i \in ActiveOf(subs, Owner[p])
        BY <1>1 DEF ActiveOf
      <4>2. ASSUME NEW j \in ActiveOf(subs, Owner[p])
            PROVE  j <= i
        <5>1. j \in DOMAIN subs /\ subs[j].user = subs[i].user
          BY <1>1 DEF ActiveOf
        <5>2. QED
          BY <1>1, <5>1, OnlyNewest
      <4>3. QED
        BY <4>1, <4>2 DEF Newest
    <3>4. subs'[i] = [subs[i] EXCEPT !.store = StoreOf(p), !.txn = p]
      BY <1>1, <3>1, <3>2, <3>3
      DEF StampByReference, StampStoreRefByReference, StampRows, StoreOf
    <3>5. subs'[i].txn = p
      <4>1. subs[i] \in SubRow
        BY <1>1 DEF Typed, TypeOK
      <4>2. QED
        BY <3>4, <4>1 DEF SubRow
    <3>6. QED
      BY <1>1, <1>2, <2>2, <2>4, <3>1, <3>5 DEF Findable
  <2>7. QED
    BY <2>5, <2>6
<1>4. CASE ~ \E w \in Workers : Stamps(w)
  <2>1. subs'[i].store = subs[i].store /\ subs'[i].txn = subs[i].txn
    BY <1>1, <1>4, TableStep, InsertStep DEF KeepsRefs
  <2>2. CASE subs[i].txn # None
    BY <1>1, <1>2, <2>1, <2>2 DEF Findable
  <2>3. CASE subs[i].txn = None
    <3>1. PICK w \in Workers : work[w].pc = "stamp" /\ work[w].x = p
      BY <1>1, <2>3 DEF Findable
    <3>2. ~Begins(w) /\ ~Breaks(w)
      <4>1. ~Breaks(w)
        BY DEF Breaks
      <4>2. work[w].pc # "idle"
        BY <3>1
      <4>3. Idle.pc = "idle"
        BY DEF Idle
      <4>4. QED
        BY <4>1, <4>2, <4>3 DEF Begins
    <3>3. ~Proceeds(w)
      <4>1. Proceeds(w) => StampByReference(w)
        BY <3>1, ProceedsAt, ActionAt
      <4>2. QED
        BY <1>4, <4>1 DEF Stamps
    <3>4. work' = work
      BY <1>1, <3>2, <3>3, EveryMove DEF OneAtATime, Aside
    <3>5. QED
      BY <1>1, <1>2, <2>1, <3>1, <3>4 DEF Findable
  <2>4. QED
    BY <2>2, <2>3
<1>5. QED
  BY <1>3, <1>4

LEMMA RowsFindableStep ==
  ASSUME OneAtATime, SerialInv, RefundInv, [Next]_vars, aborts' = 0
  PROVE  RowsFindable'
<1>1. SUFFICES ASSUME NEW p \in Payments \ confirmed', Method[p] = "stripe", NEW i \in ActiveFor(p)'
               PROVE  Findable(i)'
  BY DEF RowsFindable
<1>2. p \notin confirmed
  BY LedgerStep DEF LedgerGrows, SerialInv
<1>3. CASE \E w \in Workers : GrantInsert(w) /\ i = Len(subs) + 1 /\ subs'[i] = GrantedRow(work[w])
  <2>1. PICK w \in Workers : GrantInsert(w) /\ subs'[i] = GrantedRow(work[w])
    BY <1>3
  <2>2. work[w].x = p
    BY <1>1, <2>1 DEF ActiveFor, GrantedRow
  <2>3. QED
    BY <1>1, <2>1, <2>2, GrantFindable
<1>4. CASE ~ \E w \in Workers : GrantInsert(w) /\ i = Len(subs) + 1 /\ subs'[i] = GrantedRow(work[w])
  <2>1. i \in ActiveFor(p) /\ subs'[i].plan = subs[i].plan /\ subs'[i].user = subs[i].user
                           /\ subs'[i].src = subs[i].src
    BY <1>4, ActiveBefore DEF SerialInv
  <2>2. Findable(i)
    BY <1>1, <1>2, <2>1 DEF RefundInv, RowsFindable
  <2>3. QED
    BY <1>1, <2>1, <2>2, FindableStays
<1>5. QED
  BY <1>3, <1>4

\* The lookup finds the id on the active row, which nothing moves until the
\* refund is over.
LEMMA RefundTaskStep ==
  ASSUME OneAtATime, SerialInv, RefundInv, [Next]_vars, aborts' = 0, NEW w \in Workers
  PROVE  RefundTask(w)'
<1> DEFINE t == work[w]
<1>1. SUFFICES ASSUME work'[w].op = "refund", work'[w].pc # "lookup",
                      work'[w].x \notin confirmed', NEW x, x = work'[w].x,
                      NEW i \in ActiveFor(x)'
               PROVE  /\ subs'[i].store = "stripe" /\ subs'[i].txn = work'[w].txn
                      /\ work'[w].txn # None
  BY DEF RefundTask, ActiveFor
<1>2. /\ TaskInv(t) /\ Holds(t, payments) /\ t \in Task
      /\ work \in [Workers -> Task] /\ Typed /\ NoticesOK
  BY DEF SerialInv, Typed, TypeOK, WorkOK, HoldsInv
<1>3. \/ work'[w] = t
      \/ Proceeds(w) /\ Carries(t, work'[w])
  <2>1. ~Begins(w)
    BY <1>1 DEF Begins, Opens
  <2>2. work'[w] # Idle
    BY <1>1 DEF Idle
  <2>3. QED
    BY <1>2, <2>1, <2>2, EveryMove DEF OneAtATime, Breaks, Aside, Proceeds
<1>4. /\ t.op = "refund" /\ x = t.x /\ t.x \in Payments
      /\ t.pc # "lookup" => work'[w].txn = t.txn
  <2>1. t.op = "refund" /\ x = t.x /\ (t.pc # "lookup" => work'[w].txn = t.txn)
    BY <1>1, <1>3 DEF Carries
  <2>2. QED
    BY <1>2, <2>1 DEF TaskInv, About, OnPayment
<1>5. x \notin confirmed
  BY <1>1, <1>2, <1>4, LedgerStep DEF LedgerGrows
<1>6. t.pc \notin {"insert", "stamp", "stampUser"}
  BY <1>2, <1>4 DEF TaskInv, OpPc
<1>7. \A v \in Workers : ~GrantInsert(v) /\ ~Stamps(v)
  BY <1>6 DEF OneAtATime, GrantInsert, Stamps, StampByReference, StampByUser
<1>8. i \in ActiveFor(x)
  BY <1>1, <1>2, <1>7, ActiveBefore
<1>9. subs'[i].store = subs[i].store /\ subs'[i].txn = subs[i].txn
  <2>1. Rewrites(subs, subs') /\ KeepsRefs(subs, subs')
    BY <1>2, <1>7, TableStep
  <2>2. QED
    BY <1>8, <2>1 DEF KeepsRefs, ActiveFor
<1>10. CASE t.pc # "lookup"
  BY <1>4, <1>5, <1>8, <1>9, <1>10 DEF RefundInv, RefundTask
<1>11. CASE t.pc = "lookup"
  <2>1. RefundLookup(w)
    <3>1. Proceeds(w)
      BY <1>1, <1>3, <1>11
    <3>2. QED
      BY <1>11, <3>1, ProceedsAt, ActionAt
  <2>2. /\ t.plan = payments[t.x].plan /\ t.user = Owner[t.x] /\ Method[t.x] = "stripe"
    BY <1>2, <1>4 DEF Holds, TaskInv
  <2>3. Findable(i)
    BY <1>4, <1>5, <1>8, <2>2 DEF RefundInv, RowsFindable
  <2>4. /\ i \in DOMAIN subs /\ subs[i].src = t.x /\ subs[i].status = "active"
        /\ subs[i].store = "stripe" /\ subs[i].plan = t.plan /\ subs[i].user = t.user
        /\ subs[i].txn # None
    BY <1>4, <1>6, <1>8, <2>2, <2>3 DEF ActiveFor, Findable, OneAtATime
  <2> DEFINE R == {j \in DOMAIN subs : /\ subs[j].user = t.user
                                       /\ subs[j].plan = t.plan
                                       /\ subs[j].store = "stripe"}
  <2>5. \A j \in R : j <= i
    BY <2>4, OnlyNewest
  <2>6. i \in R /\ R \subseteq Int
    <3>1. subs \in Seq(SubRow)
      BY <1>2 DEF Typed, TypeOK
    <3>2. QED
      BY <2>4, <3>1
  <2> HIDE DEF R
  <2>7. Newest(R) = {i}
    <3>1. i \in Newest(R)
      BY <2>5, <2>6 DEF Newest
    <3>2. ASSUME NEW k \in Newest(R)
          PROVE  k = i
      <4>1. k \in R /\ i <= k
        BY <2>6, <3>2 DEF Newest
      <4>2. QED
        BY <2>5, <2>6, <4>1
    <3>3. QED
      BY <3>1, <3>2
  <2>8. FindLatestStripeForUserPlan(subs, t.user, t.plan) = subs[i].txn
    BY <2>7 DEF FindLatestStripeForUserPlan, R
  <2>9. work'[w].txn = subs[i].txn
    <3> DEFINE txn == FindLatestStripeForUserPlan(subs, work[w].user, work[w].plan)
    <3>1. work'[w] = [work[w] EXCEPT !.txn = txn,
                                     !.pc = IF txn = None THEN "refundMark" ELSE "stripeRefund"]
      BY <1>2, <2>1 DEF RefundLookup
    <3>2. txn = subs[i].txn
      BY <2>8
    <3> HIDE DEF txn
    <3>3. QED
      BY <1>2, <3>1, <3>2 DEF Task
  <2>10. QED
    BY <1>9, <2>4, <2>9
<1>12. QED
  BY <1>10, <1>11

\* No grant is under way for a payment that is refunded, so no row of it
\* becomes active.
LEMMA NoRowStays ==
  ASSUME SerialInv, [Next]_vars, NEW p \in Payments, payments[p].status = "refunded",
         NoRowActive(p)
  PROVE  NoRowActive(p)'
<1>1. SUFFICES ASSUME NEW i \in ActiveFor(p)'
               PROVE  FALSE
  BY DEF NoRowActive, ActiveFor
<1>2. ASSUME NEW w \in Workers, GrantInsert(w), subs'[i] = GrantedRow(work[w])
      PROVE  FALSE
  <2>1. /\ work[w].x = p /\ work[w].pc = "insert"
        /\ TaskInv(work[w]) /\ Holds(work[w], payments)
    BY <1>1, <1>2
    DEF ActiveFor, GrantedRow, GrantInsert, SerialInv, Typed, WorkOK, HoldsInv
  <2>2. work[w].op \in {"complete", "confirm"}
    BY <2>1, PurchaseAssumption, NoneAssumption DEF TaskInv, OpPc, About, OnPayment, Purchases
  <2>3. QED
    BY <2>1, <2>2 DEF Holds
<1>3. i \in ActiveFor(p)
  BY <1>1, <1>2, ActiveBefore DEF SerialInv
<1>4. QED
  BY <1>3 DEF NoRowActive, ActiveFor

\* The last statement of a refund cancels every active row of its payment.
LEMMA RefundCancels ==
  ASSUME SerialInv, RefundInv, NEW w \in Workers, RefundCancelSub(w),
         NEW p \in Payments \ confirmed, work[w].x = p
  PROVE  NoRowActive(p)'
<1> DEFINE t == work[w]
           M == ActiveByStoreRef(subs, "stripe", t.txn)
<1>1. /\ t.pc = "refundCancel" /\ subs' = CancelByStoreRef(subs, "stripe", t.txn)
      /\ TaskInv(t) /\ subs \in Seq(SubRow)
  BY DEF RefundCancelSub, SerialInv, Typed, TypeOK, WorkOK
<1>2. t.op = "refund"
  BY <1>1 DEF TaskInv, OpPc
<1>3. ActiveFor(p) \subseteq M
  BY <1>1, <1>2 DEF RefundInv, RefundTask, ActiveFor, ActiveByStoreRef, ByStoreRef
<1>4. subs' = SetStatus(subs, M, "cancelled")
  BY <1>1 DEF CancelByStoreRef
<1> HIDE DEF M
<1>5. ASSUME NEW i \in DOMAIN subs', subs'[i].src = p
      PROVE  subs'[i].status # "active"
  <2>1. /\ i \in DOMAIN subs /\ subs[i] \in SubRow
        /\ subs'[i] = IF i \in M THEN [subs[i] EXCEPT !.status = "cancelled"] ELSE subs[i]
    BY <1>1, <1>4, <1>5 DEF SetStatus
  <2>2. CASE i \in M
    BY <2>1, <2>2 DEF SubRow
  <2>3. CASE i \notin M
    BY <1>3, <1>5, <2>1, <2>3 DEF ActiveFor
  <2>4. QED
    BY <2>2, <2>3
<1>6. QED
  BY <1>5 DEF NoRowActive

LEMMA RefundedEndStep ==
  ASSUME OneAtATime, SerialInv, RefundInv, [Next]_vars, aborts' = 0
  PROVE  RefundedEnd'
<1>1. SUFFICES ASSUME NEW p \in Payments \ confirmed', payments'[p].status = "refunded"
               PROVE  Ending(p)'
  BY DEF RefundedEnd
<1>2. /\ Typed /\ NoticesOK /\ p \notin confirmed /\ work \in [Workers -> Task]
  BY LedgerStep DEF LedgerGrows, SerialInv, Typed, TypeOK
<1>3. CASE payments[p].status = "refunded" /\ NoRowActive(p)
  BY <1>3, NoRowStays DEF Ending
<1>4. ASSUME NEW w \in Workers, work[w].pc = "refundCancel", work[w].x = p
      PROVE  Ending(p)'
  <2>1. ~Begins(w) /\ ~Breaks(w)
    BY <1>4 DEF Begins, Breaks, Idle
  <2>2. CASE Proceeds(w)
    <3>1. RefundCancelSub(w)
      BY <1>4, <2>2, ProceedsAt, ActionAt
    <3>2. QED
      BY <1>2, <1>4, <3>1, RefundCancels DEF Ending
  <2>3. CASE work' = work
    BY <1>4, <2>3 DEF Ending
  <2>4. QED
    BY <1>2, <2>1, <2>2, <2>3, EveryMove DEF OneAtATime, Aside
<1>5. CASE payments[p].status # "refunded"
  <2>1. ASSUME NEW w \in Workers, Begins(w)
        PROVE  FALSE
    BY <1>1, <1>5, <2>1 DEF Begins, Opens
  <2>2. PICK w \in Workers : Proceeds(w)
    BY <1>1, <1>2, <1>5, <2>1, EveryMove DEF Breaks, Aside
  <2>3. p = work[w].x /\ work[w].pc = "refundMark"
    <3>1. Writes(work[w]) /\ p = work[w].x
      BY <1>1, <1>5, <2>2 DEF Proceeds, Writes
    <3>2. QED
      BY <1>1, <1>5, <3>1, SettlingPoints DEF Writes
  <2>4. RefundMark(w) /\ TaskInv(work[w]) /\ work[w].op = "refund" /\ work[w] \in Task
    BY <1>2, <2>2, <2>3, ProceedsAt, ActionAt DEF Typed, WorkOK, TaskInv, OpPc
  <2>5. CASE work[w].txn = None
    <3>1. ActiveFor(p) = {}
      BY <1>2, <2>3, <2>4, <2>5 DEF RefundInv, RefundTask
    <3>2. subs' = subs
      BY <2>4 DEF RefundMark
    <3>3. QED
      BY <3>1, <3>2 DEF Ending, NoRowActive, ActiveFor
  <2>6. CASE work[w].txn # None
    <3>1. work'[w] = [work[w] EXCEPT !.pc = "refundCancel"]
      BY <1>2, <2>4, <2>6 DEF RefundMark, Goto
    <3>2. work'[w].pc = "refundCancel" /\ work'[w].x = p
      BY <2>3, <2>4, <3>1 DEF Task
    <3>3. QED
      BY <3>2 DEF Ending
  <2>7. QED
    BY <2>5, <2>6
<1>6. QED
  BY <1>2, <1>3, <1>4, <1>5 DEF RefundInv, RefundedEnd, Ending

\* While requests come one at a time and no handler is cut short, a refunded
\* payment that the provider reported leaves no active row: the refund looks up
\* the id the grant was stamped with, and its last statement cancels that row.
THEOREM RefundEndsAccessTheorem ==
  ASSUME OneAtATime
  PROVE  Spec => [](aborts = 0 => RefundEndsAccess)
<1> DEFINE Inv == SerialInv /\ (aborts = 0 => RefundInv)
<1>1. Init => RefundInv
  <2>1. Init => RowsFindable
    BY NoneAssumption DEF Init, RowsFindable, ActiveFor, FreeRow, Purchases
  <2>2. Init => (\A w \in Workers : RefundTask(w)) /\ RefundedEnd
    BY DEF Init, RefundTask, RefundedEnd, Idle
  <2>3. QED
    BY <2>1, <2>2 DEF RefundInv
<1>2. Inv /\ SerialInv' /\ [Next]_vars => Inv'
  BY AbortsStep, RowsFindableStep, RefundTaskStep, RefundedEndStep DEF RefundInv, SerialInv
<1>3. Inv => (aborts = 0 => RefundEndsAccess)
  BY DEF RefundInv, RefundedEnd, Ending, RefundEndsAccess, Quiet, Idle
<1>4. Spec => []SerialInv
  BY RowsAlways DEF SerialInv
<1>5. QED
  BY <1>1, <1>2, <1>3, <1>4, PTL DEF Spec
=============================================================================
