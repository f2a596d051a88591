------------------------------- MODULE DeskProofs -------------------------------
(***************************************************************************)
(* What the back office promises, for any admins, members, reports,        *)
(* providers, credentials, notices and number of requests at once: an      *)
(* admin remains, everything on offer is tried, counts of votes are exact, *)
(* a closed bug stays closed, crashes are counted, and a genuine notice is *)
(* honoured.                                                               *)
(***************************************************************************)
EXTENDS CommunityProps, ConsoleProps, NoticesProps, SumTheorems, FiniteSetTheorems, TLAPS

-----------------------------------------------------------------------------
(***************************************************************************)
(* Requests.  Every task has a pc; a step gives one worker a new task, or  *)
(* none.                                                                   *)
(***************************************************************************)
TasksOK == work = [w \in Workers |-> work[w]] /\ \A w \in Workers : "pc" \in DOMAIN work[w]

\* Worker w goes on with t.
Takes(w, t) == work' = [work EXCEPT ![w] = t]

LEMMA TakesGives ==
  ASSUME TasksOK, NEW w \in Workers, NEW t, "pc" \in DOMAIN t, Takes(w, t)
  PROVE  TasksOK' /\ work'[w] = t /\ \A v \in Workers \ {w} : work'[v] = work[v]
  BY DEF TasksOK, Takes

LEMMA IdlePc == "pc" \in DOMAIN Idle /\ Idle.pc = "idle"
  BY DEF Idle

LEMMA TasksInitially == ServingInit => TasksOK /\ \A w \in Workers : work[w].pc = "idle"
  BY IdlePc DEF ServingInit, TasksOK

-----------------------------------------------------------------------------
(***************************************************************************)
(* Some admin can still log in.                                            *)
(***************************************************************************)
StaffPcs == {"count", "retire", "hire", "rehash"}

Removal == [pc : {"count", "retire"}, actor : AdminIds, id : AdminIds, counted : BOOLEAN]

\* What a request about admins carries.
StaffTask(w) ==
  /\ work[w].pc \in {"count", "retire"} => work[w] \in Removal
  /\ work[w].pc = "hire" => work[w].email \in STRING
  /\ work[w].pc = "rehash" =>
       work[w].id \in Existing(admins) /\ work[w].password \in {"first", "second"}

AdminsOK == admins \in [AdminIds -> AdminRow \cup {NoRow}] /\ unguarded \in BOOLEAN

\* A DELETE that was let past the guard.
Guarded(w) == work[w].pc = "retire" /\ work[w].counted

\* Whoever passed the guard is alone and leaves an active admin behind.
GuardHolds ==
  ~unguarded =>
    /\ ActiveAdmins # {}
    /\ \A w \in Workers : Guarded(w) => \E a \in ActiveAdmins : a # work[w].id
    /\ \A v, w \in Workers : Guarded(v) /\ Guarded(w) => v = w

AdminInv == TasksOK /\ AdminsOK /\ (\A w \in Workers : StaffTask(w)) /\ GuardHolds

\* Nobody is removed, and nobody passes the guard.
LEMMA AdminsKept ==
  ASSUME AdminInv, TasksOK', AdminsOK',
         Existing(admins) \subseteq Existing(admins)',
         ~unguarded' => ~unguarded /\ ActiveAdmins \subseteq ActiveAdmins',
         \A v \in Workers : work'[v] = work[v] \/ (StaffTask(v)' /\ ~Guarded(v)')
  PROVE  AdminInv'
<1>1. \A v \in Workers : StaffTask(v)'
  BY DEF AdminInv, StaffTask
<1>2. \A v \in Workers : Guarded(v)' => Guarded(v) /\ work'[v] = work[v]
  BY DEF Guarded
<1>3. GuardHolds'
  BY <1>2 DEF AdminInv, GuardHolds
<1>4. QED
  BY <1>1, <1>3 DEF AdminInv

\* A step that concerns no admin.
ElsewhereTo(w) == \E t : Takes(w, t) /\ "pc" \in DOMAIN t /\ t.pc \notin StaffPcs

LEMMA Elsewhere ==
  ASSUME AdminInv, UNCHANGED <<admins, unguarded>>,
         UNCHANGED work \/ \E w \in Workers : ElsewhereTo(w)
  PROVE  AdminInv'
<1>1. AdminsOK' /\ Existing(admins)' = Existing(admins) /\ ActiveAdmins' = ActiveAdmins
  BY DEF AdminInv, AdminsOK, Existing, ActiveAdmins
<1>2. CASE UNCHANGED work
  BY <1>1, <1>2, AdminsKept DEF AdminInv, TasksOK
<1>3. ASSUME NEW w \in Workers, NEW t, Takes(w, t), "pc" \in DOMAIN t, t.pc \notin StaffPcs
      PROVE  AdminInv'
  <2>1. TasksOK' /\ work'[w] = t /\ \A v \in Workers \ {w} : work'[v] = work[v]
    BY <1>3, TakesGives DEF AdminInv
  <2>2. StaffTask(w)' /\ ~Guarded(w)'
    BY <1>3, <2>1 DEF StaffTask, Guarded, StaffPcs
  <2>3. QED
    BY <1>1, <2>1, <2>2, AdminsKept
<1>4. QED
  BY <1>2, <1>3 DEF ElsewhereTo

\* A row that is edited is a row.
LEMMA PatchedRow ==
  ASSUME NEW row \in AdminRow, NEW p \in AdminEdits
  PROVE  /\ Patched(row, p) \in AdminRow
         /\ Patched(row, p).active = IF "active" \in DOMAIN p THEN p.active ELSE row.active
<1>1. Patched(row, p) = [email |-> IF "email" \in DOMAIN p THEN p.email ELSE row.email,
                         password |-> row.password,
                         active |-> IF "active" \in DOMAIN p THEN p.active ELSE row.active]
  BY ConsoleAssumption DEF Patched, AdminRow
<1>2. QED
  BY <1>1, ConsoleAssumption DEF AdminRow

-----------------------------------------------------------------------------
(***************************************************************************)
(* The steps that concern admins.                                          *)
(***************************************************************************)
LEMMA SameAdmins ==
  ASSUME AdminInv, UNCHANGED <<admins, unguarded>>
  PROVE  /\ AdminsOK' /\ Existing(admins)' = Existing(admins) /\ ActiveAdmins' = ActiveAdmins
         /\ ~unguarded' => ~unguarded
  BY DEF AdminInv, AdminsOK, Existing, ActiveAdmins

\* A request begins, and is past no guard.
LEMMA TaskBegun ==
  ASSUME AdminInv, UNCHANGED <<admins, unguarded>>, NEW w \in Workers, NEW t, "pc" \in DOMAIN t,
         Takes(w, t),
         t.pc \in {"count", "retire"} => t \in Removal,
         t.pc = "retire" => ~t.counted,
         t.pc = "hire" => t.email \in STRING,
         t.pc = "rehash" => t.id \in Existing(admins) /\ t.password \in {"first", "second"}
  PROVE  AdminInv'
<1>1. TasksOK' /\ work'[w] = t /\ \A v \in Workers \ {w} : work'[v] = work[v]
  BY TakesGives DEF AdminInv
<1>2. AdminsOK' /\ Existing(admins)' = Existing(admins) /\ ActiveAdmins' = ActiveAdmins
      /\ (~unguarded' => ~unguarded)
  BY SameAdmins
<1>3. StaffTask(w)' /\ ~Guarded(w)'
  BY <1>1, <1>2 DEF StaffTask, Guarded
<1> QED
  BY <1>1, <1>2, <1>3, AdminsKept

\* The row of a is written, and the request that did it is over or none was.
LEMMA RowWritten ==
  ASSUME AdminInv, NEW a \in AdminIds, NEW row \in AdminRow,
         admins' = [admins EXCEPT ![a] = row],
         unguarded' \in BOOLEAN,
         ~unguarded' => ~unguarded /\ (a \in ActiveAdmins => row.active),
         UNCHANGED work \/ \E w \in Workers : Takes(w, Idle)
  PROVE  AdminInv'
<1>1. AdminsOK'
  BY DEF AdminInv, AdminsOK
<1>2. Existing(admins) \subseteq Existing(admins)'
  BY ConsoleAssumption DEF AdminInv, AdminsOK, Existing
<1>3. ~unguarded' => ~unguarded /\ ActiveAdmins \subseteq ActiveAdmins'
  BY ConsoleAssumption DEF AdminInv, AdminsOK, ActiveAdmins, Existing
<1>4. CASE UNCHANGED work
  BY <1>1, <1>2, <1>3, <1>4, AdminsKept DEF AdminInv, TasksOK
<1>5. ASSUME NEW w \in Workers, Takes(w, Idle) PROVE AdminInv'
  <2>1. TasksOK' /\ work'[w] = Idle /\ \A v \in Workers \ {w} : work'[v] = work[v]
    BY <1>5, TakesGives, IdlePc DEF AdminInv
  <2>2. StaffTask(w)' /\ ~Guarded(w)'
    BY <2>1, IdlePc DEF StaffTask, Guarded
  <2> QED
    BY <1>1, <1>2, <1>3, <2>1, <2>2, AdminsKept
<1> QED
  BY <1>4, <1>5

\* A request is over and nothing was written.
LEMMA NothingWritten ==
  ASSUME AdminInv, UNCHANGED <<admins, unguarded>>, NEW w \in Workers, Takes(w, Idle)
  PROVE  AdminInv'
  BY Elsewhere, IdlePc DEF ElsewhereTo, StaffPcs

\* Two active admins: there is one beside any.
LEMMA AnotherActive ==
  ASSUME ~(CountActiveAdmins <= 1), NEW a
  PROVE  \E b \in ActiveAdmins : b # a
<1>1. ASSUME \A b \in ActiveAdmins : b = a PROVE FALSE
  <2>1. ActiveAdmins = {} \/ ActiveAdmins = {a}
    BY <1>1
  <2>2. Cardinality({}) = 0 /\ Cardinality({a}) = 1
    BY FS_EmptySet, FS_Singleton
  <2>3. CountActiveAdmins \in {0, 1}
    BY <2>1, <2>2 DEF CountActiveAdmins
  <2> QED
    BY <2>3
<1> QED
  BY <1>1

LEMMA GuardStep ==
  ASSUME AdminInv, NEW w \in Workers, GuardLastAdmin(w)
  PROVE  AdminInv'
<1>1. work[w] \in Removal /\ work[w].pc = "count" /\ UNCHANGED admins
  BY DEF GuardLastAdmin, At, AdminInv, StaffTask, adminVars
<1>2. CASE CountActiveAdmins <= 1
  BY <1>1, <1>2, NothingWritten DEF GuardLastAdmin, Finish, Goto, Takes
<1>3. CASE ~(CountActiveAdmins <= 1)
  <2> DEFINE t == [work[w] EXCEPT !.pc = "retire", !.counted = TRUE]
  <2>1. /\ Takes(w, t)
        /\ unguarded' = (unguarded \/ \E x \in Workers \ {w} : work[x].pc = "retire")
    BY <1>3 DEF GuardLastAdmin, Goto, Takes
  <2>2. t \in Removal /\ "pc" \in DOMAIN t /\ t.pc = "retire" /\ t.counted /\ t.id = work[w].id
    BY <1>1 DEF Removal
  <2> HIDE DEF t
  <2>3. TasksOK' /\ work'[w] = t /\ \A v \in Workers \ {w} : work'[v] = work[v]
    BY <2>1, <2>2, TakesGives DEF AdminInv
  <2>4. AdminsOK' /\ Existing(admins)' = Existing(admins) /\ ActiveAdmins' = ActiveAdmins
    BY <1>1, <2>1 DEF AdminInv, AdminsOK, Existing, ActiveAdmins
  <2>5. \A v \in Workers : StaffTask(v)'
    BY <2>2, <2>3, <2>4 DEF AdminInv, StaffTask
  <2>6. PICK b \in ActiveAdmins : b # work[w].id
    BY <1>3, AnotherActive
  <2>7. GuardHolds'
    <3> SUFFICES ASSUME ~unguarded' PROVE /\ ActiveAdmins' # {}
                                          /\ \E a \in ActiveAdmins' : a # work'[w].id
                                          /\ \A v \in Workers : Guarded(v)' => v = w
      BY DEF GuardHolds
    <3>1. \A v \in Workers \ {w} : ~Guarded(v)'
      BY <2>1, <2>3 DEF Guarded
    <3> QED
      BY <2>2, <2>3, <2>4, <2>6, <3>1
  <2> QED
    BY <2>3, <2>4, <2>5, <2>7 DEF AdminInv
<1> QED
  BY <1>2, <1>3

LEMMA RetireStep ==
  ASSUME AdminInv, NEW w \in Workers, SoftDeleteWithAudit(w)
  PROVE  AdminInv'
<1> DEFINE t == work[w].id
<1>1. work[w] \in Removal /\ work[w].pc = "retire" /\ t \in AdminIds /\ Takes(w, Idle)
  BY DEF SoftDeleteWithAudit, At, AdminInv, StaffTask, Removal, Finish, Goto, Takes
<1>2. CASE t \notin Existing(admins)
  BY <1>1, <1>2, NothingWritten DEF SoftDeleteWithAudit
<1>3. CASE t \in Existing(admins)
  <2> DEFINE row == [admins[t] EXCEPT !.active = FALSE]
  <2>1. /\ admins' = [admins EXCEPT ![t] = row]
        /\ unguarded' = (unguarded \/ (t \in ActiveAdmins /\ ~work[w].counted))
    BY <1>3 DEF SoftDeleteWithAudit
  <2>2. row \in AdminRow /\ ~row.active
    BY <1>3 DEF AdminInv, AdminsOK, Existing, AdminRow
  <2>3. unguarded' \in BOOLEAN
    BY <2>1 DEF AdminInv, AdminsOK
  <2>4. CASE unguarded' \/ t \notin ActiveAdmins
    <3> HIDE DEF row, t
    <3> QED
      BY <1>1, <2>1, <2>2, <2>3, <2>4, RowWritten
  <2>5. CASE ~unguarded' /\ t \in ActiveAdmins
    <3>1. Guarded(w) /\ ~unguarded
      BY <1>1, <2>1, <2>5 DEF Guarded
    <3>2. TasksOK' /\ work'[w] = Idle /\ \A v \in Workers \ {w} : work'[v] = work[v]
      BY <1>1, TakesGives, IdlePc DEF AdminInv
    <3>3. AdminsOK' /\ Existing(admins)' = Existing(admins)
      <4> HIDE DEF row, t
      <4>1. admins \in [AdminIds -> AdminRow \cup {NoRow}] /\ t \in AdminIds /\ admins[t] # NoRow
        BY <1>1, <1>3 DEF AdminInv, AdminsOK, Existing
      <4>2. admins' \in [AdminIds -> AdminRow \cup {NoRow}]
        BY <2>1, <2>2, <4>1
      <4>3. Existing(admins)' = Existing(admins)
        BY <2>1, <2>2, <4>1, ConsoleAssumption DEF Existing
      <4> QED
        BY <2>3, <4>2, <4>3 DEF AdminsOK
    <3>4. \A v \in Workers : StaffTask(v)'
      BY <3>2, <3>3, IdlePc DEF AdminInv, StaffTask
    <3>5. PICK a \in ActiveAdmins : a # t
      BY <3>1 DEF AdminInv, GuardHolds
    <3>6. a \in ActiveAdmins'
      BY <2>1, <3>3, <3>5 DEF ActiveAdmins, AdminInv, AdminsOK, Existing
    <3>7. \A v \in Workers : ~Guarded(v)'
      BY <3>1, <3>2, IdlePc DEF AdminInv, GuardHolds, Guarded
    <3>8. GuardHolds'
      BY <3>6, <3>7 DEF GuardHolds
    <3> QED
      BY <3>2, <3>3, <3>4, <3>8 DEF AdminInv
  <2> QED
    BY <2>4, <2>5
<1> QED
  BY <1>2, <1>3

LEMMA StaffingStep ==
  ASSUME AdminInv, NEW w \in Workers, Staffing(w)
  PROVE  AdminInv'
<1>1. ASSUME NEW e \in STRING, CreateAdmin(w, e) PROVE AdminInv'
  <2>1. UNCHANGED <<admins, unguarded>>
    BY <1>1 DEF CreateAdmin, consoleVars, adminVars
  <2>2. CASE UNCHANGED work
    BY <2>1, <2>2, Elsewhere
  <2>3. CASE Takes(w, [pc |-> "hire", email |-> e])
    <3> DEFINE t == [pc |-> "hire", email |-> e]
    <3>1. "pc" \in DOMAIN t /\ t.pc = "hire" /\ t.email \in STRING
      OBVIOUS
    <3> HIDE DEF t
    <3> QED
      BY <2>1, <2>3, <3>1, TaskBegun
  <2> QED
    BY <1>1, <2>2, <2>3 DEF CreateAdmin, Served, Begin, Takes
<1>2. ASSUME NEW a \in AdminIds, NEW b \in AdminIds, DeleteAdmin(w, a, b) PROVE AdminInv'
  <2> DEFINE t == [pc |-> IF b \in ActiveAdmins THEN "count" ELSE "retire",
                   actor |-> a, id |-> b, counted |-> FALSE]
  <2>1. UNCHANGED <<admins, unguarded>>
    BY <1>2 DEF DeleteAdmin, consoleVars, adminVars
  <2>2. UNCHANGED work \/ Takes(w, t)
    BY <1>2 DEF DeleteAdmin, Served, Begin, Takes
  <2>3. t \in Removal /\ "pc" \in DOMAIN t /\ ~t.counted
    BY DEF Removal
  <2>4. t.pc # "hire" /\ t.pc # "rehash"
    OBVIOUS
  <2> HIDE DEF t
  <2> QED
    BY <2>1, <2>2, <2>3, <2>4, TaskBegun, Elsewhere
<1>3. ASSUME NEW a \in AdminIds, ChangePassword(w, a, "first", "second") PROVE AdminInv'
  <2> DEFINE t == [pc |-> "rehash", id |-> a, password |-> "second"]
  <2>1. UNCHANGED <<admins, unguarded>>
    BY <1>3 DEF ChangePassword, consoleVars, adminVars
  <2>2. UNCHANGED work \/ (Takes(w, t) /\ a \in Existing(admins))
    BY <1>3 DEF ChangePassword, Served, Begin, Takes
  <2>3. t.pc = "rehash" /\ "pc" \in DOMAIN t /\ t.id = a /\ t.password \in {"first", "second"}
    OBVIOUS
  <2> HIDE DEF t
  <2> QED
    BY <2>1, <2>2, <2>3, TaskBegun, Elsewhere
<1>4. CASE InsertAdmin(w)
  <2>1. UNCHANGED unguarded /\ Takes(w, Idle) /\ work[w].email \in STRING
    BY <1>4 DEF InsertAdmin, At, Finish, Goto, Takes, AdminInv, StaffTask
  <2>2. CASE UNCHANGED admins
    BY <2>1, <2>2, NothingWritten
  <2>3. ASSUME NEW a \in AdminIds \ Existing(admins),
               admins' = [admins EXCEPT ![a] = [email |-> work[w].email, password |-> "first",
                                                active |-> TRUE]]
        PROVE  AdminInv'
    <3> DEFINE row == [email |-> work[w].email, password |-> "first", active |-> TRUE]
    <3>1. row \in AdminRow /\ row.active
      BY <2>1 DEF AdminRow
    <3>2. unguarded' \in BOOLEAN /\ (~unguarded' => ~unguarded)
      BY <2>1 DEF AdminInv, AdminsOK
    <3>3. admins' = [admins EXCEPT ![a] = row]
      BY <2>3
    <3> HIDE DEF row
    <3> QED
      BY <2>1, <3>1, <3>2, <3>3, RowWritten
  <2> QED
    BY <1>4, <2>2, <2>3 DEF InsertAdmin
<1>5. CASE UpdatePasswordHash(w)
  <2> DEFINE a == work[w].id
             row == [admins[a] EXCEPT !.password = work[w].password]
  <2>1. /\ UNCHANGED unguarded /\ Takes(w, Idle)
        /\ a \in Existing(admins) /\ work[w].password \in {"first", "second"}
        /\ admins' = [admins EXCEPT ![a] = row]
    BY <1>5 DEF UpdatePasswordHash, At, Finish, Goto, Takes, AdminInv, StaffTask
  <2>2. a \in AdminIds /\ admins[a] \in AdminRow
    BY <2>1 DEF AdminInv, AdminsOK, Existing
  <2>3. row \in AdminRow /\ row.active = admins[a].active
    BY <2>1, <2>2 DEF AdminRow
  <2>4. unguarded' \in BOOLEAN /\ (~unguarded' => ~unguarded)
    BY <2>1 DEF AdminInv, AdminsOK
  <2>5. a \in ActiveAdmins => row.active
    BY <2>3 DEF ActiveAdmins
  <2> HIDE DEF a, row
  <2> QED
    BY <2>1, <2>2, <2>3, <2>4, <2>5, RowWritten
<1>6. {p.email : p \in {q \in AdminEdits : "email" \in DOMAIN q}} \subseteq STRING
  BY ConsoleAssumption
<1> QED
  BY <1>1, <1>2, <1>3, <1>4, <1>5, <1>6, GuardStep, RetireStep DEF Staffing

LEMMA UpdateStep ==
  ASSUME AdminInv, NEW a \in AdminIds, NEW p \in AdminEdits, UpdateAdmin(a, p)
  PROVE  AdminInv'
<1>1. UNCHANGED work
  BY DEF UpdateAdmin, Served
<1>2. CASE UNCHANGED <<admins, unguarded>>
  BY <1>1, <1>2, Elsewhere
<1>3. CASE /\ a \in Existing(admins)
           /\ admins' = [admins EXCEPT ![a] = Patched(@, p)]
           /\ unguarded' = (unguarded \/ ("active" \in DOMAIN p /\ ~p.active))
  <2>1. admins[a] \in AdminRow
    BY <1>3 DEF AdminInv, AdminsOK, Existing
  <2> DEFINE row == Patched(admins[a], p)
  <2>2. /\ row \in AdminRow
        /\ row.active = IF "active" \in DOMAIN p THEN p.active ELSE admins[a].active
    BY <2>1, PatchedRow
  <2>3. admins' = [admins EXCEPT ![a] = row]
    BY <1>3
  <2>4. unguarded' \in BOOLEAN
    BY <1>3 DEF AdminInv, AdminsOK
  <2>5. ~unguarded' => ~unguarded /\ (a \in ActiveAdmins => row.active)
    BY <1>3, <2>2 DEF ActiveAdmins
  <2> HIDE DEF row
  <2> QED
    BY <1>1, <2>2, <2>3, <2>4, <2>5, RowWritten
<1> QED
  BY <1>2, <1>3 DEF UpdateAdmin

-----------------------------------------------------------------------------
(***************************************************************************)
(* The others.                                                             *)
(***************************************************************************)
LEMMA IdleElsewhere ==
  ASSUME NEW w \in Workers, Takes(w, Idle)
  PROVE  ElsewhereTo(w)
  BY IdlePc DEF ElsewhereTo, StaffPcs

\* A candidate was asked.
LEMMA AskedElsewhere ==
  ASSUME TasksOK, NEW w \in Workers, work[w].pc \in {"try", "probe"}, Leave(w) \/ PassOver(w)
  PROVE  ElsewhereTo(w)
<1>1. CASE Leave(w)
  BY <1>1, IdleElsewhere DEF Leave, Finish, Goto, Takes
<1>2. CASE PassOver(w)
  <2> DEFINE t == [work[w] EXCEPT !.tried = @ \cup {Head(work[w].todo)}, !.todo = Tail(@),
                                  !.pc = IF Len(work[w].todo) = 1 THEN "nothing" ELSE @]
  <2>1. Takes(w, t)
    BY <1>2 DEF PassOver, Goto, Takes
  <2>2. "pc" \in DOMAIN t /\ t.pc \in {"nothing", "try", "probe"}
    BY DEF TasksOK
  <2> HIDE DEF t
  <2> QED
    BY <2>1, <2>2 DEF ElsewhereTo, StaffPcs
<1> QED
  BY <1>1, <1>2

LEMMA PromptingStep ==
  ASSUME AdminInv, NEW w \in Workers, Prompting(w)
  PROVE  AdminInv'
<1>1. UNCHANGED <<admins, unguarded>>
  BY DEF Prompting, SaveProvider, DemoteDefaults, WriteProvider, DefaultComplete, FailoverOrder,
         TryProvider, AnswerNothing, consoleVars, adminVars
<1> SUFFICES UNCHANGED work \/ ElsewhereTo(w)
  BY <1>1, Elsewhere
<1>2. ASSUME NEW p \in ProviderIds \cup {NoRow}, NEW b \in ProviderBodies, SaveProvider(w, p, b)
      PROVE  ElsewhereTo(w)
  <2> DEFINE t == [pc |-> IF Promotes(b) THEN "demote" ELSE "provider", id |-> p, body |-> Unmasked(b)]
  <2>1. Takes(w, t) /\ "pc" \in DOMAIN t /\ t.pc \in {"demote", "provider"}
    BY <1>2 DEF SaveProvider, Begin, Takes
  <2> HIDE DEF t
  <2> QED
    BY <2>1 DEF ElsewhereTo, StaffPcs
<1>3. CASE DemoteDefaults(w)
  <2> DEFINE t == [work[w] EXCEPT !.pc = "provider"]
  <2>1. Takes(w, t) /\ "pc" \in DOMAIN t /\ t.pc = "provider"
    BY <1>3 DEF DemoteDefaults, Goto, Takes, AdminInv, TasksOK
  <2> HIDE DEF t
  <2> QED
    BY <2>1 DEF ElsewhereTo, StaffPcs
<1>4. CASE WriteProvider(w)
  BY <1>4, IdleElsewhere DEF WriteProvider, Finish, Goto, Takes
<1>5. CASE DefaultComplete(w)
  <2>1. ASSUME NEW p, Begin(w, "prompt", [pc |-> "list", id |-> p, tried |-> {}, todo |-> <<>>])
        PROVE  ElsewhereTo(w)
    <3> DEFINE t == [pc |-> "list", id |-> p, tried |-> {}, todo |-> <<>>]
    <3>1. Takes(w, t) /\ "pc" \in DOMAIN t /\ t.pc = "list"
      BY <2>1 DEF Begin, Takes
    <3> HIDE DEF t
    <3> QED
      BY <3>1 DEF ElsewhereTo, StaffPcs
  <2> QED
    BY <1>5, <2>1 DEF DefaultComplete, Served
<1>6. CASE FailoverOrder(w)
  <2>1. ASSUME NEW order, Takes(w, [work[w] EXCEPT !.pc = "try", !.todo = order]) PROVE ElsewhereTo(w)
    <3> DEFINE t == [work[w] EXCEPT !.pc = "try", !.todo = order]
    <3>1. Takes(w, t) /\ "pc" \in DOMAIN t /\ t.pc = "try"
      BY <2>1 DEF AdminInv, TasksOK
    <3> HIDE DEF t
    <3> QED
      BY <3>1 DEF ElsewhereTo, StaffPcs
  <2> QED
    BY <1>6, <2>1 DEF FailoverOrder, Goto, Takes
<1>7. CASE TryProvider(w)
  BY <1>7, AskedElsewhere DEF TryProvider, At, AdminInv
<1>8. CASE AnswerNothing(w)
  BY <1>8, IdleElsewhere DEF AnswerNothing, Leave, Finish, Goto, Takes
<1> QED
  BY <1>2, <1>3, <1>4, <1>5, <1>6, <1>7, <1>8 DEF Prompting

LEMMA PublishingStep ==
  ASSUME AdminInv, NEW w \in Workers, Publishing(w)
  PROVE  AdminInv'
<1>1. UNCHANGED <<admins, unguarded>>
  BY DEF Publishing, UpsertChannel, GetEffective, UpsertPolicy, SaveRelease, SavePolicy,
         EnabledRelease, consoleVars, adminVars
<1> SUFFICES UNCHANGED work \/ ElsewhereTo(w)
  BY <1>1, Elsewhere
<1>2. ASSUME NEW c, NEW b, UpsertChannel(w, c, b) PROVE ElsewhereTo(w)
  <2> DEFINE t == [pc |-> "save", channel |-> c, new |-> releases[c] = NoRow,
                   row |-> MergedRelease(releases[c], b)]
  <2>1. Takes(w, t) /\ "pc" \in DOMAIN t /\ t.pc = "save"
    BY <1>2 DEF UpsertChannel, Begin, Takes
  <2> HIDE DEF t
  <2> QED
    BY <2>1 DEF ElsewhereTo, StaffPcs
<1>3. ASSUME NEW c, GetEffective(w, c) PROVE ElsewhereTo(w)
  <2> DEFINE t == [pc |-> "probe", tried |-> {}, todo |-> Probed(c)]
  <2>1. Takes(w, t) /\ "pc" \in DOMAIN t /\ t.pc = "probe"
    BY <1>3 DEF GetEffective, Begin, Takes
  <2> HIDE DEF t
  <2> QED
    BY <2>1 DEF ElsewhereTo, StaffPcs
<1>4. ASSUME NEW c, UpsertPolicy(w, c) PROVE ElsewhereTo(w)
  <2> DEFINE t == [pc |-> "policy", new |-> policy = NoRow,
                   channel |-> IF c \in Channels THEN c ELSE PreferredChannel]
  <2>1. Takes(w, t) /\ "pc" \in DOMAIN t /\ t.pc = "policy"
    BY <1>4 DEF UpsertPolicy, Begin, Takes
  <2> HIDE DEF t
  <2> QED
    BY <2>1 DEF ElsewhereTo, StaffPcs
<1>5. CASE SaveRelease(w) \/ SavePolicy(w)
  BY <1>5, IdleElsewhere DEF SaveRelease, SavePolicy, Finish, Goto, Takes
<1>6. CASE EnabledRelease(w)
  BY <1>6, AskedElsewhere DEF EnabledRelease, At, AdminInv
<1> QED
  BY <1>2, <1>3, <1>4, <1>5, <1>6 DEF Publishing

LEMMA AdminStep == AdminInv /\ [ConsoleNext]_<<servingVars, consoleVars>> => AdminInv'
<1> SUFFICES ASSUME AdminInv, [ConsoleNext]_<<servingVars, consoleVars>> PROVE AdminInv'
  OBVIOUS
<1>1. ASSUME NEW w \in Workers, GetSettings(w) PROVE AdminInv'
  <2>1. UNCHANGED <<admins, unguarded>>
    BY <1>1 DEF GetSettings, consoleVars, adminVars
  <2>2. CASE Takes(w, [pc |-> "fill"])
    BY <2>1, <2>2, Elsewhere DEF ElsewhereTo, StaffPcs
  <2> QED
    BY <1>1, <2>1, <2>2, Elsewhere DEF GetSettings, Served, Begin, Takes
<1>2. ASSUME NEW w \in Workers, InsertDefaultSettings(w) \/ ConsoleAbort(w) PROVE AdminInv'
  BY <1>2, NothingWritten DEF InsertDefaultSettings, ConsoleAbort, Abort, Finish, Goto, Takes, adminVars
<1>3. ASSUME NEW a \in AdminIds, NEW password, LoginAdmin(a, password) PROVE AdminInv'
  BY <1>3, Elsewhere DEF LoginAdmin, Served
<1>4. ASSUME NEW p \in SettingBodies, PatchSettings(p) PROVE AdminInv'
  BY <1>4, Elsewhere DEF PatchSettings, Served, adminVars
<1>5. ASSUME NEW p \in ProviderIds, SoftDeleteProvider(p) PROVE AdminInv'
  BY <1>5, Elsewhere DEF SoftDeleteProvider, Served, adminVars
<1>6. ASSUME NEW c \in Channels, DeleteChannel(c) PROVE AdminInv'
  BY <1>6, Elsewhere DEF DeleteChannel, Served, adminVars
<1>7. CASE UNCHANGED <<servingVars, consoleVars>>
  BY <1>7, Elsewhere DEF servingVars, consoleVars, adminVars
<1> QED
  BY <1>1, <1>2, <1>3, <1>4, <1>5, <1>6, <1>7, StaffingStep, PromptingStep, PublishingStep, UpdateStep
  DEF ConsoleNext

\* An installation whose admins can do nothing has nothing to keep.
SomeAdmin == \E a \in AdminIds : Staff[a] # NoRow /\ Staff[a].active

LEMMA AdminInitially == SomeAdmin /\ ServingInit /\ ConsoleInit => AdminInv
<1> SUFFICES ASSUME SomeAdmin, ServingInit, ConsoleInit PROVE AdminInv
  OBVIOUS
<1>1. AdminsOK /\ ActiveAdmins # {}
  BY ConsoleAssumption DEF SomeAdmin, ConsoleInit, AdminsOK, ActiveAdmins, Existing, AdminIds
<1>2. \A w \in Workers : StaffTask(w) /\ ~Guarded(w)
  BY TasksInitially DEF StaffTask, Guarded
<1> QED
  BY <1>1, <1>2, TasksInitially DEF AdminInv, GuardHolds

\* However many DELETEs run at once, whatever is counted, aborted or refused
\* between their statements: while none removed an admin beside another one, and
\* no PATCH switched one off, an admin who can log in is left
\* (admin_users_handler.go, Delete: the count of the active ones, then the soft
\* delete).
THEOREM AdminAlwaysRemains == SomeAdmin /\ ConsoleSpec => []AdminRemains
<1>1. AdminInv => AdminRemains
  BY DEF AdminInv, GuardHolds, AdminRemains
<1> QED
  BY <1>1, AdminInitially, AdminStep, PTL DEF ConsoleSpec

-----------------------------------------------------------------------------
(***************************************************************************)
(* Failover.  Whoever is told that there is nothing had everything tried   *)
(* that was on offer all the while, because whatever was is always tried   *)
(* already or still to do.  First, that a list by age leaves nobody out:   *)
(* counting who is no younger numbers the members of a set of numbers.     *)
(***************************************************************************)
Rank(S, x) == Cardinality({y \in S : y <= x})

LEMMA RankGrows ==
  ASSUME NEW S \in SUBSET Nat, IsFiniteSet(S), NEW x \in S, NEW y \in S, x < y
  PROVE  Rank(S, x) < Rank(S, y)
<1> DEFINE A == {z \in S : z <= x}
           B == {z \in S : z <= y}
<1>0. x \in Nat /\ y \in Nat /\ \A z \in S : z \in Nat
  OBVIOUS
<1>1. A \subseteq B /\ y \in B /\ y \notin A
  <2>1. ASSUME NEW z \in S, z <= x PROVE z <= y
    BY <1>0, <2>1
  <2>2. ~(y <= x)
    BY <1>0
  <2>3. y <= y
    BY <1>0
  <2> QED
    BY <2>1, <2>2, <2>3, Zenon
<1>2. IsFiniteSet(A) /\ IsFiniteSet(B)
  BY FS_Subset
<1>3. Cardinality(A) \in Nat /\ Cardinality(B) \in Nat
  BY <1>2, FS_CardinalityType
<1>4. Cardinality(A) <= Cardinality(B) /\ Cardinality(A) # Cardinality(B)
  BY <1>1, <1>2, FS_Subset
<1> QED
  BY <1>3, <1>4 DEF Rank

LEMMA RankNumbers ==
  ASSUME NEW S \in SUBSET Nat, IsFiniteSet(S), NEW x \in S
  PROVE  Rank(S, x) \in 1..Cardinality(S)
<1> DEFINE A == {z \in S : z <= x}
<1>1. A \subseteq S /\ x \in A
  OBVIOUS
<1>2. IsFiniteSet(A) /\ Cardinality(A) <= Cardinality(S)
  BY <1>1, FS_Subset
<1>3. Cardinality(A) \in Nat /\ Cardinality(S) \in Nat
  BY <1>2, FS_CardinalityType
<1>4. Cardinality(A) # 0
  BY <1>1, <1>2, FS_EmptySet
<1> QED
  BY <1>2, <1>3, <1>4 DEF Rank

LEMMA RankInverts ==
  ASSUME NEW S \in SUBSET Nat, IsFiniteSet(S)
  PROVE  \E s \in [1..Cardinality(S) -> S] : \A i \in 1..Cardinality(S) : Rank(S, s[i]) = i
<1> DEFINE n == Cardinality(S)
           r == [x \in S |-> Rank(S, x)]
<1>1. n \in Nat /\ IsFiniteSet(1..n) /\ Cardinality(1..n) = n
  BY FS_CardinalityType, FS_Interval
<1>2. r \in [S -> 1..n]
  BY RankNumbers
<1>3. \A x, y \in S : r[x] = r[y] => x = y
  <2> SUFFICES ASSUME NEW x \in S, NEW y \in S, x < y PROVE r[x] # r[y]
    OBVIOUS
  <2> QED
    BY RankGrows, RankNumbers
<1>4. r \in Injection(S, 1..n)
  BY <1>2, <1>3 DEF Injection, IsInjective
<1>5. r \in Surjection(S, 1..n)
  BY <1>1, <1>4, FS_Injection
<1>6. \A i \in 1..n : \E x \in S : r[x] = i
  BY <1>5 DEF Surjection
<1> DEFINE s == [i \in 1..n |-> CHOOSE x \in S : r[x] = i]
<1>7. s \in [1..n -> S] /\ \A i \in 1..n : r[s[i]] = i
  BY <1>6
<1> QED
  BY <1>7

\* A list by age has everybody.
LEMMA ByAgeLists ==
  ASSUME NEW S \in SUBSET Nat, IsFiniteSet(S)
  PROVE  ByAge(S) \in Seq(S) /\ Range(ByAge(S)) = S
<1> DEFINE n == Cardinality(S)
           Sorted(s) == \A i, j \in DOMAIN s : i < j => s[i] < s[j]
<1>1. n \in Nat /\ IsFiniteSet(1..n) /\ Cardinality(1..n) = n
  BY FS_CardinalityType, FS_Interval
<1>2. \E s \in [1..n -> S] : Sorted(s)
  <2>1. PICK s \in [1..n -> S] : \A i \in 1..n : Rank(S, s[i]) = i
    BY RankInverts
  <2>2. ASSUME NEW i \in 1..n, NEW j \in 1..n, i < j PROVE s[i] < s[j]
    <3>1. s[i] \in S /\ s[j] \in S /\ Rank(S, s[i]) = i /\ Rank(S, s[j]) = j
      BY <2>1
    <3>2. CASE s[i] = s[j]
      BY <2>2, <3>1, <3>2
    <3>3. CASE s[j] < s[i]
      <4>1. Rank(S, s[j]) < Rank(S, s[i])
        BY <3>1, <3>3, RankGrows
      <4> QED
        BY <2>2, <3>1, <4>1
    <3>4. s[i] \in Nat /\ s[j] \in Nat
      BY <3>1
    <3> QED
      BY <3>2, <3>3, <3>4
  <2> QED
    BY <2>1, <2>2
<1> DEFINE s == ByAge(S)
<1>3. s \in [1..n -> S] /\ Sorted(s)
  BY <1>2 DEF ByAge
<1> HIDE DEF s
<1>4. \A i, j \in 1..n : s[i] = s[j] => i = j
  <2> SUFFICES ASSUME NEW i \in 1..n, NEW j \in 1..n, i < j PROVE s[i] # s[j]
    OBVIOUS
  <2>1. s[i] < s[j] /\ s[i] \in Nat /\ s[j] \in Nat
    BY <1>3
  <2> QED
    BY <2>1
<1>5. s \in Surjection(1..n, S)
  <2>1. s \in Injection(1..n, S)
    BY <1>3, <1>4 DEF Injection, IsInjective
  <2> QED
    BY <1>1, <2>1, FS_Injection
<1>6. Range(s) = S
  BY <1>3, <1>5 DEF Surjection, Range
<1> QED
  BY <1>1, <1>3, <1>6 DEF s

\* Going on to the next of a list.
LEMMA RangeShrinks ==
  ASSUME NEW S, NEW s \in Seq(S), s # <<>>
  PROVE  /\ Range(s) = {Head(s)} \cup Range(Tail(s)) /\ Tail(s) \in Seq(S)
         /\ Len(s) = 1 => Range(Tail(s)) = {}
         /\ Len(s) # 1 => Tail(s) # <<>>
<1>1. Len(s) \in Nat \ {0} /\ Head(s) = s[1] /\ Tail(s) \in Seq(S) /\ Len(Tail(s)) = Len(s) - 1
      /\ \A i \in 1..Len(s) - 1 : Tail(s)[i] = s[i + 1]
  OBVIOUS
<1>2. DOMAIN s = 1..Len(s) /\ DOMAIN Tail(s) = 1..Len(s) - 1
  BY <1>1
<1>3. \A i \in 2..Len(s) : s[i] = Tail(s)[i - 1] /\ i - 1 \in 1..Len(s) - 1
  BY <1>1
<1>4. \A i \in 1..Len(s) - 1 : Tail(s)[i] = s[i + 1] /\ i + 1 \in 1..Len(s)
  BY <1>1
<1>5. \A i \in 1..Len(s) : i = 1 \/ i \in 2..Len(s)
  BY <1>1
<1>6. Range(s) \subseteq {Head(s)} \cup Range(Tail(s))
  <2> SUFFICES ASSUME NEW i \in 1..Len(s) PROVE s[i] = s[1] \/ s[i] \in Range(Tail(s))
    BY <1>1, <1>2 DEF Range
  <2> QED
    BY <1>2, <1>3, <1>5 DEF Range
<1>7. {Head(s)} \cup Range(Tail(s)) \subseteq Range(s)
  <2>1. s[1] \in Range(s)
    BY <1>1, <1>2 DEF Range
  <2>2. ASSUME NEW i \in 1..Len(s) - 1 PROVE Tail(s)[i] \in Range(s)
    BY <1>2, <1>4 DEF Range
  <2> QED
    BY <1>1, <1>2, <2>1, <2>2 DEF Range
<1>8. Len(s) = 1 => Range(Tail(s)) = {}
  BY <1>2 DEF Range
<1>9. Len(s) # 1 => Tail(s) # <<>>
  BY <1>1
<1> QED
  BY <1>1, <1>6, <1>7, <1>8, <1>9, Zenon

LEMMA RangeOfJoined ==
  ASSUME NEW S, NEW x \in S, NEW t \in Seq(S)
  PROVE  /\ <<x>> \o t \in Seq(S) /\ <<x>> \o t # <<>>
         /\ Range(<<x>> \o t) = {x} \cup Range(t)
<1> DEFINE s == <<x>> \o t
<1>1. s \in Seq(S) /\ Len(s) = Len(t) + 1 /\ s[1] = x /\ Len(t) \in Nat
      /\ \A i \in 1..Len(t) : s[i + 1] = t[i]
  OBVIOUS
<1> HIDE DEF s
<1>2. s # <<>> /\ Head(s) = x /\ Tail(s) = t
  BY <1>1
<1>3. Range(s) = {x} \cup Range(t)
  BY <1>1, <1>2, RangeShrinks
<1> QED
  BY <1>1, <1>2, <1>3 DEF s

Offered == ProviderIds \cup {"direct", "store"}

\* Rows and settings that decide what is on offer.
OfferOK ==
  /\ providers \in [ProviderIds -> ProviderRow \cup {NoRow}]
  /\ releases = [c \in Channels |-> releases[c]]
  /\ policy \in Channels \cup {NoRow}
  /\ steady = [w \in Workers |-> steady[w]]

\* Worker w's request writes what fits the row it writes to.
BodyOK(b) ==
  /\ "dflt" \in DOMAIN b => b.dflt \in BOOLEAN
  /\ "active" \in DOMAIN b => b.active \in BOOLEAN
  /\ "key" \in DOMAIN b => b.key \in STRING

ConsoleTask(w) ==
  /\ work[w].pc \in {"demote", "provider"} =>
       {"id", "body"} \subseteq DOMAIN work[w] /\ BodyOK(work[w].body)
  /\ work[w].pc = "policy" => "channel" \in DOMAIN work[w] /\ work[w].channel \in Channels

\* What was on offer all the while was tried, or will be.
Pursues(w) ==
  /\ work[w].pc = "list" => /\ {"id", "tried", "todo"} \subseteq DOMAIN work[w]
                            /\ work[w].id \in ProviderIds /\ steady[w] \subseteq ActiveProviders
  /\ work[w].pc \in {"try", "probe"} =>
       /\ {"tried", "todo"} \subseteq DOMAIN work[w]
       /\ work[w].todo \in Seq(Offered) /\ work[w].todo # <<>>
       /\ steady[w] \subseteq work[w].tried \cup Range(work[w].todo)
  /\ work[w].pc = "nothing" => "tried" \in DOMAIN work[w] /\ steady[w] \subseteq work[w].tried

FailoverInv == TasksOK /\ OfferOK /\ \A w \in Workers : ConsoleTask(w) /\ Pursues(w)

\* Whoever looks for a provider loses at most what was switched off.
OfferKept(v) == /\ steady'[v] \subseteq steady[v]
                /\ work[v].pc = "list" => steady'[v] \subseteq ActiveProviders'

LEMMA PursuitKept ==
  ASSUME FailoverInv, NEW v \in Workers, work'[v] = work[v], OfferKept(v)
  PROVE  ConsoleTask(v)' /\ Pursues(v)'
<1>1. ConsoleTask(v)'
  BY DEF FailoverInv, ConsoleTask
<1>2. Pursues(v) /\ steady'[v] \subseteq steady[v]
  BY DEF FailoverInv, OfferKept
<1> QED
  BY <1>1, <1>2 DEF Pursues, OfferKept

\* Worker w goes on with t.
LEMMA PursuitGoesOn ==
  ASSUME FailoverInv, OfferOK', NEW w \in Workers, NEW t, "pc" \in DOMAIN t, Takes(w, t),
         \A v \in Workers \ {w} : OfferKept(v), ConsoleTask(w)', Pursues(w)'
  PROVE  FailoverInv'
<1>1. TasksOK' /\ \A v \in Workers \ {w} : work'[v] = work[v]
  BY TakesGives DEF FailoverInv
<1>2. \A v \in Workers : ConsoleTask(v)' /\ Pursues(v)'
  BY <1>1, PursuitKept
<1> QED
  BY <1>1, <1>2 DEF FailoverInv

OtherPcs == {"idle", "rehash", "hire", "count", "retire", "fill", "save"}

\* It is about something else, or done.
LEMMA PursuitEnds ==
  ASSUME FailoverInv, OfferOK', NEW w \in Workers, NEW t, "pc" \in DOMAIN t, t.pc \in OtherPcs,
         Takes(w, t), \A v \in Workers \ {w} : OfferKept(v)
  PROVE  FailoverInv'
<1>1. work'[w] = t
  BY TakesGives DEF FailoverInv
<1>2. ConsoleTask(w)' /\ Pursues(w)'
  BY <1>1 DEF ConsoleTask, Pursues, OtherPcs
<1> QED
  BY <1>2, PursuitGoesOn

\* Nobody goes on.
LEMMA PursuitRests ==
  ASSUME FailoverInv, OfferOK', UNCHANGED work, \A v \in Workers : OfferKept(v)
  PROVE  FailoverInv'
<1>1. TasksOK'
  BY DEF FailoverInv, TasksOK
<1>2. \A v \in Workers : ConsoleTask(v)' /\ Pursues(v)'
  BY PursuitKept
<1> QED
  BY <1>1, <1>2 DEF FailoverInv

\* Nothing on offer changes but for w.
LEMMA OfferStays ==
  ASSUME FailoverInv, UNCHANGED <<providers, releases, policy>>, NEW W, W \subseteq Workers,
         steady' = [v \in Workers |-> steady'[v]], \A v \in Workers \ W : steady'[v] = steady[v]
  PROVE  OfferOK' /\ \A v \in Workers \ W : OfferKept(v)
<1>1. OfferOK'
  BY DEF FailoverInv, OfferOK
<1>2. ActiveProviders' = ActiveProviders
  BY DEF ActiveProviders, Existing
<1> QED
  BY <1>1, <1>2 DEF OfferKept, FailoverInv, Pursues

LEMMA OfferRests ==
  ASSUME FailoverInv, UNCHANGED <<providers, releases, policy, steady>>
  PROVE  OfferOK' /\ \A v \in Workers : OfferKept(v)
<1>1. steady' = [v \in Workers |-> steady'[v]] /\ \A v \in Workers : steady'[v] = steady[v]
  BY DEF FailoverInv, OfferOK
<1> QED
  BY <1>1, OfferStays

-----------------------------------------------------------------------------
(***************************************************************************)
(* The steps of those who look for a provider or a release.                *)
(***************************************************************************)
LEMMA ChannelsAre == Channels = {"direct", "store"} /\ "direct" # "store"
  BY ConsoleAssumption DEF Channels

LEMMA ProvidersAre ==
  /\ IsFiniteSet(ProviderIds) /\ ProviderIds \subseteq Nat
  /\ Models \in [ProviderIds -> ProviderRow \cup {NoRow}]
<1>1. Models \in Seq(ProviderRow \cup {NoRow})
  BY ConsoleAssumption
<1>2. Len(Models) \in Nat /\ ProviderIds = 1..Len(Models)
      /\ Models \in [1..Len(Models) -> ProviderRow \cup {NoRow}]
  BY <1>1 DEF ProviderIds
<1>3. IsFiniteSet(1..Len(Models))
  BY <1>2, FS_Interval
<1> QED
  BY <1>2, <1>3

\* The default and the others are everybody.
LEMMA FailoverListsAll ==
  ASSUME FailoverInv, NEW p \in ProviderIds
  PROVE  /\ FailoverList(p) \in Seq(Offered) /\ FailoverList(p) # <<>>
         /\ ActiveProviders \subseteq Range(FailoverList(p))
<1> DEFINE S == Fallbacks(p)
<1>1. S \subseteq ProviderIds
  BY DEF FailoverInv, OfferOK, Fallbacks, ActiveProviders, Existing
<1>2. S \in SUBSET Nat /\ IsFiniteSet(S)
  BY <1>1, ProvidersAre, FS_Subset
<1>3. ByAge(S) \in Seq(S) /\ Range(ByAge(S)) = S
  BY <1>2, ByAgeLists
<1>4. ByAge(S) \in Seq(Offered)
  BY <1>1, <1>3 DEF Offered
<1>5. p \in Offered
  BY DEF Offered
<1>6. Range(FailoverList(p)) = {p} \cup S /\ FailoverList(p) \in Seq(Offered) /\ FailoverList(p) # <<>>
  BY <1>3, <1>4, <1>5, RangeOfJoined DEF FailoverList
<1> QED
  BY <1>6 DEF Fallbacks

LEMMA LeaveEnds ==
  ASSUME FailoverInv, UNCHANGED <<providers, releases, policy>>, NEW w \in Workers, Leave(w)
  PROVE  FailoverInv'
<1>1. Takes(w, Idle) /\ steady' = [v \in Workers |-> steady'[v]]
      /\ \A v \in Workers \ {w} : steady'[v] = steady[v]
  BY DEF Leave, Finish, Goto, Takes, FailoverInv, OfferOK
<1>2. OfferOK' /\ \A v \in Workers \ {w} : OfferKept(v)
  BY <1>1, OfferStays
<1> QED
  BY <1>1, <1>2, IdlePc, PursuitEnds DEF OtherPcs

LEMMA PassOverPursues ==
  ASSUME FailoverInv, UNCHANGED <<providers, releases, policy>>, NEW w \in Workers, PassOver(w),
         work[w].pc \in {"try", "probe"}
  PROVE  FailoverInv'
<1> DEFINE todo == work[w].todo
           tried == work[w].tried
           t == [work[w] EXCEPT !.tried = @ \cup {Head(work[w].todo)}, !.todo = Tail(@),
                                !.pc = IF Len(work[w].todo) = 1 THEN "nothing" ELSE @]
<1>1. Takes(w, t) /\ UNCHANGED steady
  BY DEF PassOver, Goto, Takes
<1>2. {"pc", "tried", "todo"} \subseteq DOMAIN work[w] /\ todo \in Seq(Offered) /\ todo # <<>>
      /\ steady[w] \subseteq tried \cup Range(todo)
  BY DEF FailoverInv, Pursues, TasksOK
<1>3. /\ {"pc", "tried", "todo"} \subseteq DOMAIN t
      /\ t.pc = IF Len(todo) = 1 THEN "nothing" ELSE work[w].pc
      /\ t.tried = tried \cup {Head(todo)} /\ t.todo = Tail(todo)
  BY <1>2
<1>4. /\ Range(todo) = {Head(todo)} \cup Range(Tail(todo)) /\ Tail(todo) \in Seq(Offered)
      /\ Len(todo) = 1 => Range(Tail(todo)) = {}
      /\ Len(todo) # 1 => Tail(todo) # <<>>
  BY <1>2, RangeShrinks
<1>5. OfferOK' /\ \A v \in Workers \ {w} : OfferKept(v)
  BY <1>1, OfferStays DEF FailoverInv, OfferOK
<1>6. work'[w] = t
  BY <1>1, <1>3, TakesGives DEF FailoverInv
<1> HIDE DEF t
<1>7. ConsoleTask(w)' /\ Pursues(w)'
  <2>1. CASE Len(todo) = 1
    BY <1>1, <1>2, <1>3, <1>4, <1>6, <2>1 DEF ConsoleTask, Pursues
  <2>2. CASE Len(todo) # 1
    BY <1>1, <1>2, <1>3, <1>4, <1>6, <2>2 DEF ConsoleTask, Pursues
  <2> QED
    BY <2>1, <2>2
<1> QED
  BY <1>1, <1>3, <1>5, <1>7, PursuitGoesOn

LEMMA DefaultPursued ==
  ASSUME FailoverInv, NEW w \in Workers, DefaultComplete(w)
  PROVE  FailoverInv'
<1>1. UNCHANGED <<providers, releases, policy>>
  BY DEF DefaultComplete, providerVars, releaseVars
<1>2. CASE UNCHANGED work /\ UNCHANGED steady
  BY <1>1, <1>2, OfferRests, PursuitRests
<1>3. ASSUME NEW p \in Defaults \cap ActiveProviders,
             Begin(w, "prompt", [pc |-> "list", id |-> p, tried |-> {}, todo |-> <<>>]),
             steady' = [steady EXCEPT ![w] = ActiveProviders]
      PROVE  FailoverInv'
  <2> DEFINE t == [pc |-> "list", id |-> p, tried |-> {}, todo |-> <<>>]
  <2>1. Takes(w, t) /\ {"pc", "id", "tried", "todo"} \subseteq DOMAIN t /\ t.pc = "list" /\ t.id = p
    BY <1>3 DEF Begin, Takes
  <2> HIDE DEF t
  <2>2. work'[w] = t
    BY <2>1, TakesGives DEF FailoverInv
  <2>3. steady' = [v \in Workers |-> steady'[v]] /\ steady'[w] = ActiveProviders
        /\ \A v \in Workers \ {w} : steady'[v] = steady[v]
    BY <1>3 DEF FailoverInv, OfferOK
  <2>4. OfferOK' /\ \A v \in Workers \ {w} : OfferKept(v)
    BY <1>1, <2>3, OfferStays
  <2>5. p \in ProviderIds /\ ActiveProviders' = ActiveProviders
    BY <1>1 DEF FailoverInv, OfferOK, ActiveProviders, Existing
  <2>6. ConsoleTask(w)' /\ Pursues(w)'
    BY <2>1, <2>2, <2>3, <2>5 DEF ConsoleTask, Pursues
  <2> QED
    BY <2>1, <2>4, <2>6, PursuitGoesOn
<1> QED
  BY <1>2, <1>3 DEF DefaultComplete, Served

\* The list is taken, or the default alone.
LEMMA OrderPursued ==
  ASSUME FailoverInv, NEW w \in Workers, FailoverOrder(w)
  PROVE  FailoverInv'
<1>1. UNCHANGED <<providers, releases, policy>> /\ work[w].pc = "list"
  BY DEF FailoverOrder, At, providerVars, releaseVars
<1>2. {"pc", "id", "tried", "todo"} \subseteq DOMAIN work[w] /\ work[w].id \in ProviderIds
      /\ steady[w] \subseteq ActiveProviders
  BY <1>1 DEF FailoverInv, Pursues, TasksOK
<1>3. ASSUME NEW order \in Seq(Offered), order # <<>>,
             Takes(w, [work[w] EXCEPT !.pc = "try", !.todo = order]),
             steady' = [v \in Workers |-> steady'[v]], \A v \in Workers \ {w} : steady'[v] = steady[v],
             steady'[w] \subseteq Range(order)
      PROVE  FailoverInv'
  <2> DEFINE t == [work[w] EXCEPT !.pc = "try", !.todo = order]
  <2>1. Takes(w, t) /\ {"pc", "tried", "todo"} \subseteq DOMAIN t /\ t.pc = "try" /\ t.todo = order
    BY <1>2, <1>3
  <2> HIDE DEF t
  <2>2. work'[w] = t
    BY <2>1, TakesGives DEF FailoverInv
  <2>3. OfferOK' /\ \A v \in Workers \ {w} : OfferKept(v)
    BY <1>1, <1>3, OfferStays
  <2>4. ConsoleTask(w)' /\ Pursues(w)'
    BY <1>3, <2>1, <2>2 DEF ConsoleTask, Pursues
  <2> QED
    BY <2>1, <2>3, <2>4, PursuitGoesOn
<1> DEFINE p == work[w].id
<1>4. CASE Takes(w, [work[w] EXCEPT !.pc = "try", !.todo = FailoverList(p)]) /\ UNCHANGED steady
  <2>1. FailoverList(p) \in Seq(Offered) /\ FailoverList(p) # <<>>
        /\ ActiveProviders \subseteq Range(FailoverList(p))
    BY <1>2, FailoverListsAll
  <2> QED
    BY <1>2, <1>3, <1>4, <2>1 DEF FailoverInv, OfferOK
<1>5. CASE Takes(w, [work[w] EXCEPT !.pc = "try", !.todo = <<p>>])
           /\ steady' = [steady EXCEPT ![w] = @ \cap {p}]
  <2>1. <<p>> \in Seq(Offered) /\ <<p>> # <<>> /\ Range(<<p>>) = {p}
    BY <1>2 DEF Offered, Range
  <2>2. steady' = [v \in Workers |-> steady'[v]] /\ (\A v \in Workers \ {w} : steady'[v] = steady[v])
        /\ steady'[w] = steady[w] \cap {p}
    BY <1>5 DEF FailoverInv, OfferOK
  <2> QED
    BY <1>3, <1>5, <2>1, <2>2
<1> QED
  BY <1>4, <1>5 DEF FailoverOrder, Goto, Takes

\* A body is written into the row of p.
LEMMA PatchedFits ==
  ASSUME NEW row \in ProviderRow, NEW b, BodyOK(b)
  PROVE  Patched(row, b) \in ProviderRow
<1>1. DOMAIN row = {"dflt", "active", "key"} /\ row.dflt \in BOOLEAN /\ row.active \in BOOLEAN
      /\ row.key \in STRING \cup {""}
  BY DEF ProviderRow
<1> DEFINE new(c) == IF c \in DOMAIN b THEN b[c] ELSE row[c]
<1>2. new("dflt") \in BOOLEAN /\ new("active") \in BOOLEAN /\ new("key") \in STRING \cup {""}
  BY <1>1 DEF BodyOK
<1>3. Patched(row, b) = [c \in {"dflt", "active", "key"} |-> new(c)]
  BY <1>1 DEF Patched
<1> HIDE DEF new
<1>4. Patched(row, b) = [dflt |-> new("dflt"), active |-> new("active"), key |-> new("key")]
  BY <1>3
<1>5. ASSUME NEW x \in BOOLEAN, NEW y \in BOOLEAN, NEW z \in STRING \cup {""}
      PROVE  [dflt |-> x, active |-> y, key |-> z] \in ProviderRow
  BY DEF ProviderRow
<1> QED
  BY <1>2, <1>4, <1>5

LEMMA SavePursues ==
  ASSUME FailoverInv, NEW w \in Workers, NEW p \in ProviderIds \cup {NoRow}, NEW b \in ProviderBodies,
         SaveProvider(w, p, b)
  PROVE  FailoverInv'
<1>1. UNCHANGED <<providers, releases, policy, steady>>
  BY DEF SaveProvider, consoleVars, providerVars, releaseVars
<1> DEFINE body == Unmasked(b)
           t == [pc |-> IF Promotes(b) THEN "demote" ELSE "provider", id |-> p, body |-> body]
<1>2. Takes(w, t)
  BY DEF SaveProvider, Begin, Takes
<1>3. BodyOK(b)
  BY ConsoleAssumption DEF BodyOK
<1>4. BodyOK(body)
  BY <1>3 DEF BodyOK, Unmasked
<1> HIDE DEF body
<1>5. {"pc", "id", "body"} \subseteq DOMAIN t /\ t.pc \in {"demote", "provider"} /\ t.body = body
  OBVIOUS
<1> HIDE DEF t
<1>6. work'[w] = t
  BY <1>2, <1>5, TakesGives DEF FailoverInv
<1>7. ConsoleTask(w)' /\ Pursues(w)'
  BY <1>4, <1>5, <1>6 DEF ConsoleTask, Pursues
<1> QED
  BY <1>1, <1>2, <1>5, <1>7, OfferRests, PursuitGoesOn

LEMMA DemotePursues ==
  ASSUME FailoverInv, NEW w \in Workers, DemoteDefaults(w)
  PROVE  FailoverInv'
<1>1. UNCHANGED <<releases, policy, steady>> /\ providers' = Demoted(providers)
  BY DEF DemoteDefaults, releaseVars
<1>2. providers \in [ProviderIds -> ProviderRow \cup {NoRow}]
  BY DEF FailoverInv, OfferOK
<1>3. ASSUME NEW p \in ProviderIds
      PROVE  /\ providers'[p] \in ProviderRow \cup {NoRow}
             /\ providers'[p] = NoRow <=> providers[p] = NoRow
             /\ providers[p] # NoRow => providers'[p].active = providers[p].active
  <2>1. CASE providers[p] = NoRow
    BY <1>1, <1>2, <2>1 DEF Demoted, Existing
  <2>2. CASE providers[p] # NoRow
    <3>1. providers[p] \in ProviderRow /\ providers'[p] = [providers[p] EXCEPT !.dflt = FALSE]
      BY <1>1, <1>2, <2>2 DEF Demoted, Existing
    <3>2. providers'[p] \in ProviderRow /\ providers'[p].active = providers[p].active
      BY <3>1 DEF ProviderRow
    <3> QED
      BY <2>2, <3>2, ConsoleAssumption
  <2> QED
    BY <2>1, <2>2
<1>4. OfferOK'
  BY <1>1, <1>3 DEF FailoverInv, OfferOK, Demoted
<1>5. ActiveProviders' = ActiveProviders
  BY <1>2, <1>3, <1>4 DEF OfferOK, ActiveProviders, Existing
<1>6. \A v \in Workers : OfferKept(v)
  BY <1>1, <1>5 DEF OfferKept, FailoverInv, Pursues
<1> DEFINE t == [work[w] EXCEPT !.pc = "provider"]
<1>7. work[w].pc = "demote" /\ Takes(w, t)
  BY DEF DemoteDefaults, At, Goto, Takes
<1>8. {"pc", "id", "body"} \subseteq DOMAIN work[w] /\ BodyOK(work[w].body)
  BY <1>7 DEF FailoverInv, ConsoleTask, TasksOK
<1>9. {"pc", "id", "body"} \subseteq DOMAIN t /\ t.pc = "provider" /\ t.body = work[w].body
  BY <1>8
<1> HIDE DEF t
<1>10. work'[w] = t
  BY <1>7, <1>9, TakesGives DEF FailoverInv
<1>11. ConsoleTask(w)' /\ Pursues(w)'
  BY <1>8, <1>9, <1>10 DEF ConsoleTask, Pursues
<1> QED
  BY <1>4, <1>6, <1>7, <1>9, <1>11, PursuitGoesOn

\* What is no longer active is no longer steady.
LEMMA StillKept ==
  ASSUME FailoverInv, NEW offered, steady' = Still(Prompts, offered), offered \subseteq ActiveProviders'
  PROVE  steady' = [v \in Workers |-> steady'[v]] /\ \A v \in Workers : OfferKept(v)
  BY DEF Still, Prompts, OfferKept

LEMMA WriteProviderPursues ==
  ASSUME FailoverInv, NEW w \in Workers, WriteProvider(w)
  PROVE  FailoverInv'
<1>1. UNCHANGED <<releases, policy>> /\ work[w].pc = "provider" /\ Takes(w, Idle)
      /\ steady' = Still(Prompts, ActiveProviders')
  BY DEF WriteProvider, At, Finish, Goto, Takes, releaseVars
<1>2. BodyOK(work[w].body) /\ providers \in [ProviderIds -> ProviderRow \cup {NoRow}]
  BY <1>1 DEF FailoverInv, ConsoleTask, OfferOK
<1>3. providers' \in [ProviderIds -> ProviderRow \cup {NoRow}]
  <2> DEFINE fresh == [dflt |-> FALSE, active |-> TRUE, key |-> ""]
  <2>1. fresh \in ProviderRow
    BY DEF ProviderRow
  <2>2. PICK p \in ProviderIds, old \in ProviderRow \cup {NoRow} :
          \/ old # NoRow /\ providers' = [providers EXCEPT ![p] = Patched(old, work[w].body)]
          \/ UNCHANGED providers
    <3>1. fresh # NoRow
      BY <2>1, ConsoleAssumption
    <3> HIDE DEF fresh
    <3>2. CASE work[w].id = NoRow
      BY <2>1, <3>1, <3>2 DEF WriteProvider, fresh
    <3>3. CASE work[w].id # NoRow
      BY <1>2, <3>3 DEF WriteProvider, Existing
    <3> QED
      BY <3>2, <3>3
  <2>3. old # NoRow => Patched(old, work[w].body) \in ProviderRow
    BY <1>2, PatchedFits
  <2> QED
    BY <1>2, <2>2, <2>3
<1>4. steady' = [v \in Workers |-> steady'[v]] /\ \A v \in Workers : OfferKept(v)
  BY <1>1, StillKept
<1>5. OfferOK'
  BY <1>1, <1>3, <1>4 DEF FailoverInv, OfferOK
<1> QED
  BY <1>1, <1>4, <1>5, IdlePc, PursuitEnds DEF OtherPcs

LEMMA SoftDeletePursues ==
  ASSUME FailoverInv, NEW p \in ProviderIds, SoftDeleteProvider(p)
  PROVE  FailoverInv'
<1>1. UNCHANGED <<work, releases, policy>> /\ p \in Existing(providers)
      /\ providers' = [providers EXCEPT ![p].dflt = FALSE, ![p].active = FALSE]
      /\ steady' = Still(Prompts, ActiveProviders \ {p})
  BY DEF SoftDeleteProvider, Served, releaseVars
<1>2. providers \in [ProviderIds -> ProviderRow \cup {NoRow}] /\ providers[p] \in ProviderRow
  BY <1>1 DEF FailoverInv, OfferOK, Existing
<1>3. providers' \in [ProviderIds -> ProviderRow \cup {NoRow}]
      /\ \A q \in ProviderIds \ {p} : providers'[q] = providers[q]
  <2> DEFINE row == [[providers[p] EXCEPT !.dflt = FALSE] EXCEPT !.active = FALSE]
  <2>1. row \in ProviderRow
    BY <1>2 DEF ProviderRow
  <2>2. providers' = [providers EXCEPT ![p] = row]
    BY <1>1, <1>2
  <2> HIDE DEF row
  <2> QED
    BY <1>2, <2>1, <2>2
<1>4. ActiveProviders \ {p} \subseteq ActiveProviders'
  BY <1>2, <1>3 DEF ActiveProviders, Existing
<1>5. steady' = [v \in Workers |-> steady'[v]] /\ \A v \in Workers : OfferKept(v)
  BY <1>1, <1>4, StillKept
<1>6. OfferOK'
  BY <1>1, <1>3, <1>5 DEF FailoverInv, OfferOK
<1> QED
  BY <1>1, <1>5, <1>6, PursuitRests

-----------------------------------------------------------------------------
(***************************************************************************)
(* The steps about releases, and all the others.                           *)
(***************************************************************************)
\* A step about something else, by which w goes on with t.
LEMMA OtherPursuit ==
  ASSUME FailoverInv, UNCHANGED <<providers, releases, policy, steady>>,
         NEW w \in Workers, NEW t, "pc" \in DOMAIN t, t.pc \in OtherPcs, Takes(w, t)
  PROVE  FailoverInv'
  BY OfferRests, PursuitEnds

LEMMA PolicyPursues ==
  ASSUME FailoverInv, NEW w \in Workers, NEW c \in Channels \cup {"none"}, UpsertPolicy(w, c)
  PROVE  FailoverInv'
<1>1. UNCHANGED <<providers, releases, policy, steady>>
  BY DEF UpsertPolicy, consoleVars, providerVars, releaseVars
<1> DEFINE chosen == IF c \in Channels THEN c ELSE PreferredChannel
           t == [pc |-> "policy", new |-> policy = NoRow, channel |-> chosen]
<1>2. Takes(w, t)
  BY DEF UpsertPolicy, Begin, Takes
<1>3. chosen \in Channels
  BY ChannelsAre DEF PreferredChannel, FailoverInv, OfferOK
<1> HIDE DEF chosen
<1>4. {"pc", "channel"} \subseteq DOMAIN t /\ t.pc = "policy" /\ t.channel = chosen
  OBVIOUS
<1> HIDE DEF t
<1>5. work'[w] = t
  BY <1>2, <1>4, TakesGives DEF FailoverInv
<1>6. ConsoleTask(w)' /\ Pursues(w)'
  BY <1>3, <1>4, <1>5 DEF ConsoleTask, Pursues, Channels
<1> QED
  BY <1>1, <1>2, <1>4, <1>6, OfferRests, PursuitGoesOn

LEMMA SavePolicyPursues ==
  ASSUME FailoverInv, NEW w \in Workers, SavePolicy(w)
  PROVE  FailoverInv'
<1>1. UNCHANGED <<providers, releases, steady>> /\ Takes(w, Idle) /\ work[w].pc = "policy"
      /\ policy' \in {policy, work[w].channel}
  BY DEF SavePolicy, At, Finish, Goto, Takes, providerVars
<1>2. policy' \in Channels \cup {NoRow}
  BY <1>1 DEF FailoverInv, OfferOK, ConsoleTask
<1>3. OfferOK'
  BY <1>1, <1>2 DEF FailoverInv, OfferOK, Channels
<1>4. ActiveProviders' = ActiveProviders
  BY <1>1 DEF ActiveProviders, Existing
<1>5. \A v \in Workers : OfferKept(v)
  BY <1>1, <1>4 DEF OfferKept, FailoverInv, Pursues
<1> QED
  BY <1>1, <1>3, <1>5, IdlePc, PursuitEnds DEF OtherPcs

\* Releases change; providers do not.
LEMMA ReleasesWritten ==
  ASSUME FailoverInv, UNCHANGED <<providers, policy>>, releases' = [c \in Channels |-> releases'[c]],
         NEW offered, steady' = Still({"probe"}, offered)
  PROVE  OfferOK' /\ \A v \in Workers : OfferKept(v)
<1>1. ActiveProviders' = ActiveProviders
  BY DEF ActiveProviders, Existing
<1>2. steady' = [v \in Workers |-> steady'[v]]
      /\ \A v \in Workers : steady'[v] \subseteq steady[v]
  BY DEF Still
<1>3. \A v \in Workers : work[v].pc = "list" => steady[v] \subseteq ActiveProviders
  BY DEF FailoverInv, Pursues
<1>4. OfferOK'
  BY <1>2 DEF FailoverInv, OfferOK, Channels
<1> QED
  BY <1>1, <1>2, <1>3, <1>4 DEF OfferKept

LEMMA SaveReleasePursues ==
  ASSUME FailoverInv, NEW w \in Workers, SaveRelease(w)
  PROVE  FailoverInv'
<1>1. UNCHANGED <<providers, policy>> /\ Takes(w, Idle) /\ steady' = Still({"probe"}, Enabled')
      /\ releases' = [c \in Channels |-> releases'[c]]
  BY DEF SaveRelease, Finish, Goto, Takes, providerVars, FailoverInv, OfferOK
<1> QED
  BY <1>1, ReleasesWritten, IdlePc, PursuitEnds DEF OtherPcs

LEMMA DeleteChannelPursues ==
  ASSUME FailoverInv, NEW c \in Channels, DeleteChannel(c)
  PROVE  FailoverInv'
<1>1. UNCHANGED <<work, providers, policy>> /\ steady' = Still({"probe"}, Enabled \ {c})
      /\ releases' = [d \in Channels |-> releases'[d]]
  BY DEF DeleteChannel, Served, providerVars, FailoverInv, OfferOK
<1> QED
  BY <1>1, ReleasesWritten, PursuitRests

\* Both channels are asked.
LEMMA ProbePursues ==
  ASSUME FailoverInv, NEW w \in Workers, NEW c \in Channels \cup {"none"}, GetEffective(w, c)
  PROVE  FailoverInv'
<1>1. UNCHANGED <<providers, releases, policy>> /\ steady' = [steady EXCEPT ![w] = Enabled]
  BY DEF GetEffective, providerVars, releaseVars
<1> DEFINE first == IF c \in Channels THEN c ELSE PreferredChannel
           todo  == <<first, OtherChannel(first)>>
           t     == [pc |-> "probe", tried |-> {}, todo |-> todo]
<1>2. Takes(w, t)
  BY DEF GetEffective, Probed, Begin, Takes
<1>3. first \in {"direct", "store"}
  BY ChannelsAre DEF PreferredChannel, FailoverInv, OfferOK
<1> HIDE DEF first
<1>4. todo \in Seq(Offered) /\ todo # <<>> /\ Range(todo) = {"direct", "store"}
  <2>1. OtherChannel(first) \in {"direct", "store"} /\ {first, OtherChannel(first)} = {"direct", "store"}
    BY <1>3 DEF OtherChannel
  <2>2. todo \in Seq(Offered) /\ todo # <<>> /\ DOMAIN todo = {1, 2}
        /\ todo[1] = first /\ todo[2] = OtherChannel(first)
    BY <1>3, <2>1 DEF Offered
  <2> HIDE DEF todo
  <2>3. Range(todo) = {first, OtherChannel(first)}
    BY <2>2 DEF Range
  <2> QED
    BY <2>1, <2>2, <2>3
<1> HIDE DEF todo
<1>5. {"pc", "tried", "todo"} \subseteq DOMAIN t /\ t.pc = "probe" /\ t.tried = {} /\ t.todo = todo
  OBVIOUS
<1> HIDE DEF t
<1>6. work'[w] = t
  BY <1>2, <1>5, TakesGives DEF FailoverInv
<1>7. steady' = [v \in Workers |-> steady'[v]] /\ steady'[w] = Enabled
      /\ \A v \in Workers \ {w} : steady'[v] = steady[v]
  BY <1>1 DEF FailoverInv, OfferOK
<1>8. Enabled \subseteq {"direct", "store"}
  BY ChannelsAre DEF Enabled, Existing, FailoverInv, OfferOK
<1>9. ConsoleTask(w)' /\ Pursues(w)'
  BY <1>4, <1>5, <1>6, <1>7, <1>8 DEF ConsoleTask, Pursues
<1>10. OfferOK' /\ \A v \in Workers \ {w} : OfferKept(v)
  BY <1>1, <1>7, OfferStays
<1> QED
  BY <1>2, <1>5, <1>9, <1>10, PursuitGoesOn

LEMMA FailoverStaffing ==
  ASSUME FailoverInv, NEW w \in Workers, Staffing(w)
  PROVE  FailoverInv'
<1>1. UNCHANGED <<providers, releases, policy, steady>>
  BY DEF Staffing, CreateAdmin, DeleteAdmin, ChangePassword, InsertAdmin, GuardLastAdmin,
         SoftDeleteWithAudit, UpdatePasswordHash, consoleVars, providerVars, releaseVars
<1>2. CASE UNCHANGED work
  BY <1>1, <1>2, OfferRests, PursuitRests
<1>3. ASSUME NEW t, Takes(w, t), "pc" \in DOMAIN t, t.pc \in OtherPcs
      PROVE  FailoverInv'
  BY <1>1, <1>3, OtherPursuit
<1>4. ASSUME NEW e, CreateAdmin(w, e) PROVE FailoverInv'
  <2>1. CASE Takes(w, [pc |-> "hire", email |-> e])
    BY <2>1, <1>3 DEF OtherPcs
  <2> QED
    BY <1>2, <1>4, <2>1 DEF CreateAdmin, Served, Begin, Takes
<1>5. ASSUME NEW a, NEW b, DeleteAdmin(w, a, b) PROVE FailoverInv'
  <2> DEFINE t == [pc |-> IF b \in ActiveAdmins THEN "count" ELSE "retire",
                   actor |-> a, id |-> b, counted |-> FALSE]
  <2>1. CASE Takes(w, t)
    <3>1. "pc" \in DOMAIN t /\ t.pc \in OtherPcs
      BY DEF OtherPcs
    <3> HIDE DEF t
    <3> QED
      BY <2>1, <3>1, <1>3
  <2> QED
    BY <1>2, <1>5, <2>1 DEF DeleteAdmin, Served, Begin, Takes
<1>6. ASSUME NEW a, ChangePassword(w, a, "first", "second") PROVE FailoverInv'
  <2>1. CASE Takes(w, [pc |-> "rehash", id |-> a, password |-> "second"])
    BY <2>1, <1>3 DEF OtherPcs
  <2> QED
    BY <1>2, <1>6, <2>1 DEF ChangePassword, Served, Begin, Takes
<1>7. CASE InsertAdmin(w) \/ SoftDeleteWithAudit(w) \/ UpdatePasswordHash(w)
  BY <1>3, <1>7, IdlePc DEF InsertAdmin, SoftDeleteWithAudit, UpdatePasswordHash, Finish, Goto, Takes,
     OtherPcs
<1>8. CASE GuardLastAdmin(w)
  <2> DEFINE t == [work[w] EXCEPT !.pc = "retire", !.counted = TRUE]
  <2>1. CASE Takes(w, t)
    <3>1. "pc" \in DOMAIN t /\ t.pc \in OtherPcs
      BY DEF OtherPcs, FailoverInv, TasksOK
    <3> HIDE DEF t
    <3> QED
      BY <2>1, <3>1, <1>3
  <2>2. CASE Takes(w, Idle)
    BY <2>2, <1>3, IdlePc DEF OtherPcs
  <2> QED
    BY <1>8, <2>1, <2>2 DEF GuardLastAdmin, Finish, Goto, Takes
<1> QED
  BY <1>4, <1>5, <1>6, <1>7, <1>8 DEF Staffing

LEMMA FailoverPublishing ==
  ASSUME FailoverInv, NEW w \in Workers, Publishing(w)
  PROVE  FailoverInv'
<1>1. ASSUME NEW c, NEW b, UpsertChannel(w, c, b) PROVE FailoverInv'
  <2> DEFINE t == [pc |-> "save", channel |-> c, new |-> releases[c] = NoRow,
                   row |-> MergedRelease(releases[c], b)]
  <2>1. UNCHANGED <<providers, releases, policy, steady>> /\ Takes(w, t)
    BY <1>1 DEF UpsertChannel, Begin, Takes, consoleVars, providerVars, releaseVars
  <2>2. "pc" \in DOMAIN t /\ t.pc \in OtherPcs
    BY DEF OtherPcs
  <2> HIDE DEF t
  <2> QED
    BY <2>1, <2>2, OtherPursuit
<1>2. CASE EnabledRelease(w)
  BY <1>2, LeaveEnds, PassOverPursues DEF EnabledRelease, At, providerVars, releaseVars
<1> QED
  BY <1>1, <1>2, ProbePursues, PolicyPursues, SavePolicyPursues, SaveReleasePursues DEF Publishing

LEMMA FailoverPrompting ==
  ASSUME FailoverInv, NEW w \in Workers, Prompting(w)
  PROVE  FailoverInv'
<1>1. CASE TryProvider(w)
  BY <1>1, LeaveEnds, PassOverPursues DEF TryProvider, At, providerVars, releaseVars
<1>2. CASE AnswerNothing(w)
  BY <1>2, LeaveEnds DEF AnswerNothing, providerVars, releaseVars
<1> QED
  BY <1>1, <1>2, SavePursues, DemotePursues, WriteProviderPursues, DefaultPursued, OrderPursued
  DEF Prompting

LEMMA FailoverStep == FailoverInv /\ [ConsoleNext]_<<servingVars, consoleVars>> => FailoverInv'
<1> SUFFICES ASSUME FailoverInv, [ConsoleNext]_<<servingVars, consoleVars>> PROVE FailoverInv'
  OBVIOUS
<1>1. ASSUME NEW w \in Workers, GetSettings(w) PROVE FailoverInv'
  <2>1. UNCHANGED <<providers, releases, policy, steady>>
    BY <1>1 DEF GetSettings, consoleVars, providerVars, releaseVars
  <2>2. CASE Takes(w, [pc |-> "fill"])
    BY <2>1, <2>2, OtherPursuit DEF OtherPcs
  <2> QED
    BY <1>1, <2>1, <2>2, OfferRests, PursuitRests DEF GetSettings, Served, Begin, Takes
<1>2. ASSUME NEW w \in Workers, InsertDefaultSettings(w) PROVE FailoverInv'
  BY <1>2, OtherPursuit, IdlePc DEF InsertDefaultSettings, Finish, Goto, Takes, OtherPcs,
     providerVars, releaseVars
<1>3. ASSUME NEW w \in Workers, ConsoleAbort(w) PROVE FailoverInv'
  BY <1>3, LeaveEnds DEF ConsoleAbort, Abort, Leave, providerVars, releaseVars
<1>4. ASSUME NEW a \in AdminIds, NEW password, LoginAdmin(a, password) PROVE FailoverInv'
  BY <1>4, OfferRests, PursuitRests DEF LoginAdmin, Served, providerVars, releaseVars
<1>5. ASSUME NEW a \in AdminIds, NEW p \in AdminEdits, UpdateAdmin(a, p) PROVE FailoverInv'
  BY <1>5, OfferRests, PursuitRests DEF UpdateAdmin, Served, providerVars, releaseVars
<1>6. ASSUME NEW p \in SettingBodies, PatchSettings(p) PROVE FailoverInv'
  BY <1>6, OfferRests, PursuitRests DEF PatchSettings, Served, providerVars, releaseVars
<1>7. CASE UNCHANGED <<servingVars, consoleVars>>
  BY <1>7, OfferRests, PursuitRests DEF servingVars, consoleVars, providerVars, releaseVars
<1> QED
  BY <1>1, <1>2, <1>3, <1>4, <1>5, <1>6, <1>7, FailoverStaffing, FailoverPrompting, FailoverPublishing,
     SoftDeletePursues, DeleteChannelPursues
  DEF ConsoleNext

LEMMA FailoverInitially == ServingInit /\ ConsoleInit => FailoverInv
<1> SUFFICES ASSUME ServingInit, ConsoleInit PROVE FailoverInv
  OBVIOUS
<1>1. OfferOK
  BY ProvidersAre, ConsoleAssumption DEF ConsoleInit, OfferOK, Channels
<1>2. \A w \in Workers : ConsoleTask(w) /\ Pursues(w)
  BY TasksInitially DEF ConsoleTask, Pursues
<1> QED
  BY <1>1, <1>2, TasksInitially DEF FailoverInv

\* However providers and channels are switched on and off, promoted or removed
\* while a request walks its list, and when the list itself cannot be read: who
\* is told that there is nothing had everything tried that was on offer all the
\* while (aiprovider/usecase.go, failoverOrder and DefaultCompleteFull;
\* updates/usecase.go, getEffective).
THEOREM FailoverAlwaysExhausts == ConsoleSpec => []FailoverExhausts
<1>1. FailoverInv => FailoverExhausts
  BY DEF FailoverInv, Pursues, FailoverExhausts
<1> QED
  BY <1>1, FailoverInitially, FailoverStep, PTL DEF ConsoleSpec

-----------------------------------------------------------------------------
(* The console's tables.  A step that is not about providers, settings,    *)
(* releases or admins leaves their rows, and the requests about them, as   *)
(* they are.                                                               *)

Away(pcs) == \A v \in Workers : work'[v] = work[v] \/ work'[v].pc \notin pcs

ProviderPcs == {"demote", "provider"}

OtherProviders == UNCHANGED providerVars /\ Away(ProviderPcs)
OtherSettings  == UNCHANGED settingVars
OtherReleases  == UNCHANGED <<releases, policy>> /\ Away({"save"})
OtherAdmins    == UNCHANGED <<admins, audit, sessions>> /\ (unguarded => unguarded')

LEMMA AwayTakes ==
  ASSUME TasksOK, NEW w \in Workers, NEW t, Takes(w, t), NEW pcs, "pc" \in DOMAIN t, t.pc \notin pcs
  PROVE  Away(pcs)
  BY TakesGives DEF Away

LEMMA AwayRests == ASSUME UNCHANGED work, NEW pcs PROVE Away(pcs)
  BY DEF Away

\* A request goes on with something else.
LEMMA AwayBoth ==
  ASSUME TasksOK, UNCHANGED work \/ \E w \in Workers : \E t :
                    Takes(w, t) /\ "pc" \in DOMAIN t /\ t.pc \notin ProviderPcs \cup {"save"}
  PROVE  Away(ProviderPcs) /\ Away({"save"})
  BY AwayRests, AwayTakes

LEMMA AwayIdle ==
  ASSUME TasksOK, NEW w \in Workers, Takes(w, Idle)
  PROVE  Away(ProviderPcs) /\ Away({"save"})
  BY AwayBoth, IdlePc DEF ProviderPcs

\* Admins.
LEMMA StaffApart ==
  ASSUME TasksOK, NEW w \in Workers, Staffing(w)
  PROVE  /\ OtherProviders /\ OtherSettings /\ OtherReleases
         /\ OtherAdmins \/ InsertAdmin(w) \/ SoftDeleteWithAudit(w) \/ UpdatePasswordHash(w)
<1> DEFINE Three == OtherProviders /\ OtherSettings /\ OtherReleases
<1>1. ASSUME NEW e, CreateAdmin(w, e) PROVE Three /\ OtherAdmins
  <2>1. UNCHANGED work \/ Takes(w, [pc |-> "hire", email |-> e])
    BY <1>1 DEF CreateAdmin, Served, Begin, Takes
  <2> QED
    BY <1>1, <2>1, AwayBoth DEF CreateAdmin, consoleVars, adminVars, releaseVars, OtherProviders, OtherSettings,
       OtherReleases, OtherAdmins, ProviderPcs
<1>2. ASSUME NEW a, NEW b, DeleteAdmin(w, a, b) PROVE Three /\ OtherAdmins
  <2>1. UNCHANGED work \/ Takes(w, [pc |-> IF b \in ActiveAdmins THEN "count" ELSE "retire",
                                    actor |-> a, id |-> b, counted |-> FALSE])
    BY <1>2 DEF DeleteAdmin, Served, Begin, Takes
  <2> QED
    BY <1>2, <2>1, AwayBoth DEF DeleteAdmin, consoleVars, adminVars, releaseVars, OtherProviders, OtherSettings,
       OtherReleases, OtherAdmins, ProviderPcs
<1>3. ASSUME NEW a, ChangePassword(w, a, "first", "second") PROVE Three /\ OtherAdmins
  <2>1. UNCHANGED work \/ Takes(w, [pc |-> "rehash", id |-> a, password |-> "second"])
    BY <1>3 DEF ChangePassword, Served, Begin, Takes
  <2> QED
    BY <1>3, <2>1, AwayBoth DEF ChangePassword, consoleVars, adminVars, releaseVars, OtherProviders, OtherSettings,
       OtherReleases, OtherAdmins, ProviderPcs
<1>4. CASE GuardLastAdmin(w)
  <2> DEFINE t == [work[w] EXCEPT !.pc = "retire", !.counted = TRUE]
  <2>1. "pc" \in DOMAIN t /\ t.pc = "retire"
    BY DEF TasksOK
  <2>2. Takes(w, Idle) \/ Takes(w, t)
    BY <1>4 DEF GuardLastAdmin, Finish, Goto, Takes
  <2>3. Away(ProviderPcs) /\ Away({"save"})
    <3> HIDE DEF t
    <3> QED
      BY <2>1, <2>2, AwayIdle, AwayBoth DEF ProviderPcs
  <2> QED
    BY <1>4, <2>3 DEF GuardLastAdmin, releaseVars, OtherProviders, OtherSettings, OtherReleases, OtherAdmins
<1>5. CASE InsertAdmin(w) \/ SoftDeleteWithAudit(w) \/ UpdatePasswordHash(w)
  <2>1. Takes(w, Idle)
    BY <1>5 DEF InsertAdmin, SoftDeleteWithAudit, UpdatePasswordHash, Finish, Goto, Takes
  <2> QED
    BY <1>5, <2>1, AwayIdle DEF InsertAdmin, SoftDeleteWithAudit, UpdatePasswordHash, releaseVars,
       OtherProviders, OtherSettings, OtherReleases
<1> QED
  BY <1>1, <1>2, <1>3, <1>4, <1>5 DEF Staffing

\* Providers, prompts.
LEMMA PromptApart ==
  ASSUME TasksOK, NEW w \in Workers, Prompting(w)
  PROVE  /\ OtherSettings /\ OtherReleases /\ OtherAdmins
         /\ \/ OtherProviders \/ DemoteDefaults(w) \/ WriteProvider(w)
            \/ \E p \in ProviderIds \cup {NoRow}, b \in ProviderBodies : SaveProvider(w, p, b)
<1>1. ASSUME NEW p, NEW b, SaveProvider(w, p, b) PROVE OtherSettings /\ OtherReleases /\ OtherAdmins
  <2> DEFINE t == [pc |-> IF Promotes(b) THEN "demote" ELSE "provider", id |-> p, body |-> Unmasked(b)]
  <2>1. Takes(w, t) /\ "pc" \in DOMAIN t /\ t.pc \notin {"save"}
    BY <1>1 DEF SaveProvider, Begin, Takes
  <2> HIDE DEF t
  <2>2. Away({"save"})
    BY <2>1, AwayTakes
  <2> QED
    BY <1>1, <2>2 DEF SaveProvider, consoleVars, adminVars, releaseVars, OtherSettings, OtherReleases, OtherAdmins
<1>2. CASE DemoteDefaults(w)
  <2> DEFINE t == [work[w] EXCEPT !.pc = "provider"]
  <2>1. Takes(w, t) /\ "pc" \in DOMAIN t /\ t.pc \notin {"save"}
    BY <1>2 DEF DemoteDefaults, Goto, Takes, TasksOK
  <2> HIDE DEF t
  <2>2. Away({"save"})
    BY <2>1, AwayTakes
  <2> QED
    BY <1>2, <2>2 DEF DemoteDefaults, adminVars, releaseVars, OtherSettings, OtherReleases, OtherAdmins
<1>3. CASE WriteProvider(w)
  <2>1. Takes(w, Idle)
    BY <1>3 DEF WriteProvider, Finish, Goto, Takes
  <2> QED
    BY <1>3, <2>1, AwayIdle DEF WriteProvider, adminVars, releaseVars, OtherSettings, OtherReleases, OtherAdmins
<1>4. ASSUME UNCHANGED <<adminVars, providerVars, settingVars, releaseVars>>,
             Away(ProviderPcs) /\ Away({"save"})
      PROVE  OtherProviders /\ OtherSettings /\ OtherReleases /\ OtherAdmins
  BY <1>4 DEF adminVars, releaseVars, OtherProviders, OtherSettings, OtherReleases, OtherAdmins
<1>5. CASE DefaultComplete(w)
  <2>1. ASSUME NEW p, Takes(w, [pc |-> "list", id |-> p, tried |-> {}, todo |-> <<>>])
        PROVE  Away(ProviderPcs) /\ Away({"save"})
    BY <2>1, AwayBoth DEF ProviderPcs
  <2> QED
    BY <1>4, <1>5, <2>1, AwayRests DEF DefaultComplete, Served, Begin, Takes
<1>6. CASE FailoverOrder(w)
  <2>1. ASSUME NEW l, Takes(w, [work[w] EXCEPT !.pc = "try", !.todo = l])
        PROVE  Away(ProviderPcs) /\ Away({"save"})
    <3>1. "pc" \in DOMAIN [work[w] EXCEPT !.pc = "try", !.todo = l] /\ [work[w] EXCEPT !.pc = "try", !.todo = l].pc = "try"
      BY DEF TasksOK
    <3> QED
      BY <2>1, <3>1, AwayBoth DEF ProviderPcs
  <2> QED
    BY <1>4, <1>6, <2>1 DEF FailoverOrder, Goto, Takes
<1>7. CASE TryProvider(w)
  <2> DEFINE t == [work[w] EXCEPT !.tried = @ \cup {Head(work[w].todo)}, !.todo = Tail(@),
                                  !.pc = IF Len(work[w].todo) = 1 THEN "nothing" ELSE @]
  <2>1. "pc" \in DOMAIN t /\ t.pc \in {"nothing", "try"}
    BY <1>7 DEF TryProvider, At, TasksOK
  <2>2. Takes(w, Idle) \/ Takes(w, t)
    BY <1>7 DEF TryProvider, Leave, PassOver, Finish, Goto, Takes
  <2> HIDE DEF t
  <2> QED
    BY <1>4, <1>7, <2>1, <2>2, AwayIdle, AwayBoth DEF TryProvider, ProviderPcs
<1>8. CASE AnswerNothing(w)
  BY <1>4, <1>8, AwayIdle DEF AnswerNothing, Leave, Finish, Goto, Takes
<1> QED
  BY <1>1, <1>2, <1>3, <1>5, <1>6, <1>7, <1>8 DEF Prompting

\* Releases.
LEMMA PublishApart ==
  ASSUME TasksOK, NEW w \in Workers, Publishing(w)
  PROVE  /\ OtherProviders /\ OtherSettings /\ OtherAdmins
         /\ \/ OtherReleases \/ SaveRelease(w) \/ SavePolicy(w)
            \/ \E c \in Channels, b \in ReleaseBodies : UpsertChannel(w, c, b)
<1> DEFINE Three == OtherProviders /\ OtherSettings /\ OtherAdmins
<1>1. ASSUME NEW c, NEW b, UpsertChannel(w, c, b) PROVE Three
  <2> DEFINE t == [pc |-> "save", channel |-> c, new |-> releases[c] = NoRow, row |-> MergedRelease(releases[c], b)]
  <2>1. Takes(w, t) /\ "pc" \in DOMAIN t /\ t.pc \notin ProviderPcs
    BY <1>1 DEF UpsertChannel, Begin, Takes, ProviderPcs
  <2> HIDE DEF t
  <2>2. Away(ProviderPcs)
    BY <2>1, AwayTakes
  <2> QED
    BY <1>1, <2>2 DEF UpsertChannel, consoleVars, adminVars, OtherProviders, OtherSettings, OtherAdmins
<1>2. CASE SaveRelease(w) \/ SavePolicy(w)
  <2>1. Takes(w, Idle)
    BY <1>2 DEF SaveRelease, SavePolicy, Finish, Goto, Takes
  <2> QED
    BY <1>2, <2>1, AwayIdle DEF SaveRelease, SavePolicy, adminVars, OtherProviders, OtherSettings, OtherAdmins
<1>3. ASSUME UNCHANGED <<adminVars, providerVars, settingVars, releaseVars>>,
             Away(ProviderPcs) /\ Away({"save"})
      PROVE  Three /\ OtherReleases
  BY <1>3 DEF adminVars, releaseVars, OtherProviders, OtherSettings, OtherReleases, OtherAdmins
<1>4. ASSUME NEW c, GetEffective(w, c) PROVE Three /\ OtherReleases
  <2>1. Takes(w, [pc |-> "probe", tried |-> {}, todo |-> Probed(c)])
    BY <1>4 DEF GetEffective, Begin, Takes
  <2> QED
    BY <1>3, <1>4, <2>1, AwayBoth DEF GetEffective, ProviderPcs
<1>5. ASSUME NEW c, UpsertPolicy(w, c) PROVE Three /\ OtherReleases
  <2>1. Takes(w, [pc |-> "policy", new |-> policy = NoRow,
                  channel |-> IF c \in Channels THEN c ELSE PreferredChannel])
    BY <1>5 DEF UpsertPolicy, Begin, Takes
  <2> QED
    BY <1>3, <1>5, <2>1, AwayBoth DEF UpsertPolicy, consoleVars, ProviderPcs
<1>6. CASE EnabledRelease(w)
  <2> DEFINE t == [work[w] EXCEPT !.tried = @ \cup {Head(work[w].todo)}, !.todo = Tail(@),
                                  !.pc = IF Len(work[w].todo) = 1 THEN "nothing" ELSE @]
  <2>1. "pc" \in DOMAIN t /\ t.pc \in {"nothing", "probe"}
    BY <1>6 DEF EnabledRelease, At, TasksOK
  <2>2. Takes(w, Idle) \/ Takes(w, t)
    BY <1>6 DEF EnabledRelease, Leave, PassOver, Finish, Goto, Takes
  <2> HIDE DEF t
  <2> QED
    BY <1>3, <1>6, <2>1, <2>2, AwayIdle, AwayBoth DEF EnabledRelease, ProviderPcs
<1> QED
  BY <1>1, <1>2, <1>4, <1>5, <1>6 DEF Publishing

\* Every step is about one of them, or none.
LEMMA ConsoleApart ==
  ASSUME TasksOK, [ConsoleNext]_<<servingVars, consoleVars>>
  PROVE  /\ \/ OtherProviders
            \/ \E w \in Workers : \/ DemoteDefaults(w) \/ WriteProvider(w)
                                  \/ \E p \in ProviderIds \cup {NoRow}, b \in ProviderBodies : SaveProvider(w, p, b)
            \/ \E p \in ProviderIds : SoftDeleteProvider(p)
         /\ \/ OtherSettings
            \/ \E w \in Workers : InsertDefaultSettings(w)
            \/ \E p \in SettingBodies : PatchSettings(p)
         /\ \/ OtherReleases
            \/ \E w \in Workers : \/ SaveRelease(w) \/ SavePolicy(w)
                                  \/ \E c \in Channels, b \in ReleaseBodies : UpsertChannel(w, c, b)
            \/ \E c \in Channels : DeleteChannel(c)
         /\ \/ OtherAdmins
            \/ \E w \in Workers : InsertAdmin(w) \/ SoftDeleteWithAudit(w) \/ UpdatePasswordHash(w)
            \/ \E a \in AdminIds : \/ \E password \in {"first", "second"} : LoginAdmin(a, password)
                                   \/ \E p \in AdminEdits : UpdateAdmin(a, p)
<1>1. ASSUME UNCHANGED <<adminVars, providerVars, settingVars, releaseVars>>,
             Away(ProviderPcs) /\ Away({"save"})
      PROVE  OtherProviders /\ OtherSettings /\ OtherAdmins /\ OtherReleases
  BY <1>1 DEF adminVars, releaseVars, OtherProviders, OtherSettings, OtherReleases, OtherAdmins
<1>2. ASSUME NEW w \in Workers, GetSettings(w) \/ ConsoleAbort(w)
      PROVE  OtherProviders /\ OtherSettings /\ OtherAdmins /\ OtherReleases
  <2>1. UNCHANGED work \/ Takes(w, Idle) \/ Takes(w, [pc |-> "fill"])
    BY <1>2 DEF GetSettings, ConsoleAbort, Served, Begin, Abort, Finish, Goto, Takes
  <2>2. Away(ProviderPcs) /\ Away({"save"})
    BY <2>1, AwayIdle, AwayBoth DEF ProviderPcs
  <2> QED
    BY <1>1, <1>2, <2>2 DEF GetSettings, ConsoleAbort, consoleVars
<1>3. CASE UNCHANGED <<servingVars, consoleVars>>
  BY <1>1, <1>3, AwayRests DEF servingVars, consoleVars
<1>4. ASSUME NEW w \in Workers, InsertDefaultSettings(w)
      PROVE  OtherProviders /\ OtherAdmins /\ OtherReleases
  <2>1. Takes(w, Idle)
    BY <1>4 DEF InsertDefaultSettings, Finish, Goto, Takes
  <2> QED
    BY <1>4, <2>1, AwayIdle DEF InsertDefaultSettings, adminVars, releaseVars, OtherProviders, OtherReleases, OtherAdmins
<1>5. ASSUME NEW p \in SettingBodies, PatchSettings(p)
      PROVE  OtherProviders /\ OtherAdmins /\ OtherReleases
  BY <1>5, AwayRests DEF PatchSettings, Served, adminVars, releaseVars, OtherProviders, OtherReleases, OtherAdmins
<1>6. ASSUME NEW a \in AdminIds,
             \/ \E password \in {"first", "second"} : LoginAdmin(a, password)
             \/ \E p \in AdminEdits : UpdateAdmin(a, p)
      PROVE  OtherProviders /\ OtherSettings /\ OtherReleases
  BY <1>6, AwayRests DEF LoginAdmin, UpdateAdmin, Served, releaseVars, OtherProviders, OtherSettings, OtherReleases
<1>7. ASSUME NEW p \in ProviderIds, SoftDeleteProvider(p)
      PROVE  OtherSettings /\ OtherAdmins /\ OtherReleases
  BY <1>7, AwayRests DEF SoftDeleteProvider, Served, adminVars, releaseVars, OtherSettings, OtherReleases, OtherAdmins
<1>8. ASSUME NEW c \in Channels, DeleteChannel(c)
      PROVE  OtherProviders /\ OtherSettings /\ OtherAdmins
  BY <1>8, AwayRests DEF DeleteChannel, Served, adminVars, OtherProviders, OtherSettings, OtherAdmins
<1>9. CASE \E w \in Workers : Staffing(w)
  BY <1>9, StaffApart
<1>10. CASE \E w \in Workers : Prompting(w)
  BY <1>10, PromptApart
<1>11. CASE \E w \in Workers : Publishing(w)
  BY <1>11, PublishApart
<1>12. CASE \E w \in Workers : GetSettings(w) \/ InsertDefaultSettings(w) \/ ConsoleAbort(w)
  BY <1>2, <1>4, <1>12
<1>13. CASE \E a \in AdminIds : \/ \E password \in {"first", "second"} : LoginAdmin(a, password)
                                \/ \E p \in AdminEdits : UpdateAdmin(a, p)
  BY <1>6, <1>13
<1>14. CASE \E p \in SettingBodies : PatchSettings(p)
  BY <1>5, <1>14
<1>15. CASE \E p \in ProviderIds : SoftDeleteProvider(p)
  BY <1>7, <1>15
<1>16. CASE \E c \in Channels : DeleteChannel(c)
  BY <1>8, <1>16
<1> QED
  BY <1>3, <1>9, <1>10, <1>11, <1>12, <1>13, <1>14, <1>15, <1>16 DEF ConsoleNext

-----------------------------------------------------------------------------
(* An e-mail has one admin, and who was removed by DELETE is in the log.   *)

EmailsUnique == \A a, b \in Existing(admins) : admins[a].email = admins[b].email => a = b
RemovedLogged == \A a \in Existing(admins) \ ActiveAdmins : unguarded \/ \E b \in AdminIds : <<b, a>> \in audit
TrailOK == audit \subseteq AdminIds \X AdminIds /\ sessions \subseteq AdminIds /\ EmailsUnique /\ RemovedLogged

LEMMA TrailRests ==
  ASSUME TrailOK, UNCHANGED <<admins, audit>>, sessions' \subseteq AdminIds, unguarded => unguarded'
  PROVE  TrailOK'
<1>1. Existing(admins)' = Existing(admins) /\ ActiveAdmins' = ActiveAdmins
  BY DEF Existing, ActiveAdmins
<1> QED
  BY <1>1 DEF TrailOK, EmailsUnique, RemovedLogged

\* The row of a is written under an e-mail nobody else has.
LEMMA TrailWritten ==
  ASSUME TrailOK, AdminsOK, NEW a \in AdminIds, NEW row \in AdminRow, admins' = [admins EXCEPT ![a] = row],
         \A b \in Existing(admins) \ {a} : admins[b].email # row.email,
         audit \subseteq audit', audit' \subseteq AdminIds \X AdminIds, UNCHANGED sessions,
         unguarded => unguarded',
         row.active \/ unguarded' \/ \E b \in AdminIds : <<b, a>> \in audit'
  PROVE  TrailOK'
<1>1. DOMAIN admins = AdminIds
  BY DEF AdminsOK
<1>2. admins'[a] = row /\ \A b \in AdminIds \ {a} : admins'[b] = admins[b]
  BY <1>1
<1>3. Existing(admins)' \subseteq Existing(admins) \cup {a}
  BY <1>1, <1>2 DEF Existing
<1>4. EmailsUnique'
  <2> SUFFICES ASSUME NEW b \in Existing(admins)', NEW c \in Existing(admins)', admins'[b].email = admins'[c].email
               PROVE  b = c
    BY DEF EmailsUnique
  <2>1. b \in AdminIds /\ c \in AdminIds
    BY <1>1 DEF Existing
  <2>2. CASE b = a \/ c = a
    BY <1>2, <1>3, <2>1, <2>2
  <2>3. CASE b # a /\ c # a
    BY <1>2, <1>3, <2>1, <2>3 DEF TrailOK, EmailsUnique
  <2> QED
    BY <2>2, <2>3
<1>5. RemovedLogged'
  <2> SUFFICES ASSUME NEW b \in Existing(admins)', ~admins'[b].active
               PROVE  unguarded' \/ \E c \in AdminIds : <<c, b>> \in audit'
    BY DEF RemovedLogged, ActiveAdmins
  <2>1. b \in AdminIds
    BY <1>1 DEF Existing
  <2>2. CASE b = a
    BY <1>2, <2>2
  <2>3. CASE b # a
    <3>1. b \in Existing(admins) \ ActiveAdmins
      BY <1>2, <1>3, <2>1, <2>3 DEF ActiveAdmins
    <3> QED
      BY <3>1 DEF TrailOK, RemovedLogged
  <2> QED
    BY <2>2, <2>3
<1> QED
  BY <1>4, <1>5 DEF TrailOK

LEMMA BesideAre ==
  ASSUME NEW a, NEW e, e \notin EmailsBeside(a)
  PROVE  \A b \in Existing(admins) \ {a} : admins[b].email # e
  BY DEF EmailsBeside

LEMMA TrailStep ==
  ASSUME TrailOK, AdminInv, [ConsoleNext]_<<servingVars, consoleVars>>
  PROVE  TrailOK'
<1>0. TasksOK /\ AdminsOK /\ admins \in [AdminIds -> AdminRow \cup {NoRow}] /\ NoRow \notin AdminRow
  BY ConsoleAssumption DEF AdminInv, AdminsOK
<1>1. CASE OtherAdmins
  BY <1>1, TrailRests DEF OtherAdmins, TrailOK
<1>2. ASSUME NEW w \in Workers, InsertAdmin(w) PROVE TrailOK'
  <2>1. CASE EmailExists(work[w].email)
    BY <1>2, <2>1, TrailRests DEF InsertAdmin, TrailOK
  <2>2. CASE ~EmailExists(work[w].email)
    <3>1. PICK a \in AdminIds \ Existing(admins) :
            admins' = [admins EXCEPT ![a] = [email |-> work[w].email, password |-> "first", active |-> TRUE]]
      BY <1>2, <2>2 DEF InsertAdmin
    <3> DEFINE row == [email |-> work[w].email, password |-> "first", active |-> TRUE]
    <3>2. work[w].email \in STRING
      BY <1>2 DEF InsertAdmin, At, AdminInv, StaffTask
    <3>3. row \in AdminRow /\ row.active /\ row.email = work[w].email
      BY <3>2 DEF AdminRow
    <3>4. \A b \in Existing(admins) \ {NoRow} : admins[b].email # row.email
      BY <2>2, <3>3, BesideAre DEF EmailExists
    <3>5. NoRow \notin Existing(admins)
      BY <1>0, ConsoleAssumption DEF Existing, AdminIds
    <3>6. UNCHANGED <<audit, sessions, unguarded>> /\ audit \subseteq AdminIds \X AdminIds
      BY <1>2 DEF InsertAdmin, TrailOK
    <3> HIDE DEF row
    <3> QED
      BY <1>0, <3>1, <3>3, <3>4, <3>5, <3>6, TrailWritten DEF row
  <2> QED
    BY <2>1, <2>2
<1>3. ASSUME NEW w \in Workers, SoftDeleteWithAudit(w) PROVE TrailOK'
  <2>1. work[w] \in Removal
    BY <1>3 DEF SoftDeleteWithAudit, At, AdminInv, StaffTask
  <2>2. CASE work[w].id \notin Existing(admins)
    BY <1>3, <2>2, TrailRests DEF SoftDeleteWithAudit, TrailOK
  <2>3. CASE work[w].id \in Existing(admins)
    <3> DEFINE t == work[w].id
               row == [admins[t] EXCEPT !.active = FALSE]
    <3>1. t \in AdminIds /\ admins[t] \in AdminRow /\ work[w].actor \in AdminIds
      BY <1>0, <2>1, <2>3 DEF Removal, Existing
    <3>2. /\ admins' = [admins EXCEPT ![t].active = FALSE]
          /\ audit' = audit \cup {<<work[w].actor, t>>} /\ UNCHANGED sessions
          /\ unguarded' = (unguarded \/ (t \in ActiveAdmins /\ ~work[w].counted))
      BY <1>3, <2>3 DEF SoftDeleteWithAudit
    <3>3. admins' = [admins EXCEPT ![t] = row]
      BY <1>0, <3>1, <3>2
    <3>4. row \in AdminRow /\ row.email = admins[t].email
      BY <3>1 DEF AdminRow
    <3>5. \A b \in Existing(admins) \ {t} : admins[b].email # row.email
      BY <2>3, <3>4 DEF TrailOK, EmailsUnique
    <3>6. /\ audit \subseteq audit' /\ audit' \subseteq AdminIds \X AdminIds
          /\ <<work[w].actor, t>> \in audit'
      <4> HIDE DEF t
      <4> QED
        BY <3>1, <3>2 DEF TrailOK
    <3>7. unguarded => unguarded'
      BY <3>2, Zenon
    <3> HIDE DEF row, t
    <3> QED
      BY <1>0, <3>1, <3>2, <3>3, <3>4, <3>5, <3>6, <3>7, TrailWritten
  <2> QED
    BY <2>2, <2>3
<1>4. ASSUME NEW w \in Workers, UpdatePasswordHash(w) PROVE TrailOK'
  <2> DEFINE a == work[w].id
             row == [admins[a] EXCEPT !.password = work[w].password]
  <2>1. a \in Existing(admins) /\ work[w].password \in {"first", "second"}
    BY <1>4 DEF UpdatePasswordHash, At, AdminInv, StaffTask
  <2>2. a \in AdminIds /\ admins[a] \in AdminRow
    BY <1>0, <2>1 DEF Existing
  <2>3. admins' = [admins EXCEPT ![a] = row] /\ UNCHANGED <<audit, sessions, unguarded>>
    BY <1>0, <1>4, <2>2 DEF UpdatePasswordHash
  <2>4. row \in AdminRow /\ row.email = admins[a].email /\ row.active = admins[a].active
    BY <2>1, <2>2 DEF AdminRow
  <2>5. \A b \in Existing(admins) \ {a} : admins[b].email # row.email
    BY <2>1, <2>4 DEF TrailOK, EmailsUnique
  <2>6. row.active \/ unguarded' \/ \E b \in AdminIds : <<b, a>> \in audit'
    BY <2>1, <2>3, <2>4 DEF TrailOK, RemovedLogged, ActiveAdmins
  <2>7. audit' \subseteq AdminIds \X AdminIds
    BY <2>3 DEF TrailOK
  <2> HIDE DEF row, a
  <2> QED
    BY <1>0, <2>2, <2>3, <2>4, <2>5, <2>6, <2>7, TrailWritten
<1>5. ASSUME NEW a \in AdminIds, NEW password, LoginAdmin(a, password) PROVE TrailOK'
  <2>1. UNCHANGED <<admins, audit, unguarded>> /\ sessions' \subseteq AdminIds
    BY <1>5 DEF LoginAdmin, TrailOK
  <2> QED
    BY <2>1, TrailRests
<1>6. ASSUME NEW a \in AdminIds, NEW p \in AdminEdits, UpdateAdmin(a, p) PROVE TrailOK'
  <2>1. CASE UNCHANGED <<admins, unguarded>>
    BY <1>6, <2>1, TrailRests DEF UpdateAdmin, TrailOK
  <2>2. CASE /\ a \in Existing(admins) /\ ("email" \in DOMAIN p => p.email \notin EmailsBeside(a))
             /\ admins' = [admins EXCEPT ![a] = Patched(@, p)]
             /\ unguarded' = (unguarded \/ ("active" \in DOMAIN p /\ ~p.active))
    <3> DEFINE row == Patched(admins[a], p)
    <3>1. admins[a] \in AdminRow
      BY <1>0, <2>2 DEF Existing
    <3>2. /\ row \in AdminRow
          /\ row.active = IF "active" \in DOMAIN p THEN p.active ELSE admins[a].active
      BY <3>1, PatchedRow
    <3>3. row.email = IF "email" \in DOMAIN p THEN p.email ELSE admins[a].email
      BY <3>1 DEF Patched, AdminRow
    <3>4. admins' = [admins EXCEPT ![a] = row] /\ UNCHANGED <<audit, sessions>>
      BY <1>6, <2>2 DEF UpdateAdmin
    <3> HIDE DEF row
    <3>5. \A b \in Existing(admins) \ {a} : admins[b].email # row.email
      <4>1. CASE "email" \in DOMAIN p
        BY <2>2, <3>3, <4>1, BesideAre
      <4>2. CASE "email" \notin DOMAIN p
        BY <2>2, <3>3, <4>2 DEF TrailOK, EmailsUnique
      <4> QED
        BY <4>1, <4>2
    <3>6. row.active \/ unguarded' \/ \E b \in AdminIds : <<b, a>> \in audit'
      BY <2>2, <3>2, <3>4 DEF TrailOK, RemovedLogged, ActiveAdmins
    <3>7. audit' \subseteq AdminIds \X AdminIds /\ (unguarded => unguarded')
      BY <2>2, <3>4 DEF TrailOK
    <3> QED
      BY <1>0, <3>2, <3>4, <3>5, <3>6, <3>7, TrailWritten
  <2> QED
    BY <1>6, <2>1, <2>2 DEF UpdateAdmin
<1> QED
  BY <1>0, <1>1, <1>2, <1>3, <1>4, <1>5, <1>6, ConsoleApart

LEMMA TrailInitially == ConsoleInit => TrailOK
<1> SUFFICES ASSUME ConsoleInit PROVE TrailOK
  OBVIOUS
<1>1. admins = Staff /\ audit = {} /\ sessions = {}
  BY DEF ConsoleInit
<1>2. EmailsUnique
  BY <1>1, RowsAssumption DEF EmailsUnique
<1>3. RemovedLogged
  BY <1>1, RowsAssumption DEF RemovedLogged, ActiveAdmins
<1> QED
  BY <1>1, <1>2, <1>3 DEF TrailOK

-----------------------------------------------------------------------------
(* A secret is never the mask; one provider is the default at most, unless *)
(* two promotions overlapped: whoever is about to promote one, alone, has  *)
(* demoted all others.                                                     *)

SecretsOK ==
  /\ \A p \in Existing(providers) : providers[p].key # "masked"
  /\ \A w \in Workers : work[w].pc \in ProviderPcs /\ "key" \in DOMAIN work[w].body => work[w].body.key # "masked"

OneDefault ==
  /\ rivals \in BOOLEAN
  /\ ~rivals => /\ \A v, w \in Workers : Writing(v) /\ Writing(w) => v = w
                /\ \A p, q \in Defaults : p = q
                /\ \A w \in Workers : Writing(w) => Defaults = {}

LEMMA ProvidersRest ==
  ASSUME SecretsOK, OneDefault, OtherProviders
  PROVE  SecretsOK' /\ OneDefault'
<1>1. /\ UNCHANGED <<providers, rivals>>
      /\ \A v \in Workers : work'[v].pc \in ProviderPcs => work'[v] = work[v]
  BY DEF OtherProviders, providerVars, Away
<1>2. \A v \in Workers : Writing(v)' => Writing(v)
  BY <1>1 DEF Writing, ProviderPcs
<1>3. Defaults' = Defaults
  BY <1>1 DEF Defaults, Existing
<1> QED
  BY <1>1, <1>2, <1>3 DEF SecretsOK, OneDefault, Existing

LEMMA SaveSecret ==
  ASSUME SecretsOK, OneDefault, TasksOK, NEW w \in Workers, NEW p, NEW b \in ProviderBodies, SaveProvider(w, p, b)
  PROVE  SecretsOK' /\ OneDefault'
<1> DEFINE body == Unmasked(b)
           t == [pc |-> IF Promotes(b) THEN "demote" ELSE "provider", id |-> p, body |-> body]
<1>1. UNCHANGED <<providers, rivals>> /\ Takes(w, t)
  BY DEF SaveProvider, Begin, Takes, consoleVars, providerVars
<1>2. /\ "key" \in DOMAIN body => body.key # "masked"
      /\ Promotes(body) = Promotes(b)
  BY DEF Unmasked, Promotes
<1> HIDE DEF body
<1>3. "pc" \in DOMAIN t /\ t.body = body /\ (t.pc = "provider" => ~Promotes(body))
  BY <1>2
<1> HIDE DEF t
<1>4. work'[w] = t /\ \A v \in Workers \ {w} : work'[v] = work[v]
  BY <1>1, <1>3, TakesGives
<1>5. SecretsOK'
  BY <1>1, <1>2, <1>3, <1>4 DEF SecretsOK, Existing
<1>6. \A v \in Workers : Writing(v)' => Writing(v)
  BY <1>3, <1>4 DEF Writing
<1>7. Defaults' = Defaults
  BY <1>1 DEF Defaults, Existing
<1> QED
  BY <1>1, <1>5, <1>6, <1>7 DEF OneDefault

LEMMA DemoteAlone ==
  ASSUME SecretsOK, OneDefault, FailoverInv, NEW w \in Workers, DemoteDefaults(w)
  PROVE  SecretsOK' /\ OneDefault'
<1> DEFINE t == [work[w] EXCEPT !.pc = "provider"]
<1>1. /\ work[w].pc = "demote" /\ Takes(w, t) /\ providers' = Demoted(providers)
      /\ rivals' = \E x \in Workers \ {w} : Writing(x)
      /\ providers \in [ProviderIds -> ProviderRow \cup {NoRow}] /\ TasksOK
  BY DEF DemoteDefaults, At, Goto, Takes, FailoverInv, OfferOK
<1>2. {"pc", "id", "body"} \subseteq DOMAIN work[w]
  BY <1>1 DEF FailoverInv, ConsoleTask, TasksOK
<1>3. "pc" \in DOMAIN t /\ t.body = work[w].body
  BY <1>2
<1> HIDE DEF t
<1>4. work'[w] = t /\ \A v \in Workers \ {w} : work'[v] = work[v]
  BY <1>1, <1>3, TakesGives
<1>5. ASSUME NEW p \in Existing(providers')
      PROVE  p \in Existing(providers) /\ ~providers'[p].dflt /\ providers'[p].key = providers[p].key
  <2>1. p \in ProviderIds /\ providers'[p] # NoRow
    BY <1>1, <1>5 DEF Existing, Demoted
  <2>2. p \in Existing(providers) /\ providers'[p] = [providers[p] EXCEPT !.dflt = FALSE]
    BY <1>1, <2>1 DEF Demoted
  <2>3. providers[p] \in ProviderRow
    BY <1>1, <2>2 DEF Existing
  <2> QED
    BY <2>2, <2>3 DEF ProviderRow
<1>6. SecretsOK'
  BY <1>1, <1>3, <1>4, <1>5 DEF SecretsOK, ProviderPcs
<1>7. Defaults' = {}
  BY <1>5 DEF Defaults
<1>8. \A v \in Workers \ {w} : Writing(v)' => Writing(v)
  BY <1>4 DEF Writing
<1> QED
  BY <1>1, <1>6, <1>7, <1>8 DEF OneDefault

LEMMA WriteAlone ==
  ASSUME SecretsOK, OneDefault, FailoverInv, NEW w \in Workers, WriteProvider(w)
  PROVE  SecretsOK' /\ OneDefault'
<1> DEFINE fresh == [dflt |-> FALSE, active |-> TRUE, key |-> ""]
           b == work[w].body
<1>1. /\ work[w].pc = "provider" /\ Takes(w, Idle) /\ UNCHANGED rivals /\ TasksOK
      /\ providers \in [ProviderIds -> ProviderRow \cup {NoRow}]
  BY DEF WriteProvider, At, Finish, Goto, Takes, FailoverInv, OfferOK
<1> DEFINE Read(p, old) == old = fresh \/ (p \in Existing(providers) /\ old = providers[p])
           Wrote(p, old) == UNCHANGED providers \/ providers' = [providers EXCEPT ![p] = Patched(old, b)]
<1>2. PICK p \in ProviderIds : \E old : Read(p, old) /\ Wrote(p, old)
  <2>1. CASE work[w].id = NoRow
    <3>1. PICK p \in ProviderIds : providers' = [providers EXCEPT ![p] = Patched(fresh, b)]
      BY <2>1 DEF WriteProvider
    <3>2. Read(p, fresh) /\ Wrote(p, fresh)
      BY <3>1
    <3> QED
      BY <3>2, Zenon
  <2>2. CASE work[w].id # NoRow
    <3>1. PICK p \in ProviderIds :
            providers' = IF p \in Existing(providers) THEN [providers EXCEPT ![p] = Patched(providers[p], b)]
                         ELSE providers
      BY <2>2 DEF WriteProvider
    <3>2. CASE p \in Existing(providers)
      <4>1. Read(p, providers[p]) /\ Wrote(p, providers[p])
        BY <3>1, <3>2
      <4> QED
        BY <4>1, Zenon
    <3>3. CASE p \notin Existing(providers)
      <4>1. Read(p, fresh) /\ Wrote(p, fresh)
        BY <3>1, <3>3
      <4> QED
        BY <4>1, Zenon
    <3> QED
      BY <3>2, <3>3
  <2> QED
    BY <2>1, <2>2
<1>20. PICK old : Read(p, old) /\ Wrote(p, old)
  BY <1>2, Zenon
<1>3. /\ "dflt" \in DOMAIN old /\ "key" \in DOMAIN old /\ old.key # "masked"
      /\ old.dflt => p \in Defaults
  <2>1. CASE old = fresh
    BY <2>1
  <2>2. CASE p \in Existing(providers) /\ old = providers[p]
    <3>1. providers[p] \in ProviderRow
      BY <1>1, <2>2 DEF Existing
    <3> QED
      BY <2>2, <3>1 DEF ProviderRow, SecretsOK, Defaults
  <2> QED
    BY <1>20, <2>1, <2>2
<1> HIDE DEF fresh
<1>4. work'[w].pc = "idle" /\ \A v \in Workers \ {w} : work'[v] = work[v]
  BY <1>1, TakesGives, IdlePc
<1>5. "key" \in DOMAIN b => b.key # "masked"
  BY <1>1 DEF SecretsOK, ProviderPcs
<1> DEFINE new == Patched(old, b)
<1>6. new.key # "masked" /\ (new.dflt => Writing(w) \/ p \in Defaults)
  BY <1>1, <1>3, <1>5 DEF Patched, Writing, Promotes
<1> HIDE DEF new
<1>7. ASSUME NEW q \in Existing(providers')
      PROVE  (q \in Existing(providers) /\ providers'[q] = providers[q]) \/ (q = p /\ providers'[q] = new)
  BY <1>1, <1>20, <1>7 DEF Existing, new
<1>8. SecretsOK'
  BY <1>4, <1>6, <1>7 DEF SecretsOK, ProviderPcs
<1>9. \A q \in Defaults' : q \in Defaults \/ (q = p /\ Writing(w))
  BY <1>6, <1>7 DEF Defaults
<1>10. \A v \in Workers : Writing(v)' => Writing(v) /\ v # w
  BY <1>4 DEF Writing
<1>11. ASSUME ~rivals'
       PROVE  /\ \A v, x \in Workers : Writing(v)' /\ Writing(x)' => v = x
              /\ \A q, r \in Defaults' : q = r
              /\ \A v \in Workers : Writing(v)' => Defaults' = {}
  <2>1. /\ \A v, x \in Workers : Writing(v) /\ Writing(x) => v = x
        /\ \A q, r \in Defaults : q = r
        /\ \A v \in Workers : Writing(v) => Defaults = {}
    BY <1>1, <1>11 DEF OneDefault
  <2>2. CASE Writing(w)
    BY <1>9, <1>10, <2>1, <2>2
  <2>3. CASE ~Writing(w)
    BY <1>9, <1>10, <2>1, <2>3
  <2> QED
    BY <2>2, <2>3
<1> QED
  BY <1>1, <1>8, <1>11 DEF OneDefault

LEMMA SoftDeleteAlone ==
  ASSUME SecretsOK, OneDefault, FailoverInv, NEW p \in ProviderIds, SoftDeleteProvider(p)
  PROVE  SecretsOK' /\ OneDefault'
<1> DEFINE row == [[providers[p] EXCEPT !.dflt = FALSE] EXCEPT !.active = FALSE]
<1>1. /\ UNCHANGED <<work, rivals>> /\ p \in Existing(providers)
      /\ providers \in [ProviderIds -> ProviderRow \cup {NoRow}]
      /\ providers' = [providers EXCEPT ![p].dflt = FALSE, ![p].active = FALSE]
  BY DEF SoftDeleteProvider, Served, FailoverInv, OfferOK
<1>2. providers[p] \in ProviderRow
  BY <1>1 DEF Existing
<1>3. row.key = providers[p].key /\ ~row.dflt
  BY <1>2 DEF ProviderRow
<1>4. providers' = [providers EXCEPT ![p] = row]
  BY <1>1
<1> HIDE DEF row
<1>5. \A q \in Existing(providers') : /\ q \in Existing(providers)
                                      /\ providers'[q] = providers[q] \/ (q = p /\ providers'[q] = row)
  BY <1>1, <1>4 DEF Existing
<1>6. SecretsOK'
  BY <1>1, <1>3, <1>5 DEF SecretsOK
<1>7. Defaults' \subseteq Defaults
  BY <1>3, <1>5 DEF Defaults
<1>8. \A v \in Workers : Writing(v)' => Writing(v)
  BY <1>1 DEF Writing
<1> QED
  BY <1>1, <1>6, <1>7, <1>8 DEF OneDefault

LEMMA ProvidersStep ==
  ASSUME SecretsOK, OneDefault, FailoverInv, [ConsoleNext]_<<servingVars, consoleVars>>
  PROVE  SecretsOK' /\ OneDefault'
<1>1. TasksOK
  BY DEF FailoverInv
<1> QED
  BY <1>1, ConsoleApart, ProvidersRest, SaveSecret, DemoteAlone, WriteAlone, SoftDeleteAlone

LEMMA ProvidersInitially == ServingInit /\ ConsoleInit => SecretsOK /\ OneDefault
<1> SUFFICES ASSUME ServingInit, ConsoleInit PROVE SecretsOK /\ OneDefault
  OBVIOUS
<1>1. \A w \in Workers : work[w].pc = "idle"
  BY TasksInitially
<1> QED
  BY <1>1, RowsAssumption DEF ConsoleInit, SecretsOK, OneDefault, ProviderPcs, Defaults, Writing, Existing

-----------------------------------------------------------------------------
(* While there is one settings row it holds what was asked for last; the   *)
(* hash of a release is that of its version, or none.                      *)

SettingsRow == [key : STRING \cup {""}, methods : STRING \cup {"default"}]

SettingsOK ==
  /\ settings \in Seq(SettingsRow)
  /\ Len(settings) = 0 => wanted = ""
  /\ Len(settings) = 1 => settings[1].key = wanted /\ settings[1].methods # "unknown"

LEMMA SettingAppended ==
  ASSUME NEW S, NEW s \in Seq(S), NEW x \in S
  PROVE  Append(s, x) \in Seq(S) /\ Len(s) \in Nat /\ Len(Append(s, x)) = Len(s) + 1 /\ Append(s, x)[Len(s) + 1] = x
  OBVIOUS

LEMMA FirstSetting ==
  ASSUME NEW S, NEW s \in Seq(S), s # <<>>
  PROVE  Head(s) \in S /\ Head(s) = s[1] /\ Tail(s) \in Seq(S) /\ Len(Tail(s)) = Len(s) - 1 /\ Len(s) \in Nat \ {0}
  OBVIOUS

LEMMA SettingAdded ==
  ASSUME SettingsOK, NEW w \in Workers, InsertDefaultSettings(w)
  PROVE  SettingsOK'
<1> DEFINE row == [key |-> "", methods |-> "default"]
<1>1. settings' = Append(settings, row) /\ UNCHANGED wanted
  BY DEF InsertDefaultSettings
<1>2. row \in SettingsRow /\ row.key = "" /\ row.methods # "unknown"
  BY DEF SettingsRow
<1> HIDE DEF row
<1>3. /\ settings' \in Seq(SettingsRow) /\ Len(settings') = Len(settings) + 1 /\ Len(settings) \in Nat
      /\ settings'[Len(settings) + 1] = row
  BY <1>1, <1>2, SettingAppended DEF SettingsOK
<1>4. CASE Len(settings) = 0
  <2>1. wanted' = ""
    BY <1>1, <1>4 DEF SettingsOK
  <2>2. Len(settings') = 1 /\ settings'[1] = row
    BY <1>3, <1>4
  <2> QED
    BY <1>2, <1>3, <2>1, <2>2 DEF SettingsOK
<1>5. CASE Len(settings) # 0
  <2>1. Len(settings') # 1 /\ Len(settings') # 0
    BY <1>3, <1>5
  <2> QED
    BY <1>3, <2>1 DEF SettingsOK
<1> QED
  BY <1>4, <1>5

LEMMA SettingPatched ==
  ASSUME SettingsOK, NEW p \in SettingBodies, PatchSettings(p)
  PROVE  SettingsOK'
<1>1. CASE UNCHANGED <<settings, wanted>>
  BY <1>1 DEF SettingsOK
<1>2. CASE /\ settings # <<>> /\ ~("methods" \in DOMAIN p /\ p.methods = "unknown")
           /\ settings' = Append(Tail(settings), Patched(Head(settings), Unmasked(p)))
           /\ wanted' = IF "key" \in DOMAIN p /\ p.key # "masked" THEN p.key ELSE wanted
  <2> DEFINE b == Unmasked(p)
             old == Head(settings)
             row == Patched(old, b)
  <2>1. old \in SettingsRow /\ old = settings[1]
    BY <1>2, FirstSetting DEF SettingsOK
  <2>2. /\ "key" \in DOMAIN b <=> "key" \in DOMAIN p /\ p.key # "masked"
        /\ "key" \in DOMAIN b => b.key = p.key
        /\ "methods" \in DOMAIN b <=> "methods" \in DOMAIN p
        /\ "methods" \in DOMAIN b => b.methods = p.methods
    BY DEF Unmasked
  <2>3. \A c \in {"key", "methods"} : c \in DOMAIN p => p[c] \in STRING
    BY ConsoleAssumption
  <2> HIDE DEF b, old
  <2>4. /\ row = [c \in {"key", "methods"} |-> IF c \in DOMAIN b THEN b[c] ELSE old[c]]
        /\ old.key \in STRING \cup {""} /\ old.methods \in STRING \cup {"default"}
    BY <2>1 DEF Patched, SettingsRow
  <2>5. /\ row.key = IF "key" \in DOMAIN b THEN p.key ELSE old.key
        /\ row.methods = IF "methods" \in DOMAIN b THEN p.methods ELSE old.methods
        /\ row = [key |-> row.key, methods |-> row.methods]
    BY <2>2, <2>4
  <2> HIDE DEF row
  <2>6. row.key \in STRING \cup {""} /\ row.methods \in STRING \cup {"default"}
    BY <2>2, <2>3, <2>4, <2>5
  <2>7. row \in SettingsRow
    BY <2>5, <2>6 DEF SettingsRow
  <2>8. /\ settings' \in Seq(SettingsRow) /\ Len(settings') = Len(settings) /\ Len(settings) \in Nat \ {0}
        /\ settings'[Len(settings)] = row
    <3>1. settings' = Append(Tail(settings), row)
      BY <1>2 DEF row, b, old
    <3>2. Tail(settings) \in Seq(SettingsRow) /\ Len(Tail(settings)) = Len(settings) - 1 /\ Len(settings) \in Nat \ {0}
      BY <1>2, FirstSetting DEF SettingsOK
    <3>3. /\ settings' \in Seq(SettingsRow) /\ Len(settings') = Len(Tail(settings)) + 1
          /\ settings'[Len(Tail(settings)) + 1] = row
      BY <2>7, <3>1, <3>2, SettingAppended
    <3> QED
      BY <3>2, <3>3
  <2>9. CASE Len(settings) = 1
    <3>1. row.key = wanted' /\ row.methods # "unknown"
      BY <1>2, <2>1, <2>2, <2>5, <2>9 DEF SettingsOK
    <3> QED
      BY <2>8, <2>9, <3>1 DEF SettingsOK
  <2> QED
    BY <2>8, <2>9 DEF SettingsOK
<1> QED
  BY <1>1, <1>2 DEF PatchSettings

ReleasesOK ==
  /\ \A c \in Existing(releases) : releases[c].sha \in {"", releases[c].version}
  /\ \A w \in Workers : work[w].pc = "save" => work[w].row.sha \in {"", work[w].row.version}

LEMMA ReleasesKept ==
  ASSUME ReleasesOK, UNCHANGED releases, Away({"save"})
  PROVE  ReleasesOK'
<1>1. \A v \in Workers : work'[v].pc = "save" => work'[v] = work[v]
  BY DEF Away
<1> QED
  BY <1>1 DEF ReleasesOK, Existing

LEMMA ReleaseMerged ==
  ASSUME ReleasesOK, TasksOK, NEW w \in Workers, NEW c, NEW b \in ReleaseBodies, UpsertChannel(w, c, b)
  PROVE  ReleasesOK'
<1> DEFINE row == MergedRelease(releases[c], b)
           t == [pc |-> "save", channel |-> c, new |-> releases[c] = NoRow, row |-> row]
<1>1. Takes(w, t) /\ UNCHANGED releases
  BY DEF UpsertChannel, Begin, Takes, consoleVars, releaseVars
<1>2. row.sha \in {"", row.version}
  BY RowsAssumption DEF MergedRelease
<1> HIDE DEF row
<1>3. "pc" \in DOMAIN t /\ t.row = row
  OBVIOUS
<1> HIDE DEF t
<1>4. work'[w] = t /\ \A v \in Workers \ {w} : work'[v] = work[v]
  BY <1>1, <1>3, TakesGives
<1> QED
  BY <1>1, <1>2, <1>3, <1>4 DEF ReleasesOK, Existing

LEMMA ReleaseSaved ==
  ASSUME ReleasesOK, TasksOK, NEW w \in Workers, SaveRelease(w)
  PROVE  ReleasesOK'
<1>1. /\ work[w].pc = "save" /\ Takes(w, Idle)
      /\ UNCHANGED releases \/ releases' = [releases EXCEPT ![work[w].channel] = work[w].row]
  BY DEF SaveRelease, At, Finish, Goto, Takes
<1>2. Away({"save"})
  BY <1>1, AwayIdle
<1>3. CASE UNCHANGED releases
  BY <1>2, <1>3, ReleasesKept
<1>4. CASE releases' = [releases EXCEPT ![work[w].channel] = work[w].row]
  <2>1. \A c \in Existing(releases') : (c \in Existing(releases) /\ releases'[c] = releases[c])
                                       \/ releases'[c] = work[w].row
    BY <1>4 DEF Existing
  <2>2. \A v \in Workers : work'[v].pc = "save" => work'[v] = work[v]
    BY <1>2 DEF Away
  <2> QED
    BY <1>1, <2>1, <2>2 DEF ReleasesOK
<1> QED
  BY <1>1, <1>3, <1>4

LEMMA SettingsReleasesStep ==
  ASSUME SettingsOK, ReleasesOK, TasksOK, [ConsoleNext]_<<servingVars, consoleVars>>
  PROVE  SettingsOK' /\ ReleasesOK'
<1>1. SettingsOK'
  <2>1. CASE OtherSettings
    BY <2>1 DEF OtherSettings, settingVars, SettingsOK
  <2> QED
    BY <2>1, ConsoleApart, SettingAdded, SettingPatched
<1>2. ReleasesOK'
  <2>1. CASE OtherReleases
    BY <2>1, ReleasesKept DEF OtherReleases
  <2>2. ASSUME NEW w \in Workers, SavePolicy(w) PROVE ReleasesOK'
    BY <2>2, AwayIdle, ReleasesKept DEF SavePolicy, Finish, Goto, Takes
  <2>3. ASSUME NEW c \in Channels, DeleteChannel(c) PROVE ReleasesOK'
    <3>1. UNCHANGED work /\ releases' = [releases EXCEPT ![c] = NoRow]
      BY <2>3 DEF DeleteChannel, Served
    <3>2. \A d \in Existing(releases') : d \in Existing(releases) /\ releases'[d] = releases[d]
      BY <3>1 DEF Existing
    <3> QED
      BY <3>1, <3>2 DEF ReleasesOK
  <2> QED
    BY <2>1, <2>2, <2>3, ConsoleApart, ReleaseMerged, ReleaseSaved
<1> QED
  BY <1>1, <1>2

LEMMA SettingsReleasesInitially == ServingInit /\ ConsoleInit => SettingsOK /\ ReleasesOK
<1> SUFFICES ASSUME ServingInit, ConsoleInit PROVE SettingsOK /\ ReleasesOK
  OBVIOUS
<1>1. \A w \in Workers : work[w].pc = "idle"
  BY TasksInitially
<1>2. SettingsOK
  <2>1. settings = <<>> /\ wanted = ""
    BY DEF ConsoleInit
  <2>2. settings \in Seq(SettingsRow) /\ Len(settings) = 0
    <3>1. ASSUME NEW S PROVE <<>> \in Seq(S) /\ Len(<<>>) = 0
      OBVIOUS
    <3> QED
      BY <2>1, <3>1
  <2>3. Len(settings) # 1
    BY <2>2
  <2> QED
    BY <2>1, <2>2, <2>3 DEF SettingsOK
<1>3. releases = Releases
  BY DEF ConsoleInit
<1>4. \A c \in Existing(Releases) : Releases[c].sha \in {"", Releases[c].version}
  BY RowsAssumption
<1> QED
  BY <1>1, <1>2, <1>3, <1>4 DEF ReleasesOK

\* What the parts of the console keep between them.
ConsoleInv == AdminInv /\ FailoverInv /\ TrailOK /\ SecretsOK /\ OneDefault /\ SettingsOK /\ ReleasesOK

LEMMA ConsoleInitially == SomeAdmin /\ ServingInit /\ ConsoleInit => ConsoleInv
  BY AdminInitially, FailoverInitially, TrailInitially, ProvidersInitially, SettingsReleasesInitially DEF ConsoleInv

LEMMA ConsoleStep == ConsoleInv /\ [ConsoleNext]_<<servingVars, consoleVars>> => ConsoleInv'
<1>1. FailoverInv => TasksOK
  BY DEF FailoverInv
<1> QED
  BY <1>1, AdminStep, FailoverStep, TrailStep, ProvidersStep, SettingsReleasesStep DEF ConsoleInv

LEMMA ConsoleInvTyped == ConsoleInv => ConsoleTypeOK
<1> SUFFICES ASSUME ConsoleInv PROVE ConsoleTypeOK
  OBVIOUS
<1>1. unguarded \in BOOLEAN /\ rivals \in BOOLEAN /\ policy \in Channels \cup {NoRow}
  BY DEF ConsoleInv, AdminInv, AdminsOK, OneDefault, FailoverInv, OfferOK
<1>2. rivals \/ Cardinality(Defaults) <= 1
  <2>1. CASE Defaults = {}
    BY <2>1, FS_EmptySet
  <2>2. CASE ~rivals /\ Defaults # {}
    <3>1. PICK p \in Defaults : Defaults = {p}
      BY <2>2 DEF ConsoleInv, OneDefault
    <3>2. Cardinality({p}) = 1
      BY FS_Singleton
    <3> QED
      BY <3>1, <3>2
  <2> QED
    BY <2>1, <2>2
<1>3. Len(settings) = 1 => settings[1].key = wanted /\ settings[1].methods # "unknown"
  BY DEF ConsoleInv, SettingsOK
<1>4. {unguarded, rivals} \subseteq BOOLEAN
  BY <1>1
<1> QED
  BY <1>1, <1>2, <1>3, <1>4, Zenon
  DEF ConsoleInv, TrailOK, EmailsUnique, RemovedLogged, SecretsOK, ReleasesOK, ConsoleTypeOK

\* However requests about admins, providers, settings and releases overlap and
\* are cut short: e-mails stay unique and a removal is in the audit log with its
\* actor (InsertAdmin, SoftDeleteWithAudit), a mask sent back is never stored
\* (isMasked), one settings row holds what was asked for last, a hash belongs to
\* its version, and there is one default provider unless two promotions
\* overlapped (Create and Update of aiprovider).
THEOREM ConsoleTyped == SomeAdmin /\ ConsoleSpec => []ConsoleTypeOK
  BY ConsoleInitially, ConsoleStep, ConsoleInvTyped, PTL DEF ConsoleSpec

-----------------------------------------------------------------------------
(***************************************************************************)
(* The board.  VoteCountExact rests on what the toggles of a feature know  *)
(* of each other: a toggle that ran alone so far is the only one, and the  *)
(* number it is about to write is the number of votes.  ClosedStaysClosed  *)
(* rests on what a request at work on a closed bug has read: that it is    *)
(* closed, or else the request names a status itself.                      *)
(***************************************************************************)
RowFields == {"kind", "count", "status", "author"}
VotePcs   == {"seek", "cast", "withdraw", "tally", "write"}

BoardOK ==
  /\ reports = [r \in ReportIds |-> reports[r]] /\ lastReport \in Nat
  /\ \A r \in Existing(reports) : r <= lastReport /\ RowFields \subseteq DOMAIN reports[r]
  /\ \A v \in votes : v[1] \in 1..lastReport

\* What a request about a report carries.
ReportTask(w) ==
  /\ work[w].pc \in {"resolve", "store"} =>
       "row" \in DOMAIN work[w] /\ RowFields \subseteq DOMAIN work[w].row /\ work[w].row.count = 0
  /\ work[w].pc \in VotePcs =>
       {"f", "solo", "n"} \subseteq DOMAIN work[w] /\ work[w].f \in 1..lastReport
       /\ work[w].solo \in BOOLEAN
  /\ work[w].pc = "patch" => DOMAIN work[w].columns = Columns

SoloOnly ==
  \A w \in Workers, f \in ReportIds : Voting(w, f) /\ work[w].solo =>
    /\ \A x \in Workers \ {w} : ~Voting(x, f)
    /\ work[w].pc = "write" /\ f \in Existing(reports) => work[w].n = Cardinality(VotesOf(f))

\* Its vote is not in yet, or not out.
Undecided(w) == work[w].pc \in {"seek", "cast", "withdraw"}

CleanCounts ==
  \A f \in Features \ dirty :
    /\ \A w \in Workers : Voting(w, f) => work[w].solo
    /\ (\A w \in Workers : Voting(w, f) => Undecided(w)) =>
         reports[f].count = Cardinality(VotesOf(f))

\* What request w is about to write over a closed bug.
Upheld(w) ==
  work[w].pc \in {"patch", "ask"} /\ work[w].id \in settled =>
    /\ work[w].pc = "patch" /\ "status" \notin work[w].named => work[w].columns.status \in Closed
    /\ work[w].pc = "ask" /\ work[w].kind = "bug" => work[w].status \in Closed

SettledOK ==
  \A r \in settled : /\ r \in ReportIds /\ r <= lastReport
                     /\ "status" \in DOMAIN reports[r] /\ reports[r].status \in Closed

BoardInv ==
  /\ TasksOK /\ BoardOK /\ (\A w \in Workers : ReportTask(w))
  /\ SoloOnly /\ CleanCounts
  /\ SettledOK /\ (\A w \in Workers : Upheld(w))

\* Nobody votes, and no count is touched.
LEMMA CountsKept ==
  ASSUME SoloOnly, CleanCounts, UNCHANGED votes, dirty \subseteq dirty',
         \A f \in Existing(reports)' : f \in Existing(reports)
            /\ reports'[f].kind = reports[f].kind /\ reports'[f].count = reports[f].count,
         \A w \in Workers : work'[w] = work[w]
            \/ (work[w].pc \notin VotePcs /\ work'[w].pc \notin VotePcs)
  PROVE  SoloOnly' /\ CleanCounts'
<1>1. \A f : VotesOf(f)' = VotesOf(f)
  BY DEF VotesOf
<1>2. \A w \in Workers : \A f : Voting(w, f)' => Voting(w, f) /\ work'[w] = work[w]
  BY DEF Voting, VotePcs
<1>3. \A w \in Workers : \A f : Voting(w, f) => Voting(w, f)' /\ work'[w] = work[w]
  BY DEF Voting, VotePcs
<1>4. SoloOnly'
  BY <1>1, <1>2 DEF SoloOnly
<1>5. ASSUME NEW f \in Features' \ dirty'
      PROVE  /\ \A w \in Workers : Voting(w, f)' => work'[w].solo
             /\ (\A w \in Workers : Voting(w, f)' => Undecided(w)') =>
                  reports'[f].count = Cardinality(VotesOf(f)')
  <2>1. f \in Features \ dirty /\ reports'[f].count = reports[f].count
    BY DEF Features, Existing
  <2> QED
    BY <1>1, <1>2, <1>3, <2>1 DEF CleanCounts, Undecided
<1> QED
  BY <1>4, <1>5 DEF CleanCounts

\* Nobody is at work on a closed bug who was not, and it stays closed.
LEMMA SettledKept ==
  ASSUME SettledOK, \A w \in Workers : Upheld(w), settled' \subseteq settled,
         lastReport \in Nat, lastReport' \in Nat, lastReport <= lastReport',
         \A r \in settled' : /\ "status" \in DOMAIN reports'[r]
                             /\ reports'[r].status \in {reports[r].status} \cup Closed,
         \A w \in Workers : work'[w] = work[w] \/ Upheld(w)'
  PROVE  SettledOK' /\ \A w \in Workers : Upheld(w)'
<1>1. SettledOK'
  BY DEF SettledOK, ReportIds
<1>2. \A w \in Workers : Upheld(w)'
  BY DEF Upheld
<1> QED
  BY <1>1, <1>2

\* The tables stay; a worker that is not at a vote goes on to something else.
LEMMA Aside ==
  ASSUME BoardInv, UNCHANGED <<reports, votes, lastReport, settled>>, dirty \subseteq dirty', TasksOK',
         \A w \in Workers : work'[w] = work[w]
            \/ (work[w].pc \notin VotePcs /\ work'[w].pc \notin VotePcs /\ ReportTask(w)' /\ Upheld(w)')
  PROVE  BoardInv'
<1>1. BoardOK' /\ Existing(reports)' = Existing(reports)
  BY DEF BoardInv, BoardOK, Existing
<1>2. \A w \in Workers : ReportTask(w)'
  BY DEF BoardInv, ReportTask
<1>3. SoloOnly' /\ CleanCounts'
  BY <1>1, CountsKept DEF BoardInv
<1>4. SettledOK' /\ \A w \in Workers : Upheld(w)'
  BY SettledKept DEF BoardInv, BoardOK, SettledOK
<1> QED
  BY <1>1, <1>2, <1>3, <1>4 DEF BoardInv

\* Worker w goes on with t.
LEMMA GoesAside ==
  ASSUME BoardInv, UNCHANGED <<reports, votes, lastReport, dirty, settled>>,
         NEW w \in Workers, work[w].pc \notin VotePcs, NEW t, Takes(w, t), "pc" \in DOMAIN t,
         t.pc \notin VotePcs,
         t.pc \in {"resolve", "store"} =>
           "row" \in DOMAIN t /\ RowFields \subseteq DOMAIN t.row /\ t.row.count = 0,
         t.pc = "patch" => DOMAIN t.columns = Columns,
         t.pc = "patch" /\ t.id \in settled /\ "status" \notin t.named => t.columns.status \in Closed,
         t.pc = "ask" /\ t.kind = "bug" /\ t.id \in settled => t.status \in Closed
  PROVE  BoardInv'
<1>1. TasksOK' /\ work'[w] = t /\ \A v \in Workers \ {w} : work'[v] = work[v]
  BY TakesGives DEF BoardInv
<1>2. ReportTask(w)' /\ Upheld(w)'
  BY <1>1 DEF ReportTask, Upheld
<1> QED
  BY <1>1, <1>2, Aside

\* It waits for the next request, or for the next of its list.
LEMMA Rests ==
  ASSUME BoardInv, UNCHANGED <<reports, votes, lastReport, dirty, settled>>,
         NEW w \in Workers, work[w].pc \notin VotePcs, NEW t, Takes(w, t), "pc" \in DOMAIN t,
         t.pc \notin VotePcs \cup {"resolve", "store", "patch", "ask"}
  PROVE  BoardInv'
  BY GoesAside

-----------------------------------------------------------------------------
(***************************************************************************)
(* Toggles.                                                                *)
(***************************************************************************)

\* One step of a toggle, which remains one.
LEMMA BallotGoesOn ==
  ASSUME BoardInv, UNCHANGED <<reports, lastReport, dirty, settled>>,
         NEW w \in Workers, work[w].pc \in VotePcs, NEW t, Takes(w, t),
         {"pc", "f", "solo", "n"} \subseteq DOMAIN t,
         t.pc \in VotePcs, t.f = work[w].f, t.solo = work[w].solo,
         \A v \in votes' : v[1] \in 1..lastReport,
         \A f : f # t.f => VotesOf(f)' = VotesOf(f),
         t.pc = "write" => t.n = Cardinality(VotesOf(t.f)) /\ UNCHANGED votes,
         t.pc \in {"seek", "cast", "withdraw"} => Undecided(w) /\ UNCHANGED votes
  PROVE  BoardInv'
<1>1. TasksOK' /\ work'[w] = t /\ \A v \in Workers \ {w} : work'[v] = work[v]
  BY TakesGives DEF BoardInv
<1>2. BoardOK'
  BY DEF BoardInv, BoardOK, Existing
<1>3. t.f \in 1..lastReport /\ t.solo \in BOOLEAN
  BY DEF BoardInv, ReportTask
<1>4. \A x \in Workers : ReportTask(x)'
  BY <1>1, <1>3 DEF BoardInv, ReportTask, VotePcs
<1>5. \A x \in Workers : \A f : Voting(x, f)' <=> Voting(x, f)
  BY <1>1 DEF Voting, VotePcs
<1>6. \A x \in Workers : \A f : Voting(x, f) => work'[x].solo = work[x].solo
  BY <1>1 DEF Voting
<1>7. Voting(w, t.f) /\ \A f : Voting(w, f) => f = t.f
  BY DEF Voting, VotePcs
<1>8. SoloOnly'
  <2> SUFFICES ASSUME NEW x \in Workers, NEW f \in ReportIds, Voting(x, f)', work'[x].solo
               PROVE  /\ \A y \in Workers \ {x} : ~Voting(y, f)'
                      /\ work'[x].pc = "write" /\ f \in Existing(reports)'
                           => work'[x].n = Cardinality(VotesOf(f)')
    BY DEF SoloOnly
  <2>1. Voting(x, f) /\ work[x].solo /\ \A y \in Workers \ {x} : ~Voting(y, f)
    BY <1>5, <1>6 DEF BoardInv, SoloOnly
  <2>2. CASE x = w
    BY <1>1, <1>5, <1>7, <2>1, <2>2 DEF VotesOf
  <2>3. CASE x # w
    BY <1>1, <1>5, <1>7, <2>1, <2>3 DEF BoardInv, SoloOnly, Existing
  <2> QED
    BY <2>2, <2>3
<1>9. CleanCounts'
  <2> SUFFICES ASSUME NEW f \in Features' \ dirty'
               PROVE  /\ \A x \in Workers : Voting(x, f)' => work'[x].solo
                      /\ (\A x \in Workers : Voting(x, f)' => Undecided(x)') =>
                           reports'[f].count = Cardinality(VotesOf(f)')
    BY DEF CleanCounts
  <2>1. f \in Features \ dirty /\ reports'[f].count = reports[f].count
    BY DEF Features, Existing
  <2>2. ASSUME \A x \in Workers : Voting(x, f)' => Undecided(x)'
        PROVE  VotesOf(f)' = VotesOf(f) /\ \A x \in Workers : Voting(x, f) => Undecided(x)
    BY <1>1, <1>5, <1>7, <2>2 DEF Undecided, VotesOf
  <2> QED
    BY <1>5, <1>6, <2>1, <2>2 DEF BoardInv, CleanCounts
<1>10. SettledOK' /\ \A x \in Workers : Upheld(x)'
  <2>1. Upheld(w)'
    BY <1>1 DEF Upheld, VotePcs
  <2> QED
    BY <1>1, <2>1, SettledKept DEF BoardInv, BoardOK, SettledOK
<1> QED
  BY <1>1, <1>2, <1>4, <1>8, <1>9, <1>10 DEF BoardInv

\* A toggle ends.  That of a clean feature leaves it with the number of its votes.
LEMMA BallotEnds ==
  ASSUME BoardInv, UNCHANGED <<lastReport, settled, votes>>,
         NEW w \in Workers, work[w].pc \in VotePcs, Takes(w, Idle),
         NEW f, f = work[w].f, BoardOK',
         \A g : (g # f /\ g \in Existing(reports)') =>
                  g \in Existing(reports) /\ reports'[g] = reports[g],
         \A r \in settled : "status" \in DOMAIN reports'[r] /\ reports'[r].status = reports[r].status,
         \A g : (g # f /\ g \notin dirty') => g \notin dirty,
         f \in Features' \ dirty' => f \in Existing(reports)
             /\ (\A x \in Workers \ {w} : ~Voting(x, f))
             /\ reports'[f].count = Cardinality(VotesOf(f)),
         f \in Existing(reports)' => f \in Existing(reports)
  PROVE  BoardInv'
<1>1. TasksOK' /\ work'[w] = Idle /\ \A v \in Workers \ {w} : work'[v] = work[v]
  BY TakesGives, IdlePc DEF BoardInv
<1>2. \A g : VotesOf(g)' = VotesOf(g)
  BY DEF VotesOf
<1>3. ReportTask(w)' /\ Upheld(w)'
  BY <1>1, IdlePc DEF ReportTask, Upheld, VotePcs
<1>4. \A x \in Workers : ReportTask(x)'
  BY <1>1, <1>3 DEF BoardInv, ReportTask
<1>5. \A x \in Workers : \A g : Voting(x, g)' <=> (x # w /\ Voting(x, g))
  BY <1>1, IdlePc DEF Voting, VotePcs
<1>6. Voting(w, f) /\ \A g : Voting(w, g) => g = f
  BY DEF Voting, VotePcs
<1>7. SoloOnly'
  <2> SUFFICES ASSUME NEW x \in Workers, NEW g \in ReportIds, Voting(x, g)', work'[x].solo
               PROVE  /\ \A y \in Workers \ {x} : ~Voting(y, g)'
                      /\ work'[x].pc = "write" /\ g \in Existing(reports)'
                           => work'[x].n = Cardinality(VotesOf(g)')
    BY DEF SoloOnly
  <2>1. x # w /\ Voting(x, g) /\ work[x].solo /\ work'[x] = work[x]
    BY <1>1, <1>5
  <2>2. g \in Existing(reports)' => g \in Existing(reports)
    OBVIOUS
  <2> QED
    BY <1>2, <1>5, <2>1, <2>2 DEF BoardInv, SoloOnly
<1>8. CleanCounts'
  <2> SUFFICES ASSUME NEW g \in Features' \ dirty'
               PROVE  /\ \A x \in Workers : Voting(x, g)' => work'[x].solo
                      /\ (\A x \in Workers : Voting(x, g)' => Undecided(x)') =>
                           reports'[g].count = Cardinality(VotesOf(g)')
    BY DEF CleanCounts
  <2>1. CASE g = f
    BY <1>2, <1>5, <2>1
  <2>2. CASE g # f
    <3>1. g \in Features \ dirty /\ reports'[g].count = reports[g].count
      BY <2>2 DEF Features
    <3> QED
      BY <1>1, <1>2, <1>5, <1>6, <2>2, <3>1 DEF BoardInv, CleanCounts, Undecided
  <2> QED
    BY <2>1, <2>2
<1>9. SettledOK' /\ \A x \in Workers : Upheld(x)'
  BY <1>1, <1>3, SettledKept DEF BoardInv, BoardOK
<1> QED
  BY <1>1, <1>4, <1>7, <1>8, <1>9 DEF BoardInv

\* A toggle that leaves the tables as they are, and its feature dirty or its
\* count as it was.
LEMMA BallotDrops ==
  ASSUME BoardInv, UNCHANGED <<reports, lastReport, settled, votes>>,
         NEW w \in Workers, work[w].pc \in VotePcs, Takes(w, Idle),
         dirty \subseteq dirty', work[w].f \in dirty' \/ Undecided(w)
  PROVE  BoardInv'
<1> DEFINE f == work[w].f
<1>1. BoardOK' /\ Existing(reports)' = Existing(reports) /\ Features' = Features
  BY DEF BoardInv, BoardOK, Existing, Features
<1>2. \A r \in settled : "status" \in DOMAIN reports'[r] /\ reports'[r].status = reports[r].status
  BY DEF BoardInv, SettledOK
<1>3. ASSUME f \in Features' \ dirty'
      PROVE  /\ f \in Existing(reports)
             /\ \A x \in Workers \ {w} : ~Voting(x, f)
             /\ reports'[f].count = Cardinality(VotesOf(f))
  <2>1. f \in Features \ dirty /\ Voting(w, f) /\ f \in Existing(reports) /\ f \in ReportIds
    BY <1>1, <1>3 DEF Features, Voting, VotePcs, Existing, BoardInv, BoardOK
  <2>2. work[w].solo
    BY <2>1 DEF BoardInv, CleanCounts
  <2>3. \A x \in Workers \ {w} : ~Voting(x, f)
    BY <2>1, <2>2 DEF BoardInv, SoloOnly
  <2>4. Undecided(w)
    BY <1>3
  <2>5. reports[f].count = Cardinality(VotesOf(f))
    BY <2>1, <2>3, <2>4 DEF BoardInv, CleanCounts
  <2> QED
    BY <2>1, <2>3, <2>5
<1>4. \A g : (g # f /\ g \in Existing(reports)') => g \in Existing(reports) /\ reports'[g] = reports[g]
  BY <1>1
<1>5. (f \in Existing(reports)' => f \in Existing(reports)) /\ \A g : (g # f /\ g \notin dirty') => g \notin dirty
  BY <1>1
<1> HIDE DEF f
<1> QED
  BY <1>1, <1>2, <1>3, <1>4, <1>5, BallotEnds DEF f

LEMMA ToggleStep ==
  ASSUME BoardInv, NEW w \in Workers, Toggle(w)
  PROVE  BoardInv'
<1>1. ASSUME NEW f \in 1..lastReport, NEW u \in members, ToggleVote(w, f, u) PROVE BoardInv'
  <2> DEFINE crowd == \E x \in Workers : Voting(x, f)
             t == [pc |-> "seek", f |-> f, u |-> u, solo |-> ~crowd, n |-> 0]
  <2>1. UNCHANGED <<reports, votes, lastReport, settled>> /\ work[w].pc = "idle"
    BY <1>1, IdlePc DEF ToggleVote, tableVars, counterVars
  <2>2. CASE f \notin Features
    BY <1>1, <2>1, <2>2, Aside DEF ToggleVote, BoardInv, TasksOK
  <2>3. CASE f \in Features
    <3>1. /\ work' = [Disturb(f, work) EXCEPT ![w] = t]
          /\ dirty' = IF crowd THEN dirty \cup {f} ELSE dirty
      BY <1>1, <2>3 DEF ToggleVote
    <3>2. \A x \in Workers \ {w} :
            work'[x] = IF Voting(x, f) THEN [work[x] EXCEPT !.solo = FALSE] ELSE work[x]
      BY <3>1 DEF Disturb
    <3>3. work' = [x \in Workers |-> work'[x]] /\ work'[w] = t
      BY <3>1 DEF Disturb
    <3>4. "pc" \in DOMAIN t /\ t.pc = "seek" /\ t.f = f /\ t.solo = ~crowd
          /\ {"f", "solo", "n"} \subseteq DOMAIN t
      OBVIOUS
    <3> HIDE DEF t
    <3>5. \A x \in Workers \ {w} : Voting(x, f) =>
            /\ work'[x].pc = work[x].pc /\ work'[x].f = f /\ work'[x].n = work[x].n
            /\ work'[x].solo = FALSE /\ DOMAIN work'[x] = DOMAIN work[x]
            /\ {"f", "solo", "n"} \subseteq DOMAIN work[x] /\ work[x].pc \in VotePcs
      <4> SUFFICES ASSUME NEW x \in Workers \ {w}, Voting(x, f)
                   PROVE  /\ work'[x].pc = work[x].pc /\ work'[x].f = f /\ work'[x].n = work[x].n
                          /\ work'[x].solo = FALSE /\ DOMAIN work'[x] = DOMAIN work[x]
                          /\ {"f", "solo", "n"} \subseteq DOMAIN work[x] /\ work[x].pc \in VotePcs
        OBVIOUS
      <4>1. /\ {"pc", "f", "solo", "n"} \subseteq DOMAIN work[x] /\ work[x].f = f
            /\ work[x].pc \in VotePcs
        BY DEF Voting, BoardInv, ReportTask, TasksOK, VotePcs
      <4> QED
        BY <3>2, <4>1
    <3>6. \A x \in Workers \ {w} : ~Voting(x, f) => work'[x] = work[x]
      BY <3>2
    <3>7. TasksOK'
      BY <3>3, <3>4, <3>5, <3>6 DEF TasksOK, BoardInv
    <3>8. BoardOK' /\ Existing(reports)' = Existing(reports) /\ Features' = Features
          /\ \A g : VotesOf(g)' = VotesOf(g)
      BY <2>1 DEF BoardInv, BoardOK, Existing, Features, VotesOf
    <3>9. ASSUME NEW x \in Workers PROVE ReportTask(x)' /\ Upheld(x)'
      <4>1. CASE x = w
        BY <2>1, <3>3, <3>4, <4>1 DEF ReportTask, Upheld, VotePcs
      <4>2. CASE x # w /\ Voting(x, f)
        BY <2>1, <3>5, <4>2 DEF ReportTask, Upheld, VotePcs
      <4>3. CASE x # w /\ ~Voting(x, f)
        BY <2>1, <3>6, <4>3 DEF BoardInv, ReportTask, Upheld
      <4> QED
        BY <4>1, <4>2, <4>3
    <3>10. \A x \in Workers : \A g : Voting(x, g)' <=> Voting(x, g) \/ (x = w /\ g = f)
      <4> SUFFICES ASSUME NEW x \in Workers, NEW g
                   PROVE  Voting(x, g)' <=> Voting(x, g) \/ (x = w /\ g = f)
        OBVIOUS
      <4>1. CASE x = w
        BY <2>1, <3>3, <3>4, <4>1 DEF Voting
      <4>2. CASE x # w /\ Voting(x, f)
        BY <3>5, <4>2 DEF Voting
      <4>3. CASE x # w /\ ~Voting(x, f)
        BY <3>6, <4>3 DEF Voting
      <4> QED
        BY <4>1, <4>2, <4>3
    <3>11. ASSUME NEW x \in Workers, NEW g, g # f, Voting(x, g) PROVE work'[x] = work[x] /\ x # w
      BY <2>1, <3>6, <3>11 DEF Voting, VotePcs
    <3>12. SoloOnly'
      <4> SUFFICES ASSUME NEW x \in Workers, NEW g \in ReportIds, Voting(x, g)', work'[x].solo
                   PROVE  /\ \A y \in Workers \ {x} : ~Voting(y, g)'
                          /\ work'[x].pc = "write" /\ g \in Existing(reports)'
                               => work'[x].n = Cardinality(VotesOf(g)')
        BY DEF SoloOnly
      <4>1. CASE g = f
        <5>1. x = w
          BY <3>5, <3>10, <4>1
        <5> QED
          BY <3>3, <3>4, <3>10, <4>1, <5>1
      <4>2. CASE g # f
        BY <3>8, <3>10, <3>11, <4>2 DEF BoardInv, SoloOnly
      <4> QED
        BY <4>1, <4>2
    <3>13. CleanCounts'
      <4> SUFFICES ASSUME NEW g \in Features' \ dirty'
                   PROVE  /\ \A x \in Workers : Voting(x, g)' => work'[x].solo
                          /\ (\A x \in Workers : Voting(x, g)' => Undecided(x)') =>
                               reports'[g].count = Cardinality(VotesOf(g)')
        BY DEF CleanCounts
      <4>1. CASE g = f
        <5>1. ~crowd /\ g \in Features \ dirty
          BY <3>1, <3>8, <4>1
        <5>2. \A x \in Workers : ~Voting(x, g)
          BY <4>1, <5>1
        <5>3. reports[g].count = Cardinality(VotesOf(g))
          BY <5>1, <5>2 DEF BoardInv, CleanCounts
        <5> QED
          BY <2>1, <3>3, <3>4, <3>8, <3>10, <4>1, <5>1, <5>2, <5>3
      <4>2. CASE g # f
        <5>1. g \in Features \ dirty
          BY <3>1, <3>8, <4>2
        <5>2. \A x \in Workers : Voting(x, g)' => Voting(x, g) /\ work'[x] = work[x]
          BY <3>10, <3>11, <4>2
        <5>3. \A x \in Workers : Voting(x, g) => Voting(x, g)' /\ work'[x] = work[x]
          BY <3>10, <3>11, <4>2
        <5> QED
          BY <2>1, <3>8, <5>1, <5>2, <5>3 DEF BoardInv, CleanCounts, Undecided
      <4> QED
        BY <4>1, <4>2
    <3>14. SettledOK'
      BY <2>1 DEF BoardInv, SettledOK
    <3> QED
      BY <3>7, <3>8, <3>9, <3>12, <3>13, <3>14 DEF BoardInv
  <2> QED
    BY <2>2, <2>3
<1>2. CASE VoteExists(w)
  <2> DEFINE t == [work[w] EXCEPT !.pc = IF <<work[w].f, work[w].u>> \in votes THEN "withdraw" ELSE "cast"]
  <2>1. /\ UNCHANGED <<reports, votes, lastReport, dirty, settled>> /\ work[w].pc = "seek" /\ Takes(w, t)
    BY <1>2 DEF VoteExists, At, Goto, Takes, communityVars, tableVars, counterVars, observerVars
  <2>2. {"pc", "f", "solo", "n"} \subseteq DOMAIN work[w]
    BY <2>1 DEF BoardInv, TasksOK, ReportTask, VotePcs
  <2>3. /\ {"pc", "f", "solo", "n"} \subseteq DOMAIN t /\ t.f = work[w].f /\ t.solo = work[w].solo
        /\ t.pc \in {"withdraw", "cast"}
    BY <2>2
  <2>4. (\A f : VotesOf(f)' = VotesOf(f)) /\ \A v \in votes' : v[1] \in 1..lastReport
    BY <2>1 DEF VotesOf, BoardInv, BoardOK
  <2> HIDE DEF t
  <2> QED
    BY <2>1, <2>3, <2>4, BallotGoesOn DEF VotePcs, Undecided
<1>3. CASE InsertVote(w)
  <2> DEFINE t == [work[w] EXCEPT !.pc = "tally"]
             vote == <<work[w].f, work[w].u>>
  <2>1. UNCHANGED <<reports, lastReport, dirty, settled>> /\ work[w].pc = "cast"
    BY <1>3 DEF InsertVote, At, counterVars, observerVars
  <2>2. CASE UNCHANGED votes /\ Takes(w, Idle)
    BY <2>1, <2>2, BallotDrops DEF Undecided, VotePcs
  <2>3. CASE votes' = votes \cup {vote} /\ Takes(w, t)
    <3>1. {"pc", "f", "solo", "n"} \subseteq DOMAIN work[w] /\ work[w].f \in 1..lastReport
      BY <2>1 DEF BoardInv, TasksOK, ReportTask, VotePcs
    <3>2. /\ {"pc", "f", "solo", "n"} \subseteq DOMAIN t /\ t.f = work[w].f /\ t.solo = work[w].solo
          /\ t.pc = "tally"
      BY <3>1
    <3>3. (\A f : f # t.f => VotesOf(f)' = VotesOf(f)) /\ \A v \in votes' : v[1] \in 1..lastReport
      BY <2>3, <3>1, <3>2 DEF VotesOf, BoardInv, BoardOK
    <3> HIDE DEF t
    <3> QED
      BY <2>1, <2>3, <3>2, <3>3, BallotGoesOn DEF VotePcs
  <2> QED
    BY <1>3, <2>2, <2>3 DEF InsertVote, Finish, Goto, Takes
<1>4. CASE DeleteVote(w)
  <2> DEFINE t == [work[w] EXCEPT !.pc = "tally"]
  <2>1. /\ UNCHANGED <<reports, lastReport, dirty, settled>> /\ work[w].pc = "withdraw" /\ Takes(w, t)
        /\ votes' = votes \ {<<work[w].f, work[w].u>>}
    BY <1>4 DEF DeleteVote, At, Goto, Takes, counterVars, observerVars
  <2>2. {"pc", "f", "solo", "n"} \subseteq DOMAIN work[w]
    BY <2>1 DEF BoardInv, TasksOK, ReportTask, VotePcs
  <2>3. /\ {"pc", "f", "solo", "n"} \subseteq DOMAIN t /\ t.f = work[w].f /\ t.solo = work[w].solo
        /\ t.pc = "tally"
    BY <2>2
  <2>4. (\A f : f # t.f => VotesOf(f)' = VotesOf(f)) /\ \A v \in votes' : v[1] \in 1..lastReport
    BY <2>1, <2>3 DEF VotesOf, BoardInv, BoardOK
  <2> HIDE DEF t
  <2> QED
    BY <2>1, <2>3, <2>4, BallotGoesOn DEF VotePcs
<1>5. CASE CountVotes(w)
  <2> DEFINE t == [work[w] EXCEPT !.pc = "write", !.n = Cardinality(VotesOf(work[w].f))]
  <2>1. UNCHANGED <<reports, votes, lastReport, dirty, settled>> /\ work[w].pc = "tally" /\ Takes(w, t)
    BY <1>5 DEF CountVotes, At, Goto, Takes, communityVars, tableVars, counterVars, observerVars
  <2>2. {"pc", "f", "solo", "n"} \subseteq DOMAIN work[w]
    BY <2>1 DEF BoardInv, TasksOK, ReportTask, VotePcs
  <2>3. /\ {"pc", "f", "solo", "n"} \subseteq DOMAIN t /\ t.f = work[w].f /\ t.solo = work[w].solo
        /\ t.pc = "write" /\ t.n = Cardinality(VotesOf(t.f))
    BY <2>2
  <2>4. (\A f : VotesOf(f)' = VotesOf(f)) /\ \A v \in votes' : v[1] \in 1..lastReport
    BY <2>1 DEF VotesOf, BoardInv, BoardOK
  <2> HIDE DEF t
  <2> QED
    BY <2>1, <2>3, <2>4, BallotGoesOn DEF VotePcs
<1>6. CASE UpdateVoteCount(w)
  <2> DEFINE f == work[w].f
  <2>1. /\ UNCHANGED <<lastReport, settled, votes>> /\ work[w].pc = "write" /\ Takes(w, Idle)
        /\ reports' = [reports EXCEPT ![f] = SetCount(reports[f], work[w].n)]
        /\ dirty' = IF work[w].solo THEN dirty \ {f} ELSE dirty
    BY <1>6 DEF UpdateVoteCount, At, Finish, Goto, Takes, counterVars
  <2>2. f \in 1..lastReport /\ Voting(w, f)
    BY <2>1 DEF BoardInv, ReportTask, VotePcs, Voting
  <2>3. f \notin Existing(reports) => reports' = reports
    BY <2>1 DEF SetCount, Existing, BoardInv, BoardOK
  <2>4. f \in Existing(reports) => /\ reports' = [reports EXCEPT ![f] = [reports[f] EXCEPT !.count = work[w].n]]
                                   /\ reports'[f] = [reports[f] EXCEPT !.count = work[w].n]
                                   /\ f \in ReportIds /\ RowFields \subseteq DOMAIN reports[f]
    BY <2>1 DEF SetCount, Existing, BoardInv, BoardOK
  <2>5. BoardOK'
    BY <2>1, <2>3, <2>4 DEF BoardInv, BoardOK, Existing
  <2>6. \A g : (g # f /\ g \in Existing(reports)') => g \in Existing(reports) /\ reports'[g] = reports[g]
    BY <2>1 DEF Existing
  <2>7. \A r \in settled : "status" \in DOMAIN reports'[r] /\ reports'[r].status = reports[r].status
    BY <2>1, <2>3, <2>4 DEF BoardInv, BoardOK, SettledOK, RowFields
  <2>8. f \in Existing(reports)' => f \in Existing(reports)
    BY <2>3
  <2>9. ASSUME f \in Features' \ dirty'
        PROVE  /\ f \in Existing(reports)
               /\ \A x \in Workers \ {w} : ~Voting(x, f)
               /\ reports'[f].count = Cardinality(VotesOf(f))
    <3>1. f \in Existing(reports) /\ f \in ReportIds /\ f \in Features
      BY <2>4, <2>8, <2>9 DEF Features, RowFields
    <3>2. work[w].solo
      BY <2>1, <2>2, <2>9, <3>1 DEF BoardInv, CleanCounts
    <3>3. (\A x \in Workers \ {w} : ~Voting(x, f)) /\ work[w].n = Cardinality(VotesOf(f))
      BY <2>1, <2>2, <3>1, <3>2 DEF BoardInv, SoloOnly
    <3> QED
      BY <2>4, <3>1, <3>3 DEF RowFields
  <2>10. \A g : (g # f /\ g \notin dirty') => g \notin dirty
    BY <2>1
  <2> QED
    BY <2>1, <2>5, <2>6, <2>7, <2>8, <2>9, <2>10, BallotEnds DEF VotePcs
<1> QED
  BY <1>1, <1>2, <1>3, <1>4, <1>5, <1>6 DEF Toggle

-----------------------------------------------------------------------------
(***************************************************************************)
(* The other requests.                                                     *)
(***************************************************************************)

\* A request that is answered at once, or that begins or goes on as rests.
LEMMA NothingChanges ==
  ASSUME BoardInv, UNCHANGED <<reports, votes, lastReport, dirty, settled, work>>
  PROVE  BoardInv'
  BY Aside DEF BoardInv, TasksOK

LEMMA CommunityLeaves ==
  ASSUME UNCHANGED communityVars
  PROVE  UNCHANGED <<members, reports, votes, lastReport, dirty, settled>>
  BY DEF communityVars, tableVars, counterVars, observerVars

LEMMA SubmissionStep ==
  ASSUME BoardInv, NEW w \in Workers, Submission(w)
  PROVE  BoardInv'
<1>1. ASSUME NEW row, RowFields \subseteq DOMAIN row, row.count = 0, work[w] = Idle,
             Takes(w, [pc |-> "resolve", row |-> row]),
             UNCHANGED <<reports, votes, lastReport, dirty, settled>>
      PROVE  BoardInv'
  <2> DEFINE t == [pc |-> "resolve", row |-> row]
  <2>1. Takes(w, t) /\ {"pc", "row"} \subseteq DOMAIN t /\ t.pc = "resolve" /\ t.row = row
    BY <1>1
  <2> HIDE DEF t
  <2> QED
    BY <1>1, <2>1, IdlePc, GoesAside DEF VotePcs
<1>2. ASSUME NEW b, NEW u, CreateFeedback(w, b, u) PROVE BoardInv'
  <2>1. RowFields \subseteq DOMAIN NewFeedback(b, u) /\ NewFeedback(b, u).count = 0
    BY DEF NewFeedback, RowFields
  <2>2. UNCHANGED <<reports, votes, lastReport, dirty, settled>>
    BY <1>2, CommunityLeaves DEF CreateFeedback
  <2> QED
    BY <1>1, <1>2, <2>1, <2>2, NothingChanges DEF CreateFeedback, Served, Begin, Takes
<1>3. ASSUME NEW text, NEW shot, NEW u, CreateBug(w, text, shot, u) PROVE BoardInv'
  <2>1. \A n : RowFields \subseteq DOMAIN NewBug(u, n) /\ NewBug(u, n).count = 0
    BY DEF NewBug, RowFields
  <2>2. UNCHANGED <<reports, votes, lastReport, dirty, settled>>
    BY <1>3 DEF CreateBug, observerVars
  <2> QED
    BY <1>1, <1>3, <2>1, <2>2, NothingChanges DEF CreateBug, Served, Begin, Takes
<1>4. CASE ResolveUserID(w)
  <2> DEFINE u == work[w].row.author
             t == [work[w] EXCEPT !.pc = "store", !.row.author = IF u \in members THEN u ELSE Nobody]
  <2>1. /\ work[w].pc = "resolve" /\ Takes(w, t)
        /\ UNCHANGED <<reports, votes, lastReport, dirty, settled>>
    BY <1>4, CommunityLeaves DEF ResolveUserID, At, Goto, Takes
  <2>2. {"pc", "row"} \subseteq DOMAIN work[w] /\ RowFields \subseteq DOMAIN work[w].row
        /\ work[w].row.count = 0
    BY <2>1 DEF BoardInv, TasksOK, ReportTask
  <2>3. t.pc = "store" /\ {"pc", "row"} \subseteq DOMAIN t
        /\ t.row = [work[w].row EXCEPT !.author = IF u \in members THEN u ELSE Nobody]
    BY <2>2
  <2>4. RowFields \subseteq DOMAIN t.row /\ t.row.count = 0
    BY <2>2, <2>3 DEF RowFields
  <2> HIDE DEF t
  <2> QED
    BY <2>1, <2>3, <2>4, GoesAside DEF VotePcs
<1>5. CASE StoreReport(w)
  <2>1. /\ UNCHANGED <<votes, dirty, settled>> /\ work[w].pc = "store" /\ Takes(w, Idle)
        /\ lastReport < MaxReports
    BY <1>5 DEF StoreReport, At, Finish, Goto, Takes, observerVars
  <2>2. CASE UNCHANGED <<reports, lastReport>>
    BY <2>1, <2>2, IdlePc, Rests DEF VotePcs
  <2>3. CASE /\ reports' = [reports EXCEPT ![lastReport + 1] = work[w].row]
             /\ lastReport' = lastReport + 1
    <3> DEFINE id == lastReport + 1
               row == work[w].row
    <3>1. RowFields \subseteq DOMAIN row /\ row.count = 0
      BY <2>1 DEF BoardInv, ReportTask
    <3>2. /\ id \in ReportIds /\ lastReport \in Nat
          /\ reports = [r \in ReportIds |-> reports[r]]
          /\ \A r \in Existing(reports) : r <= lastReport /\ RowFields \subseteq DOMAIN reports[r]
          /\ \A v \in votes : v[1] \in 1..lastReport
      <4>1. MaxReports \in Nat
        BY CommunityAssumption
      <4>2. BoardOK
        BY DEF BoardInv
      <4> QED
        BY <2>1, <4>1, <4>2 DEF BoardOK, ReportIds
    <3>3. reports'[id] = row /\ \A r \in ReportIds \ {id} : reports'[r] = reports[r]
      BY <2>3, <3>2
    <3>4. /\ DOMAIN reports' = ReportIds /\ id \notin Existing(reports)
          /\ \A r \in Existing(reports)' : r \in Existing(reports) \cup {id}
          /\ \A r \in Existing(reports)' \ {id} : reports'[r] = reports[r] /\ r \in Existing(reports)
      BY <2>3, <3>2, <3>3 DEF Existing
    <3>5. BoardOK'
      <4>1. reports' = [r \in ReportIds |-> reports'[r]] /\ lastReport' \in Nat
        BY <2>3, <3>2
      <4>2. \A r \in Existing(reports)' : r <= lastReport' /\ RowFields \subseteq DOMAIN reports'[r]
        BY <2>3, <3>1, <3>2, <3>3, <3>4 DEF Existing, ReportIds
      <4>3. \A v \in votes' : v[1] \in 1..lastReport'
        <5> SUFFICES ASSUME NEW v \in votes PROVE v[1] \in 1..(lastReport + 1)
          BY <2>1, <2>3
        <5>1. v[1] \in 1..lastReport
          BY <3>2
        <5> QED
          BY <3>2, <5>1
      <4> QED
        BY <4>1, <4>2, <4>3 DEF BoardOK
    <3>6. TasksOK' /\ work'[w] = Idle /\ \A v \in Workers \ {w} : work'[v] = work[v]
      BY <2>1, TakesGives, IdlePc DEF BoardInv
    <3>7. ReportTask(w)' /\ Upheld(w)'
      BY <3>6, IdlePc DEF ReportTask, Upheld, VotePcs
    <3>8. \A x \in Workers : ReportTask(x)'
      <4> SUFFICES ASSUME NEW x \in Workers \ {w} PROVE ReportTask(x)'
        BY <3>7
      <4>1. ReportTask(x) /\ work'[x] = work[x]
        BY <3>6 DEF BoardInv
      <4>2. 1..lastReport \subseteq 1..lastReport'
        BY <2>3, <3>2
      <4> QED
        BY <4>1, <4>2 DEF ReportTask
    <3>9. \A x \in Workers : \A g : Voting(x, g)' <=> Voting(x, g)
      BY <2>1, <3>6, IdlePc DEF Voting, VotePcs
    <3>10. \A x \in Workers : ~Voting(x, id)
      BY <3>2 DEF BoardInv, ReportTask, Voting, VotePcs
    <3>11. \A x \in Workers : \A g : Voting(x, g) => work'[x] = work[x] /\ g # id
      BY <2>1, <3>6, <3>10 DEF Voting
    <3>12. \A g : VotesOf(g)' = VotesOf(g)
      BY <2>1 DEF VotesOf
    <3>13. SoloOnly'
      <4> SUFFICES ASSUME NEW x \in Workers, NEW g \in ReportIds, Voting(x, g)', work'[x].solo
                   PROVE  /\ \A y \in Workers \ {x} : ~Voting(y, g)'
                          /\ work'[x].pc = "write" /\ g \in Existing(reports)'
                               => work'[x].n = Cardinality(VotesOf(g)')
        BY DEF SoloOnly
      <4>1. Voting(x, g) /\ work'[x] = work[x] /\ g # id
        BY <3>9, <3>11
      <4>2. g \in Existing(reports)' => g \in Existing(reports)
        BY <3>4, <4>1
      <4> HIDE DEF id
      <4> QED
        BY <3>9, <3>12, <4>1, <4>2 DEF BoardInv, SoloOnly
    <3>14. CleanCounts'
      <4> SUFFICES ASSUME NEW g \in Features' \ dirty'
                   PROVE  /\ \A x \in Workers : Voting(x, g)' => work'[x].solo
                          /\ (\A x \in Workers : Voting(x, g)' => Undecided(x)') =>
                               reports'[g].count = Cardinality(VotesOf(g)')
        BY DEF CleanCounts
      <4>1. CASE g = id
        <5>1. VotesOf(id) = {}
          BY <3>2 DEF VotesOf
        <5>2. Cardinality(VotesOf(g)') = 0
          BY <3>12, <4>1, <5>1, FS_EmptySet
        <5> QED
          BY <3>1, <3>3, <3>9, <3>10, <4>1, <5>2
      <4>2. CASE g # id
        <5>1. g \in Features \ dirty /\ reports'[g] = reports[g]
          BY <2>1, <3>4, <4>2 DEF Features
        <5> HIDE DEF id
        <5> QED
          BY <3>9, <3>11, <3>12, <5>1 DEF BoardInv, CleanCounts, Undecided
      <4> QED
        BY <4>1, <4>2
    <3>15. SettledOK' /\ \A x \in Workers : Upheld(x)'
      <4>1. \A r \in settled : reports'[r] = reports[r]
        BY <3>2, <3>3 DEF BoardInv, SettledOK
      <4>2. \A r \in settled' : /\ "status" \in DOMAIN reports'[r]
                              /\ reports'[r].status \in {reports[r].status} \cup Closed
        BY <2>1, <4>1 DEF BoardInv, SettledOK
      <4>3. \A x \in Workers : work'[x] = work[x] \/ Upheld(x)'
        BY <3>6, <3>7
      <4>4. lastReport' \in Nat /\ lastReport <= lastReport'
        BY <2>3, <3>2
      <4> QED
        BY <2>1, <3>2, <4>2, <4>3, <4>4, SettledKept DEF BoardInv
    <3> QED
      BY <3>5, <3>6, <3>8, <3>13, <3>14, <3>15 DEF BoardInv
  <2> QED
    BY <1>5, <2>2, <2>3 DEF StoreReport
<1> QED
  BY <1>2, <1>3, <1>4, <1>5 DEF Submission

\* Rows are written: none comes, none changes its kind or its count, and those
\* closed stay so.
LEMMA RowsWritten ==
  ASSUME BoardInv, UNCHANGED <<votes, lastReport, dirty, settled>>,
         reports' = [r \in ReportIds |-> reports'[r]],
         \A r \in ReportIds : reports'[r] = reports[r] \/
            /\ r \in Existing(reports)
            /\ RowFields \subseteq DOMAIN reports'[r]
            /\ reports'[r].kind = reports[r].kind /\ reports'[r].count = reports[r].count,
         \A r \in settled : reports'[r].status \in {reports[r].status} \cup Closed,
         NEW w \in Workers, work[w].pc \notin VotePcs, NEW t, Takes(w, t), "pc" \in DOMAIN t,
         t.pc \notin VotePcs \cup {"resolve", "store", "patch", "ask"}
  PROVE  BoardInv'
<1>1. TasksOK' /\ work'[w] = t /\ \A v \in Workers \ {w} : work'[v] = work[v]
  BY TakesGives DEF BoardInv
<1>2. ReportTask(w)' /\ Upheld(w)'
  BY <1>1 DEF ReportTask, Upheld
<1>3. \A x \in Workers : ReportTask(x)'
  BY <1>1, <1>2 DEF BoardInv, ReportTask
<1>4. DOMAIN reports = ReportIds /\ DOMAIN reports' = ReportIds
      /\ \A r \in Existing(reports) : r <= lastReport /\ RowFields \subseteq DOMAIN reports[r]
  BY DEF BoardInv, BoardOK
<1>5. \A r \in Existing(reports)' : /\ r \in Existing(reports) /\ RowFields \subseteq DOMAIN reports'[r]
                                    /\ reports'[r].kind = reports[r].kind
                                    /\ reports'[r].count = reports[r].count
  BY <1>4 DEF Existing
<1>6. BoardOK'
  BY <1>4, <1>5 DEF BoardInv, BoardOK
<1>7. SoloOnly' /\ CleanCounts'
  BY <1>1, <1>5, CountsKept DEF BoardInv
<1>8. \A r \in settled : "status" \in DOMAIN reports'[r]
  BY DEF BoardInv, SettledOK, RowFields
<1>9. SettledOK' /\ \A x \in Workers : Upheld(x)'
  BY <1>1, <1>2, <1>8, SettledKept DEF BoardInv, BoardOK
<1> QED
  BY <1>1, <1>3, <1>6, <1>7, <1>9 DEF BoardInv

\* The row an admin edited: its kind and its count are its own, its status the body's.
LEMMA OverwrittenKeeps ==
  ASSUME NEW row, NEW new, DOMAIN new = Columns, RowFields \subseteq DOMAIN row
  PROVE  /\ RowFields \subseteq DOMAIN Overwritten(row, new)
         /\ Overwritten(row, new).kind = row.kind /\ Overwritten(row, new).count = row.count
         /\ Overwritten(row, new).status = new.status
<1> DEFINE r == Overwritten(row, new)
<1>1. {"kind", "count", "author"} \cap Columns = {} /\ "status" \in Columns
  BY DEF Columns
<1>2. r["kind"] = row["kind"] /\ r["count"] = row["count"] /\ r["status"] = new["status"]
  BY <1>1 DEF RowFields, Overwritten
<1>3. RowFields \subseteq DOMAIN r
  BY DEF Overwritten
<1> HIDE DEF r
<1> QED
  BY <1>2, <1>3 DEF r

LEMMA UpdateBugStep ==
  ASSUME BoardInv, NEW w \in Workers, AdminUpdate(w)
  PROVE  BoardInv'
<1> DEFINE r == work[w].id
           new == work[w].columns
           calm == \A x \in Workers \ {w} : ~Handling(x, r)
<1>1. /\ UNCHANGED <<votes, lastReport, dirty>> /\ work[w].pc = "patch" /\ Takes(w, Idle)
      /\ DOMAIN new = Columns
  BY DEF AdminUpdate, At, Finish, Goto, Takes, counterVars, BoardInv, ReportTask
<1>2. CASE UNCHANGED <<reports, settled>>
  BY <1>1, <1>2, IdlePc, Rests DEF VotePcs
<1>3. CASE /\ r \in Existing(reports)
           /\ reports' = [reports EXCEPT ![r] = Overwritten(reports[r], new)]
           /\ settled' = IF "status" \in work[w].named
                         THEN IF calm /\ new.status \in Closed THEN settled \cup {r} ELSE settled \ {r}
                         ELSE settled
  <2>1. TasksOK' /\ work'[w] = Idle /\ \A v \in Workers \ {w} : work'[v] = work[v]
    BY <1>1, TakesGives, IdlePc DEF BoardInv
  <2>2. ReportTask(w)' /\ Upheld(w)'
    BY <2>1, IdlePc DEF ReportTask, Upheld, VotePcs
  <2>3. \A x \in Workers : ReportTask(x)'
    BY <1>1, <2>1, <2>2 DEF BoardInv, ReportTask
  <2>4. /\ DOMAIN reports = ReportIds /\ r \in ReportIds /\ r <= lastReport
        /\ RowFields \subseteq DOMAIN reports[r]
    BY <1>3 DEF BoardInv, BoardOK, Existing
  <2>5. /\ reports'[r] = Overwritten(reports[r], new)
        /\ \A q \in ReportIds \ {r} : reports'[q] = reports[q]
        /\ reports' = [q \in ReportIds |-> reports'[q]]
    BY <1>3, <2>4 DEF BoardInv, BoardOK
  <2>6. /\ RowFields \subseteq DOMAIN reports'[r]
        /\ reports'[r].kind = reports[r].kind /\ reports'[r].count = reports[r].count
        /\ reports'[r].status = new.status
    BY <1>1, <2>4, <2>5, OverwrittenKeeps
  <2> HIDE DEF new
  <2>7. \A q \in Existing(reports)' : /\ q \in Existing(reports) /\ RowFields \subseteq DOMAIN reports'[q]
                                      /\ reports'[q].kind = reports[q].kind
                                      /\ reports'[q].count = reports[q].count
    <3> SUFFICES ASSUME NEW q \in Existing(reports)'
                 PROVE  /\ q \in Existing(reports) /\ RowFields \subseteq DOMAIN reports'[q]
                        /\ reports'[q].kind = reports[q].kind /\ reports'[q].count = reports[q].count
      OBVIOUS
    <3>1. q \in ReportIds /\ reports'[q] # NoRow
      BY <2>5 DEF Existing
    <3>2. CASE q = r
      BY <1>3, <2>6, <3>2
    <3>3. CASE q # r
      BY <2>4, <2>5, <3>1, <3>3 DEF BoardInv, BoardOK, Existing
    <3> QED
      BY <3>2, <3>3
  <2>8. BoardOK'
    BY <1>1, <2>5, <2>7 DEF BoardInv, BoardOK
  <2>9. SoloOnly' /\ CleanCounts'
    BY <1>1, <2>1, <2>7, IdlePc, CountsKept DEF BoardInv, VotePcs
  <2>10. "status" \in DOMAIN reports'[r]
    BY <2>6 DEF RowFields
  <2>11. \A q \in settled' \ {r} : q \in settled
    BY <1>3
  <2>12. r \in settled' => new.status \in Closed
    <3>1. CASE "status" \in work[w].named
      BY <1>3, <3>1
    <3>2. CASE "status" \notin work[w].named
      <4>1. settled' = settled /\ Upheld(w)
        BY <1>3, <3>2 DEF BoardInv
      <4> QED
        BY <1>1, <3>2, <4>1 DEF Upheld, new
    <3> QED
      BY <3>1, <3>2
  <2>13. SettledOK'
    BY <1>1, <2>4, <2>5, <2>6, <2>10, <2>11, <2>12 DEF BoardInv, SettledOK
  <2>14. ASSUME NEW x \in Workers PROVE Upheld(x)'
    <3>1. CASE x = w
      BY <2>2, <3>1
    <3>2. CASE x # w /\ ~Handling(x, r)
      <4>1. work'[x] = work[x] /\ Upheld(x)
        BY <2>1, <3>2 DEF BoardInv
      <4>2. work[x].pc \in {"patch", "ask"} /\ work[x].id \in settled' => work[x].id \in settled
        BY <2>11, <3>2 DEF Handling
      <4> HIDE DEF r
      <4> QED
        BY <4>1, <4>2 DEF Upheld
    <3>3. CASE x # w /\ Handling(x, r)
      <4>1. work'[x] = work[x] /\ Upheld(x) /\ ~calm
        BY <2>1, <3>3 DEF BoardInv
      <4>2. settled' \subseteq settled
        BY <1>3, <4>1
      <4> HIDE DEF r
      <4> QED
        BY <4>1, <4>2 DEF Upheld
    <3> QED
      BY <3>1, <3>2, <3>3
  <2> QED
    BY <2>1, <2>3, <2>8, <2>9, <2>13, <2>14 DEF BoardInv
<1> QED
  BY <1>2, <1>3 DEF AdminUpdate

\* Asking for a fix of report r, whose status was just read.
LEMMA AskBegins ==
  ASSUME BoardInv, UNCHANGED <<reports, votes, lastReport, dirty, settled>>,
         NEW w \in Workers, work[w].pc \notin VotePcs, NEW r, NEW todo,
         Takes(w, Ask("bug", r, reports[r].status, todo))
  PROVE  BoardInv'
<1> DEFINE t == Ask("bug", r, reports[r].status, todo)
<1>1. Takes(w, t) /\ "pc" \in DOMAIN t /\ t.pc = "ask" /\ t.id = r /\ t.status = reports[r].status
  BY DEF Ask
<1>2. t.id \in settled => t.status \in Closed
  BY <1>1 DEF BoardInv, SettledOK
<1> HIDE DEF t
<1> QED
  BY <1>1, <1>2, GoesAside DEF VotePcs

LEMMA AskForErrorBegins ==
  ASSUME BoardInv, UNCHANGED <<reports, votes, lastReport, dirty, settled>>,
         NEW w \in Workers, work[w].pc \notin VotePcs, NEW g, NEW todo,
         Takes(w, Ask("error", g, 0, todo))
  PROVE  BoardInv'
<1> DEFINE t == Ask("error", g, 0, todo)
<1>1. Takes(w, t) /\ "pc" \in DOMAIN t /\ t.pc = "ask" /\ t.kind = "error"
  BY DEF Ask
<1> HIDE DEF t
<1> QED
  BY <1>1, GoesAside DEF VotePcs

\* What is left when a report is dealt with.
LEMMA RestPc ==
  ASSUME NEW w
  PROVE  "pc" \in DOMAIN After(w) /\ After(w).pc \in {"idle", "pick"}
  BY IdlePc DEF After

LEMMA NextOfList ==
  ASSUME TasksOK, NEW w \in Workers, work[w].pc = "pick", NEW rest
  PROVE  LET t == IF rest = {} THEN Idle ELSE [work[w] EXCEPT !.todo = rest]
         IN  "pc" \in DOMAIN t /\ t.pc \in {"idle", "pick"}
  BY IdlePc DEF TasksOK

LEMMA TriageStep ==
  ASSUME BoardInv, NEW w \in Workers, Triage(w)
  PROVE  BoardInv'
<1>1. ASSUME NEW r \in 1..lastReport, NEW p \in Patches, PatchBug(w, r, p) PROVE BoardInv'
  <2> DEFINE t == [pc |-> "patch", id |-> r, named |-> DOMAIN p, columns |-> Merge(reports[r], p)]
  <2>1. UNCHANGED <<reports, votes, lastReport, dirty, settled>>
    BY <1>1, CommunityLeaves DEF PatchBug
  <2>2. UNCHANGED work \/ (work[w] = Idle /\ Takes(w, t))
    BY <1>1 DEF PatchBug, Served, Begin, Takes
  <2>3. /\ "pc" \in DOMAIN t /\ t.pc = "patch" /\ t.id = r /\ t.named = DOMAIN p
        /\ t.columns = Merge(reports[r], p)
    OBVIOUS
  <2>4. DOMAIN Merge(reports[r], p) = Columns
        /\ ("status" \notin DOMAIN p => Merge(reports[r], p)["status"] = reports[r]["status"])
    BY DEF Merge, Columns
  <2>5. r \in settled => reports[r].status \in Closed
    BY DEF BoardInv, SettledOK
  <2> HIDE DEF t
  <2>6. DOMAIN t.columns = Columns
        /\ (t.id \in settled /\ "status" \notin t.named => t.columns.status \in Closed)
    BY <2>3, <2>4, <2>5
  <2> QED
    BY <2>1, <2>2, <2>3, <2>6, IdlePc, GoesAside, NothingChanges DEF VotePcs
<1>2. ASSUME NEW r \in 1..lastReport, SuggestBugFix(w, r) PROVE BoardInv'
  <2>1. UNCHANGED <<reports, votes, lastReport, dirty, settled>>
    BY <1>2, CommunityLeaves DEF SuggestBugFix
  <2>2. UNCHANGED work \/ (work[w] = Idle /\ Takes(w, Ask("bug", r, reports[r].status, {})))
    BY <1>2 DEF SuggestBugFix, Served, Begin, Takes
  <2> QED
    BY <2>1, <2>2, IdlePc, AskBegins, NothingChanges DEF VotePcs
<1>3. CASE BugFixJob(w)
  <2> DEFINE t == [pc |-> "pick", kind |-> "bug", todo |-> AdminBugFixCandidates]
  <2>1. UNCHANGED <<reports, votes, lastReport, dirty, settled>>
    BY <1>3, CommunityLeaves DEF BugFixJob
  <2>2. UNCHANGED work \/ (work[w] = Idle /\ Takes(w, t))
    BY <1>3 DEF BugFixJob, Served, Begin, Takes
  <2>3. "pc" \in DOMAIN t /\ t.pc = "pick"
    OBVIOUS
  <2> HIDE DEF t
  <2> QED
    BY <2>1, <2>2, <2>3, IdlePc, Rests, NothingChanges DEF VotePcs
<1>4. CASE PickBug(w)
  <2>1. work[w].pc = "pick" /\ UNCHANGED <<reports, votes, lastReport, dirty, settled>>
    BY <1>4, CommunityLeaves DEF PickBug, At
  <2>2. PICK r \in work[w].todo :
          \/ Takes(w, Ask("bug", r, reports[r].status, work[w].todo \ {r}))
          \/ Takes(w, IF work[w].todo \ {r} = {} THEN Idle ELSE [work[w] EXCEPT !.todo = work[w].todo \ {r}])
    BY <1>4 DEF PickBug, Goto, Takes
  <2>3. CASE Takes(w, Ask("bug", r, reports[r].status, work[w].todo \ {r}))
    BY <2>1, <2>3, AskBegins DEF VotePcs
  <2>4. CASE Takes(w, IF work[w].todo \ {r} = {} THEN Idle ELSE [work[w] EXCEPT !.todo = work[w].todo \ {r}])
    <3> DEFINE rest == work[w].todo \ {r}
               t == IF rest = {} THEN Idle ELSE [work[w] EXCEPT !.todo = rest]
    <3>1. Takes(w, t)
      BY <2>4
    <3>2. "pc" \in DOMAIN t /\ t.pc \in {"idle", "pick"}
      BY <2>1, NextOfList DEF BoardInv
    <3> HIDE DEF t
    <3> QED
      BY <2>1, <3>1, <3>2, Rests DEF VotePcs
  <2> QED
    BY <2>2, <2>3, <2>4
<1>5. CASE AdminSetBugFixProposal(w)
  <2> DEFINE r == work[w].id
             row == [reports[r] EXCEPT !.proposal = TRUE, !.status = Proposed(work[w].status)]
             t == After(w)
  <2>1. /\ UNCHANGED <<votes, lastReport, dirty, settled>> /\ work[w].pc = "ask" /\ Takes(w, t)
        /\ work[w].kind = "bug"
    BY <1>5 DEF AdminSetBugFixProposal, At, Goto, Takes, counterVars, observerVars
  <2>2. reports' = IF r \in Existing(reports) THEN [reports EXCEPT ![r] = row] ELSE reports
    BY <1>5 DEF AdminSetBugFixProposal
  <2>3. r \in Existing(reports) => r \in ReportIds /\ RowFields \subseteq DOMAIN reports[r]
    BY DEF BoardInv, BoardOK, Existing
  <2>4. r \in Existing(reports) =>
          /\ RowFields \subseteq DOMAIN row
          /\ row.kind = reports[r].kind /\ row.count = reports[r].count
          /\ row.status = Proposed(work[w].status)
    BY <2>3 DEF RowFields
  <2>5. r \in settled => Proposed(work[w].status) = work[w].status /\ work[w].status \in Closed
    BY <2>1 DEF BoardInv, Upheld, Proposed, Closed
  <2>6. "pc" \in DOMAIN t /\ t.pc \in {"idle", "pick"}
    BY RestPc
  <2>7. reports = [q \in ReportIds |-> reports[q]]
    BY DEF BoardInv, BoardOK
  <2> HIDE DEF t, row
  <2>8. reports' = [q \in ReportIds |-> reports'[q]]
    BY <2>2, <2>7
  <2>9. \A q \in ReportIds : reports'[q] = reports[q] \/
            /\ q \in Existing(reports)
            /\ RowFields \subseteq DOMAIN reports'[q]
            /\ reports'[q].kind = reports[q].kind /\ reports'[q].count = reports[q].count
    BY <2>2, <2>3, <2>4, <2>7
  <2>10. ASSUME NEW q \in settled PROVE reports'[q].status \in {reports[q].status} \cup Closed
    <3>1. q \in ReportIds
      BY DEF BoardInv, SettledOK
    <3>2. CASE q = r /\ r \in Existing(reports)
      <4>1. reports'[q] = row
        BY <2>2, <2>3, <2>7, <3>2
      <4> QED
        BY <2>4, <2>5, <3>2, <4>1
    <3>3. CASE ~(q = r /\ r \in Existing(reports))
      <4>1. reports'[q] = reports[q]
        BY <2>2, <2>7, <3>1, <3>3
      <4> QED
        BY <4>1
    <3> QED
      BY <3>2, <3>3
  <2> HIDE DEF r
  <2> QED
    BY <2>1, <2>6, <2>8, <2>9, <2>10, RowsWritten DEF VotePcs
<1>6. CASE ProviderFails(w)
  <2> DEFINE t == After(w)
  <2>1. UNCHANGED <<reports, votes, lastReport, dirty, settled>> /\ work[w].pc = "ask" /\ Takes(w, t)
    BY <1>6, CommunityLeaves DEF ProviderFails, At, Goto, Takes
  <2>2. "pc" \in DOMAIN t /\ t.pc \in {"idle", "pick"}
    BY RestPc
  <2> HIDE DEF t
  <2> QED
    BY <2>1, <2>2, Rests DEF VotePcs
<1> QED
  BY <1>1, <1>2, <1>3, <1>4, <1>5, <1>6, UpdateBugStep DEF Triage

LEMMA CrashStep ==
  ASSUME BoardInv, NEW w \in Workers, Crash(w)
  PROVE  BoardInv'
<1>1. ASSUME NEW p, NEW u, Ingest(w, p, u) PROVE BoardInv'
  <2> DEFINE t == [pc |-> IF OfPrint(p) = {} THEN "group" ELSE "bump", print |-> p, u |-> u,
                   seen |-> {groups[g].count : g \in OfPrint(p)}]
  <2>1. /\ UNCHANGED <<reports, votes, lastReport, dirty, settled>>
        /\ work[w] = Idle /\ Takes(w, t)
    BY <1>1, CommunityLeaves DEF Ingest, Begin, Takes
  <2>2. "pc" \in DOMAIN t /\ t.pc \in {"group", "bump"}
    OBVIOUS
  <2> HIDE DEF t
  <2> QED
    BY <2>1, <2>2, IdlePc, Rests DEF VotePcs
<1>2. ASSUME NEW g, SuggestErrorFix(w, g) PROVE BoardInv'
  <2>1. UNCHANGED <<reports, votes, lastReport, dirty, settled>>
    BY <1>2, CommunityLeaves DEF SuggestErrorFix
  <2>2. UNCHANGED work \/ (work[w] = Idle /\ Takes(w, Ask("error", g, 0, {})))
    BY <1>2 DEF SuggestErrorFix, Served, Begin, Takes
  <2> QED
    BY <2>1, <2>2, IdlePc, AskForErrorBegins, NothingChanges DEF VotePcs
<1>3. CASE InsertErrorReport(w) \/ BumpErrorReport(w)
  <2>1. /\ UNCHANGED <<reports, votes, lastReport, dirty, settled>>
        /\ work[w].pc \in {"group", "bump"} /\ Takes(w, Idle)
    BY <1>3 DEF InsertErrorReport, BumpErrorReport, At, Finish, Goto, Takes, counterVars
  <2> QED
    BY <2>1, IdlePc, Rests DEF VotePcs
<1>4. CASE ErrorFixJob(w)
  <2> DEFINE t == [pc |-> "pick", kind |-> "error", todo |-> AdminErrorFixCandidates]
  <2>1. UNCHANGED <<reports, votes, lastReport, dirty, settled>>
    BY <1>4, CommunityLeaves DEF ErrorFixJob
  <2>2. UNCHANGED work \/ (work[w] = Idle /\ Takes(w, t))
    BY <1>4 DEF ErrorFixJob, Served, Begin, Takes
  <2>3. "pc" \in DOMAIN t /\ t.pc = "pick"
    OBVIOUS
  <2> HIDE DEF t
  <2> QED
    BY <2>1, <2>2, <2>3, IdlePc, Rests, NothingChanges DEF VotePcs
<1>5. CASE PickError(w)
  <2>1. work[w].pc = "pick" /\ UNCHANGED <<reports, votes, lastReport, dirty, settled>>
    BY <1>5, CommunityLeaves DEF PickError, At
  <2>2. PICK g \in work[w].todo :
          \/ Takes(w, Ask("error", g, 0, work[w].todo \ {g}))
          \/ Takes(w, IF work[w].todo \ {g} = {} THEN Idle ELSE [work[w] EXCEPT !.todo = work[w].todo \ {g}])
    BY <1>5 DEF PickError, Goto, Takes
  <2>3. CASE Takes(w, Ask("error", g, 0, work[w].todo \ {g}))
    BY <2>1, <2>3, AskForErrorBegins DEF VotePcs
  <2>4. CASE Takes(w, IF work[w].todo \ {g} = {} THEN Idle ELSE [work[w] EXCEPT !.todo = work[w].todo \ {g}])
    <3> DEFINE rest == work[w].todo \ {g}
               t == IF rest = {} THEN Idle ELSE [work[w] EXCEPT !.todo = rest]
    <3>1. Takes(w, t)
      BY <2>4
    <3>2. "pc" \in DOMAIN t /\ t.pc \in {"idle", "pick"}
      BY <2>1, NextOfList DEF BoardInv
    <3> HIDE DEF t
    <3> QED
      BY <2>1, <3>1, <3>2, Rests DEF VotePcs
  <2> QED
    BY <2>2, <2>3, <2>4
<1>6. CASE AdminSetErrorFixProposal(w)
  <2> DEFINE t == After(w)
  <2>1. UNCHANGED <<reports, votes, lastReport, dirty, settled>> /\ work[w].pc = "ask" /\ Takes(w, t)
    BY <1>6 DEF AdminSetErrorFixProposal, At, Goto, Takes, counterVars, observerVars
  <2>2. "pc" \in DOMAIN t /\ t.pc \in {"idle", "pick"}
    BY RestPc
  <2> HIDE DEF t
  <2> QED
    BY <2>1, <2>2, Rests DEF VotePcs
<1> QED
  BY <1>1, <1>2, <1>3, <1>4, <1>5, <1>6 DEF Crash

\* The client of a toggle is gone: its feature may be behind its votes.
LEMMA AbortStep ==
  ASSUME BoardInv, NEW w \in Workers, CommunityAbort(w)
  PROVE  BoardInv'
<1>1. /\ UNCHANGED <<reports, votes, lastReport, settled>> /\ Takes(w, Idle)
      /\ dirty' = dirty \cup {f \in ReportIds : Voting(w, f)}
  BY DEF CommunityAbort, Abort, Finish, Goto, Takes, tableVars, counterVars
<1>2. CASE work[w].pc \in VotePcs
  <2>1. CASE work[w].f \in ReportIds
    <3>1. work[w].f \in dirty'
      BY <1>1, <1>2, <2>1 DEF Voting, VotePcs
    <3> QED
      BY <1>1, <1>2, <3>1, BallotDrops
  <2>2. CASE work[w].f \notin ReportIds
    <3> DEFINE f == work[w].f
    <3>1. f \notin Existing(reports) /\ Existing(reports)' = Existing(reports) /\ BoardOK'
      BY <1>1, <2>2 DEF BoardInv, BoardOK, Existing
    <3>2. \A g : (g # f /\ g \notin dirty') => g \notin dirty
      BY <1>1
    <3>3. \A r \in settled : "status" \in DOMAIN reports'[r] /\ reports'[r].status = reports[r].status
      BY <1>1 DEF BoardInv, SettledOK
    <3>4. f \notin Features'
      BY <3>1 DEF Features
    <3> HIDE DEF f
    <3> QED
      BY <1>1, <1>2, <3>1, <3>2, <3>3, <3>4, BallotEnds DEF f
  <2> QED
    BY <2>1, <2>2
<1>3. CASE work[w].pc \notin VotePcs
  <2>1. UNCHANGED dirty
    BY <1>1, <1>3 DEF Voting, VotePcs
  <2> QED
    BY <1>1, <1>3, <2>1, IdlePc, Rests DEF VotePcs
<1> QED
  BY <1>2, <1>3

\* A report is gone, and its votes.
LEMMA DeleteBugStep ==
  ASSUME BoardInv, NEW r \in Existing(reports), DeleteBug(r)
  PROVE  BoardInv'
<1>1. /\ UNCHANGED <<work, lastReport, dirty>>
      /\ reports' = [reports EXCEPT ![r] = NoRow]
      /\ votes' = votes \ VotesOf(r) /\ settled' = settled \ {r}
  BY DEF DeleteBug, Served, counterVars
<1>2. DOMAIN reports = ReportIds
  BY DEF BoardInv, BoardOK
<1>3. \A g \in Existing(reports)' : g \in Existing(reports) /\ g # r /\ reports'[g] = reports[g]
  BY <1>1, <1>2 DEF Existing
<1>4. \A g : g # r => VotesOf(g)' = VotesOf(g)
  BY <1>1 DEF VotesOf
<1>5. BoardOK'
  BY <1>1, <1>2, <1>3 DEF BoardInv, BoardOK
<1>6. TasksOK' /\ \A w \in Workers : ReportTask(w)'
  BY <1>1 DEF BoardInv, TasksOK, ReportTask
<1>7. \A w \in Workers : \A f : Voting(w, f)' <=> Voting(w, f)
  BY <1>1 DEF Voting
<1>8. SoloOnly'
  <2> SUFFICES ASSUME NEW x \in Workers, NEW g \in ReportIds, Voting(x, g)', work'[x].solo
               PROVE  /\ \A y \in Workers \ {x} : ~Voting(y, g)'
                      /\ work'[x].pc = "write" /\ g \in Existing(reports)'
                           => work'[x].n = Cardinality(VotesOf(g)')
    BY DEF SoloOnly
  <2>1. Voting(x, g) /\ work'[x] = work[x]
    BY <1>1, <1>7
  <2>2. CASE g \in Existing(reports)'
    BY <1>3, <1>4, <1>7, <2>1, <2>2 DEF BoardInv, SoloOnly
  <2>3. CASE g \notin Existing(reports)'
    BY <1>7, <2>1, <2>3 DEF BoardInv, SoloOnly
  <2> QED
    BY <2>2, <2>3
<1>9. CleanCounts'
  <2> SUFFICES ASSUME NEW g \in Features' \ dirty'
               PROVE  /\ \A x \in Workers : Voting(x, g)' => work'[x].solo
                      /\ (\A x \in Workers : Voting(x, g)' => Undecided(x)') =>
                           reports'[g].count = Cardinality(VotesOf(g)')
    BY DEF CleanCounts
  <2>1. g \in Features \ dirty /\ g # r /\ reports'[g] = reports[g]
    BY <1>1, <1>3 DEF Features
  <2> QED
    BY <1>1, <1>4, <1>7, <2>1 DEF BoardInv, CleanCounts, Undecided
<1>10. \A q \in settled' : reports'[q] = reports[q]
  BY <1>1, <1>2 DEF BoardInv, SettledOK
<1>11. SettledOK' /\ \A w \in Workers : Upheld(w)'
  BY <1>1, <1>10, SettledKept DEF BoardInv, BoardOK, SettledOK
<1> QED
  BY <1>5, <1>6, <1>8, <1>9, <1>11 DEF BoardInv

\* A voter is gone: every feature may be ahead of its votes.
LEMMA DeleteMemberStep ==
  ASSUME BoardInv, NEW u \in Members, DeleteMember(u)
  PROVE  BoardInv'
<1>1. /\ work' = [x \in Workers |-> IF \E f \in ReportIds : Voting(x, f)
                                    THEN [work[x] EXCEPT !.solo = FALSE] ELSE work[x]]
      /\ reports' = [r \in ReportIds |-> IF r \in Existing(reports) /\ reports[r].author = u
                                         THEN [reports[r] EXCEPT !.author = Nobody] ELSE reports[r]]
      /\ votes' \subseteq votes /\ dirty' = dirty \cup Features /\ UNCHANGED <<lastReport, settled>>
  BY DEF DeleteMember, counterVars
<1>2. \A x \in Workers : (\E f \in ReportIds : Voting(x, f)) =>
        /\ work'[x].pc = work[x].pc /\ work'[x].f = work[x].f /\ work'[x].solo = FALSE
        /\ DOMAIN work'[x] = DOMAIN work[x]
        /\ work[x].pc \in VotePcs
        /\ {"f", "solo", "n"} \subseteq DOMAIN work[x] /\ work[x].f \in 1..lastReport
  <2> SUFFICES ASSUME NEW x \in Workers, \E f \in ReportIds : Voting(x, f)
               PROVE  /\ work'[x].pc = work[x].pc /\ work'[x].f = work[x].f /\ work'[x].solo = FALSE
                      /\ DOMAIN work'[x] = DOMAIN work[x]
                      /\ work[x].pc \in VotePcs
                      /\ {"f", "solo", "n"} \subseteq DOMAIN work[x] /\ work[x].f \in 1..lastReport
    OBVIOUS
  <2>1. /\ work[x].pc \in VotePcs /\ work[x].f \in 1..lastReport
        /\ {"pc", "f", "solo", "n"} \subseteq DOMAIN work[x]
    BY DEF Voting, VotePcs, BoardInv, ReportTask, TasksOK
  <2>2. work'[x] = [work[x] EXCEPT !.solo = FALSE]
    BY <1>1
  <2> QED
    BY <2>1, <2>2
<1>3. \A x \in Workers : ~(\E f \in ReportIds : Voting(x, f)) => work'[x] = work[x]
  BY <1>1
<1>4. TasksOK'
  BY <1>1, <1>2, <1>3 DEF BoardInv, TasksOK
<1>5. ASSUME NEW x \in Workers PROVE ReportTask(x)' /\ Upheld(x)'
  <2>1. CASE \E f \in ReportIds : Voting(x, f)
    BY <1>1, <1>2, <2>1 DEF ReportTask, Upheld, VotePcs
  <2>2. CASE ~\E f \in ReportIds : Voting(x, f)
    BY <1>1, <1>3, <2>2 DEF BoardInv, ReportTask, Upheld
  <2> QED
    BY <2>1, <2>2
<1>6. ASSUME NEW r \in ReportIds
      PROVE  reports'[r] = reports[r] \/
               /\ r \in Existing(reports)
               /\ RowFields \subseteq DOMAIN reports'[r]
               /\ reports'[r].kind = reports[r].kind /\ reports'[r].status = reports[r].status
  <2>1. CASE r \in Existing(reports) /\ reports[r].author = u
    <3>1. RowFields \subseteq DOMAIN reports[r]
      BY <2>1 DEF BoardInv, BoardOK
    <3>2. reports'[r] = [reports[r] EXCEPT !.author = Nobody]
      BY <1>1, <2>1
    <3> QED
      BY <2>1, <3>1, <3>2 DEF RowFields
  <2>2. CASE ~(r \in Existing(reports) /\ reports[r].author = u)
    BY <1>1, <2>2
  <2> QED
    BY <2>1, <2>2
<1>7. DOMAIN reports' = ReportIds /\ DOMAIN reports = ReportIds
  BY <1>1 DEF BoardInv, BoardOK
<1>8. \A r \in Existing(reports)' : /\ r \in Existing(reports) /\ RowFields \subseteq DOMAIN reports'[r]
                                    /\ reports'[r].kind = reports[r].kind
  BY <1>6, <1>7 DEF Existing, BoardInv, BoardOK
<1>9. BoardOK'
  BY <1>1, <1>8 DEF BoardInv, BoardOK, Existing
<1>10. \A x \in Workers, f \in ReportIds : Voting(x, f)' => work'[x].solo = FALSE
  BY <1>2, <1>3 DEF Voting
<1>11. SoloOnly'
  BY <1>10 DEF SoloOnly
<1>12. CleanCounts'
  BY <1>1, <1>8 DEF CleanCounts, Features
<1>13. SettledOK'
  BY <1>1, <1>6 DEF BoardInv, SettledOK, RowFields
<1> QED
  BY <1>4, <1>5, <1>9, <1>11, <1>12, <1>13 DEF BoardInv

LEMMA BoardStep == BoardInv /\ [CommunityNext]_<<servingVars, communityVars>> => BoardInv'
<1> SUFFICES ASSUME BoardInv, [CommunityNext]_<<servingVars, communityVars>> PROVE BoardInv'
  OBVIOUS
<1>1. ASSUME NEW g \in GroupIds, DeleteError(g) PROVE BoardInv'
  BY <1>1, NothingChanges DEF DeleteError, Served, counterVars
<1>2. ASSUME NEW g \in GroupIds, NEW raw \in Raws, SetStatusRaw(g, raw) PROVE BoardInv'
  BY <1>2, NothingChanges DEF SetStatusRaw, Served, counterVars, observerVars
<1>3. CASE UNCHANGED <<servingVars, communityVars>>
  BY <1>3, NothingChanges, CommunityLeaves DEF servingVars
<1> QED
  BY <1>1, <1>2, <1>3, SubmissionStep, ToggleStep, TriageStep, CrashStep, AbortStep, DeleteBugStep,
     DeleteMemberStep
  DEF CommunityNext

LEMMA BoardInitially == ServingInit /\ CommunityInit => BoardInv
<1> SUFFICES ASSUME ServingInit, CommunityInit PROVE BoardInv
  OBVIOUS
<1>1. TasksOK /\ \A w \in Workers : work[w].pc = "idle"
  BY TasksInitially
<1>2. \A w \in Workers : ReportTask(w) /\ Upheld(w) /\ \A f : ~Voting(w, f)
  BY <1>1 DEF ReportTask, Upheld, Voting, VotePcs
<1>3. /\ reports = [r \in ReportIds |-> IF r \in DOMAIN Seed THEN Seed[r] ELSE NoRow]
      /\ votes = {} /\ lastReport = Len(Seed) /\ settled = {}
  BY DEF CommunityInit
<1>4. /\ Len(Seed) \in Nat /\ DOMAIN Seed = 1..Len(Seed)
      /\ \A r \in DOMAIN Seed : RowFields \subseteq DOMAIN Seed[r] /\ Seed[r].count = 0
  <2>1. Seed \in Seq(Report) /\ \A r \in DOMAIN Seed : Seed[r].count = 0
    BY CommunityAssumption
  <2>2. Len(Seed) \in Nat /\ DOMAIN Seed = 1..Len(Seed) /\ \A r \in DOMAIN Seed : Seed[r] \in Report
    BY <2>1
  <2>3. \A row \in Report : RowFields \subseteq DOMAIN row
    BY DEF Report, RowFields
  <2> QED
    BY <2>1, <2>2, <2>3
<1>5. \A r \in Existing(reports) : r \in DOMAIN Seed /\ reports[r] = Seed[r]
  BY <1>3 DEF Existing
<1>6. BoardOK
  BY <1>3, <1>4, <1>5 DEF BoardOK
<1>7. \A f : Cardinality(VotesOf(f)) = 0
  BY <1>3, FS_EmptySet DEF VotesOf
<1>8. SoloOnly /\ CleanCounts
  BY <1>2, <1>4, <1>5, <1>7 DEF SoloOnly, CleanCounts, Features
<1> QED
  BY <1>1, <1>2, <1>3, <1>6, <1>8 DEF BoardInv, SettledOK

\* For any number of toggles at once, in any order of their statements, aborted
\* or not, with reports edited and deleted beside them: the count of a feature is
\* the number of its votes after a toggle that ran alone (feedback/usecase.go,
\* ToggleVote).
THEOREM VoteCountsExact == CommunitySpec => []VoteCountExact
<1>1. BoardInv => VoteCountExact
  BY DEF BoardInv, CleanCounts, VoteCountExact
<1> QED
  BY <1>1, BoardInitially, BoardStep, PTL DEF CommunitySpec

\* Whatever requests had read a bug before an admin closed it undisturbed, and
\* however long the AI provider takes, none of them opens it again
\* (bugreports/admin_usecase.go, SuggestFix and AdminUpdate).
THEOREM ClosedAlwaysStays == CommunitySpec => []ClosedStaysClosed
<1>1. BoardInv => ClosedStaysClosed
  BY DEF BoardInv, SettledOK, ClosedStaysClosed
<1> QED
  BY <1>1, BoardInitially, BoardStep, PTL DEF CommunitySpec

-----------------------------------------------------------------------------
(***************************************************************************)
(* What the tables of the board hold.  A row that is submitted, edited or  *)
(* proposed for stays presentable because of what a request carries: a     *)
(* PATCH writes back the columns of the row it read, and no row changes    *)
(* its kind.  CrashesCounted adds up the counts of a fingerprint: the sum  *)
(* is the number of their units (SumTheorems), which a step makes grow by  *)
(* as many as it accepts, or moves to those gone.                          *)
(***************************************************************************)
ReportsOK ==
  /\ reports \in [ReportIds -> Report \cup {NoRow}]
  /\ lastFile \in Nat /\ files \subseteq 1..lastFile
  /\ \A r \in Existing(reports) : Presentable(reports[r]) /\ reports[r].shot \in files \cup {0}

VotesOK == members \subseteq Members /\ votes \subseteq Features \X members /\ IsFiniteSet(votes)

GroupsOK ==
  /\ groups \in [GroupIds -> Group \cup {NoRow}] /\ lastGroup \in Nat
  /\ \A g \in Existing(groups) : g <= lastGroup
  /\ accepted \in [Prints -> Nat] /\ gone \in [Prints -> Nat]

Edit == [status : BugStatuses, notes : {"none", "given"}, title : {"none", "given"},
         platform : Platforms \cup {"none"}, public : BOOLEAN]

\* Row r is a feature, if it is there.
IsFeature(r) == r \in Existing(reports) => reports[r].kind = "feature"

\* What a request carries.
Fits(t) ==
  /\ t.pc \in {"resolve", "store"} => t.row \in Report /\ Presentable(t.row) /\ t.row.shot \in files \cup {0}
  /\ t.pc \in VotePcs => IsFeature(t.f)
  /\ t.pc = "write" => t.n \in Nat
  /\ t.pc = "patch" =>
       /\ t.columns \in Edit /\ t.id \in 1..lastReport
       /\ \/ t.columns.title = "given" /\ t.columns.platform # "none"
          \/ t.id \in Existing(reports) => reports[t.id].kind = "bug"
  /\ t.pc = "ask" /\ t.kind = "bug" => t.status \in BugStatuses
  /\ t.pc \in {"group", "bump"} => t.print \in Prints

\* The counts of the rows of a fingerprint.
Counts == [g \in GroupIds |-> IF g \in Existing(groups) THEN groups[g].count ELSE 0]
Counted == \A p \in Prints : accepted[p] <= gone[p] + Total(Counts, OfPrint(p))

CommunityInv ==
  /\ ServingTypeOK /\ ReportsOK /\ VotesOK /\ GroupsOK
  /\ (\A w \in Workers : Fits(work[w])) /\ Counted

\* The counts of some groups.
LEMMA CountsOf ==
  ASSUME NEW S \in SUBSET GroupIds, NEW t, NEW f, \A g \in S : t[g] \in Group /\ f[g] = t[g].count
  PROVE  IsFiniteSet(S) /\ (\A g \in S : f[g] \in Nat) /\ Total(f, S) \in Nat
<1>1. \A g \in S : f[g] \in Nat
  BY DEF Group
<1>2. IsFiniteSet(GroupIds)
  BY CommunityAssumption, FS_Interval DEF GroupIds
<1>3. IsFiniteSet(S)
  BY <1>2, FS_Subset
<1> QED
  BY <1>1, <1>3, UnitsFinite

LEMMA CountsAre ==
  ASSUME GroupsOK
  PROVE  \A p : IsFiniteSet(OfPrint(p)) /\ \A g \in OfPrint(p) : Counts[g] = groups[g].count /\ Counts[g] \in Nat
<1> SUFFICES ASSUME NEW p
             PROVE  IsFiniteSet(OfPrint(p)) /\ \A g \in OfPrint(p) : Counts[g] = groups[g].count /\ Counts[g] \in Nat
  OBVIOUS
<1> DEFINE S == OfPrint(p)
           f == Counts
<1>1. S \in SUBSET GroupIds /\ \A g \in S : groups[g] \in Group /\ f[g] = groups[g].count
  BY DEF GroupsOK, OfPrint, Counts, Existing
<1>2. IsFiniteSet(S) /\ \A g \in S : f[g] \in Nat
  <2> HIDE DEF S, f
  <2> QED
    BY <1>1, CountsOf
<1> QED
  BY <1>1, <1>2

LEMMA SumOfCounts ==
  ASSUME GroupsOK, NEW p
  PROVE  MapThenSumSet(LAMBDA g : groups[g].count, OfPrint(p)) = Total(Counts, OfPrint(p))
<1> DEFINE S == OfPrint(p)
<1>1. IsFiniteSet(S) /\ \A g \in S : Counts[g] = groups[g].count /\ Counts[g] \in Nat
  BY CountsAre
<1> DEFINE Adds(any) == any = [T \in SUBSET S |-> IF T = {} THEN 0
                   ELSE groups[CHOOSE x \in T : TRUE].count + any[T \ {CHOOSE x \in T : TRUE}]]
           sum == CHOOSE any : Adds(any)
<1>2. ASSUME NEW any PROVE Adds(any) <=> Summed(any, Counts, S)
  BY <1>1 DEF Summed
<1>3. Adds(sum)
  <2>1. Summed([T \in SUBSET S |-> Net(Counts, T)], Counts, S)
    <3>1. \A x \in S : Counts[x] \in Int
      BY <1>1
    <3> HIDE DEF S
    <3> QED
      BY <1>1, <3>1, NetSolves
  <2>2. \E any : Adds(any)
    <3> HIDE DEF Adds
    <3> QED
      BY <1>2, <2>1
  <2> HIDE DEF Adds
  <2> QED
    BY <2>2
<1>4. Summed(sum, Counts, S)
  <2> HIDE DEF Adds, sum
  <2> QED
    BY <1>2, <1>3
<1>5. sum[S] = Total(Counts, S)
  <2> HIDE DEF S, sum
  <2> QED
    BY <1>1, <1>4, SummedIsNet, NetOfNaturals
<1>6. MapThenSumSet(LAMBDA g : groups[g].count, S) = sum[S]
  BY DEF MapThenSumSet, MapThenFoldSet
<1> QED
  BY <1>5, <1>6 DEF MapThenSumSet, MapThenFoldSet

-----------------------------------------------------------------------------
\* What a step leaves alone stays as it is.
LEMMA CrashesSame ==
  ASSUME CommunityInv, UNCHANGED <<groups, lastGroup, accepted, gone>>
  PROVE  GroupsOK' /\ Counted'
<1>1. GroupsOK' /\ Existing(groups)' = Existing(groups)
  BY DEF CommunityInv, GroupsOK, Existing
<1>2. Counts' = Counts /\ \A p : OfPrint(p)' = OfPrint(p)
  BY <1>1 DEF Counts, OfPrint
<1>3. Counted'
  BY <1>2 DEF CommunityInv, Counted
<1> QED
  BY <1>1, <1>3

LEMMA ReportsSame ==
  ASSUME CommunityInv, UNCHANGED <<reports, files, lastFile>>
  PROVE  ReportsOK'
  BY DEF CommunityInv, ReportsOK, Existing

LEMMA VotesSame ==
  ASSUME CommunityInv, UNCHANGED <<reports, members>>, votes' \subseteq votes
  PROVE  VotesOK'
  BY FS_Subset DEF CommunityInv, VotesOK, Features, Existing

\* No row changes its kind, and none comes back.
KindsKept ==
  /\ lastReport' \in Nat /\ lastReport <= lastReport' /\ files \subseteq files'
  /\ \A r \in 1..lastReport : r \in Existing(reports)' =>
       r \in Existing(reports) /\ reports'[r].kind = reports[r].kind

LEMMA SameKinds ==
  ASSUME BoardInv, UNCHANGED <<reports, lastReport>>, files \subseteq files'
  PROVE  KindsKept
  BY DEF BoardInv, BoardOK, KindsKept, Existing

LEMMA FitsStill ==
  ASSUME CommunityInv, BoardInv, KindsKept, NEW w \in Workers, work'[w] = work[w]
  PROVE  Fits(work[w])'
<1>1. Fits(work[w]) /\ ReportTask(w) /\ lastReport \in Nat
  BY DEF CommunityInv, BoardInv, BoardOK
<1>2. work[w].pc \in VotePcs => work[w].f \in 1..lastReport
  BY <1>1 DEF ReportTask
<1>3. (work[w].pc \in VotePcs => IsFeature(work[w].f))'
  BY <1>1, <1>2 DEF Fits, IsFeature, KindsKept
<1>4. (work[w].pc = "patch" =>
         /\ work[w].columns \in Edit /\ work[w].id \in 1..lastReport
         /\ \/ work[w].columns.title = "given" /\ work[w].columns.platform # "none"
            \/ work[w].id \in Existing(reports) => reports[work[w].id].kind = "bug")'
  BY <1>1 DEF Fits, KindsKept
<1>5. (work[w].pc \in {"resolve", "store"} =>
         work[w].row \in Report /\ Presentable(work[w].row) /\ work[w].row.shot \in files \cup {0})'
  BY <1>1 DEF Fits, KindsKept, Presentable
<1> QED
  BY <1>1, <1>3, <1>4, <1>5 DEF Fits

\* A request goes on, and nothing else.
LEMMA Proceeds ==
  ASSUME CommunityInv, BoardInv, BoardInv', ServingTypeOK', UNCHANGED communityVars,
         NEW w \in Workers, NEW t, "pc" \in DOMAIN t, Fits(t), Takes(w, t)
  PROVE  CommunityInv'
<1>1. UNCHANGED <<members, reports, votes, groups, files, lastReport, lastGroup, lastFile, accepted, gone>>
  BY DEF communityVars, tableVars, counterVars, observerVars
<1>2. work'[w] = t /\ \A v \in Workers \ {w} : work'[v] = work[v]
  BY TakesGives DEF BoardInv
<1>3. KindsKept
  BY <1>1, SameKinds
<1>4. \A v \in Workers \ {w} : Fits(work[v])'
  BY <1>2, <1>3, FitsStill
<1>5. Fits(work[w])'
  BY <1>1, <1>2 DEF Fits, IsFeature, Presentable, Existing
<1>6. GroupsOK' /\ Counted' /\ ReportsOK' /\ VotesOK'
  BY <1>1, CrashesSame, ReportsSame, VotesSame
<1> QED
  BY <1>4, <1>5, <1>6 DEF CommunityInv

\* Nothing happens but that a request is answered.
LEMMA Answers ==
  ASSUME CommunityInv, BoardInv, ServingTypeOK', UNCHANGED communityVars, UNCHANGED work
  PROVE  CommunityInv'
<1>1. UNCHANGED <<members, reports, votes, groups, files, lastReport, lastGroup, lastFile, accepted, gone>>
  BY DEF communityVars, tableVars, counterVars, observerVars
<1>2. \A v \in Workers : Fits(work[v])'
  BY <1>1, SameKinds, FitsStill
<1>3. GroupsOK' /\ Counted' /\ ReportsOK' /\ VotesOK'
  BY <1>1, CrashesSame, ReportsSame, VotesSame
<1> QED
  BY <1>2, <1>3 DEF CommunityInv

\* A task that touches no table, or has nothing to write.
LEMMA PlainFits ==
  ASSUME NEW t, t.pc \in {"idle", "pick"}
  PROVE  Fits(t)
  BY DEF Fits, VotePcs

\* Requests and aborts are counted up to their bounds.
LEMMA ServingKept ==
  ASSUME ServingTypeOK, TasksOK',
         \/ \E op : Arrive(op)
         \/ UNCHANGED <<ops, requests, aborts>>
         \/ \E w \in Workers : Abort(w)
  PROVE  ServingTypeOK'
<1>1. MaxRequests \in Nat /\ MaxAborts \in Nat
  BY ServingAssumption
<1> QED
  BY <1>1 DEF ServingTypeOK, TasksOK, Arrive, Abort

LEMMA CommunityServing ==
  ASSUME ServingTypeOK, BoardInv', [CommunityNext]_<<servingVars, communityVars>>
  PROVE  ServingTypeOK'
<1>1. TasksOK'
  BY DEF BoardInv
<1> DEFINE Counting == \/ \E op : Arrive(op)
                       \/ UNCHANGED <<ops, requests, aborts>>
                       \/ \E w \in Workers : Abort(w)
<1>2. ASSUME NEW w \in Workers, Submission(w) PROVE Counting
  BY <1>2 DEF Submission, CreateFeedback, CreateBug, ResolveUserID, StoreReport, Served, Begin, At
<1>3. ASSUME NEW w \in Workers, Toggle(w) PROVE Counting
  BY <1>3 DEF Toggle, ToggleVote, VoteExists, InsertVote, DeleteVote, CountVotes, UpdateVoteCount, At
<1>4. ASSUME NEW w \in Workers, Triage(w) PROVE Counting
  BY <1>4 DEF Triage, PatchBug, SuggestBugFix, AdminUpdate, BugFixJob, PickBug, AdminSetBugFixProposal,
              ProviderFails, Served, Begin, At
<1>5. ASSUME NEW w \in Workers, Crash(w) PROVE Counting
  BY <1>5 DEF Crash, Ingest, SuggestErrorFix, InsertErrorReport, BumpErrorReport, ErrorFixJob, PickError,
              AdminSetErrorFixProposal, Served, Begin, At
<1>6. ASSUME NEW w \in Workers, CommunityAbort(w) PROVE Counting
  BY <1>6 DEF CommunityAbort
<1>7. ASSUME NEW r, DeleteBug(r) PROVE Counting
  BY <1>7 DEF DeleteBug, Served
<1>8. ASSUME NEW g, NEW raw, DeleteError(g) \/ SetStatusRaw(g, raw) PROVE Counting
  BY <1>8 DEF DeleteError, SetStatusRaw, Served
<1>9. ASSUME NEW u, DeleteMember(u) PROVE Counting
  BY <1>9 DEF DeleteMember
<1>10. ASSUME UNCHANGED <<servingVars, communityVars>> PROVE Counting
  <2>1. UNCHANGED <<ops, requests, aborts>>
    BY <1>10 DEF servingVars
  <2> QED
    BY <2>1
<1>11. Counting
  <2> HIDE DEF Counting
  <2>1. ASSUME NEW g, DeleteError(g) PROVE Counting
    BY <1>8, <2>1
  <2>2. ASSUME NEW g, NEW raw, SetStatusRaw(g, raw) PROVE Counting
    BY <1>8, <2>2
  <2>3. ASSUME CommunityNext PROVE Counting
    BY <1>2, <1>3, <1>4, <1>5, <1>6, <1>7, <1>9, <2>1, <2>2, <2>3 DEF CommunityNext
  <2> QED
    BY <1>10, <2>3
<1> QED
  BY <1>1, <1>11, ServingKept

-----------------------------------------------------------------------------
(***************************************************************************)
(* Step by step.                                                           *)
(***************************************************************************)
LEMMA SubmissionTyped ==
  ASSUME CommunityInv, BoardInv, BoardInv', ServingTypeOK', NEW w \in Workers, Submission(w)
  PROVE  CommunityInv'
<1> USE DEF CommunityInv
<1>1. ASSUME NEW b \in Bodies, NEW u \in Members \cup {Nobody}, CreateFeedback(w, b, u)
      PROVE  CommunityInv'
  <2> DEFINE row == NewFeedback(b, u)
             t == [pc |-> "resolve", row |-> row]
  <2>1. CASE UNCHANGED work
    BY <1>1, <2>1, Answers DEF CreateFeedback
  <2>2. CASE ~Malformed(b) /\ ~Unfit(b) /\ Takes(w, t)
    <3>1. row \in Report /\ Presentable(row) /\ row.shot = 0
      BY <2>2 DEF NewFeedback, Report, Presentable, Malformed, Unfit, BugStatuses
    <3>2. "pc" \in DOMAIN t /\ t.pc = "resolve" /\ t.row = row
      OBVIOUS
    <3> HIDE DEF row, t
    <3>3. Fits(t)
      BY <3>1, <3>2 DEF Fits, VotePcs
    <3> QED
      BY <1>1, <2>2, <3>2, <3>3, Proceeds DEF CreateFeedback
  <2> QED
    BY <1>1, <2>1, <2>2 DEF CreateFeedback, Served, Begin, Takes
<1>2. ASSUME NEW text, NEW shot, NEW u \in Members \cup {Nobody}, CreateBug(w, text, shot, u)
      PROVE  CommunityInv'
  <2>1. UNCHANGED <<members, reports, votes, groups, lastReport, lastGroup, accepted, gone>>
    BY <1>2 DEF CreateBug, observerVars
  <2>2. \A n \in Nat : /\ NewBug(u, n) \in Report /\ Presentable(NewBug(u, n)) /\ NewBug(u, n).shot = n
    BY DEF NewBug, Report, Presentable, BugStatuses
  <2>3. CASE UNCHANGED <<work, files, lastFile>>
    <3>1. KindsKept /\ \A v \in Workers : Fits(work[v])'
      BY <2>1, <2>3, SameKinds, FitsStill
    <3> QED
      BY <2>1, <2>3, <3>1, CrashesSame, ReportsSame, VotesSame
  <2>4. ASSUME NEW n \in Nat, n \in files' \cup {0}, Takes(w, [pc |-> "resolve", row |-> NewBug(u, n)]),
               files \subseteq files', lastFile' \in Nat, lastFile <= lastFile', files' \subseteq 1..lastFile'
        PROVE  CommunityInv'
    <3> DEFINE t == [pc |-> "resolve", row |-> NewBug(u, n)]
    <3>1. "pc" \in DOMAIN t /\ t.pc = "resolve" /\ t.row = NewBug(u, n) /\ Takes(w, t)
      BY <2>4
    <3> HIDE DEF t
    <3>2. work'[w] = t /\ \A v \in Workers \ {w} : work'[v] = work[v]
      BY <3>1, TakesGives DEF BoardInv
    <3>3. Fits(work[w])'
      BY <2>2, <2>4, <3>1, <3>2 DEF Fits, VotePcs, Presentable
    <3>4. KindsKept
      BY <2>1, <2>4, SameKinds
    <3>5. \A v \in Workers \ {w} : Fits(work[v])'
      BY <3>2, <3>4, FitsStill
    <3>6. ReportsOK'
      BY <2>1, <2>4 DEF ReportsOK, Existing, Presentable
    <3> QED
      BY <2>1, <3>3, <3>5, <3>6, CrashesSame, VotesSame
  <2>5. CASE Takes(w, [pc |-> "resolve", row |-> NewBug(u, 0)]) /\ UNCHANGED <<files, lastFile>>
    BY <2>4, <2>5 DEF ReportsOK
  <2>6. CASE /\ Takes(w, [pc |-> "resolve", row |-> NewBug(u, lastFile + 1)])
             /\ lastFile' = lastFile + 1 /\ files' = files \cup {lastFile + 1}
    <3>1. lastFile \in Nat /\ files \subseteq 1..lastFile
      BY DEF ReportsOK
    <3>2. lastFile + 1 \in Nat /\ lastFile + 1 \in files' /\ files' \subseteq 1..(lastFile + 1)
      BY <2>6, <3>1
    <3> QED
      BY <2>4, <2>6, <3>1, <3>2
  <2> QED
    BY <1>2, <2>3, <2>5, <2>6 DEF CreateBug, Served, Begin, Takes
<1>3. CASE ResolveUserID(w)
  <2> DEFINE u == work[w].row.author
             t == [work[w] EXCEPT !.pc = "store", !.row.author = IF u \in members THEN u ELSE Nobody]
             row == [work[w].row EXCEPT !.author = IF u \in members THEN u ELSE Nobody]
  <2>1. work[w].pc = "resolve" /\ Takes(w, t) /\ UNCHANGED communityVars
    BY <1>3 DEF ResolveUserID, At, Goto, Takes
  <2>2. {"pc", "row"} \subseteq DOMAIN work[w] /\ work[w].row \in Report /\ Presentable(work[w].row)
        /\ work[w].row.shot \in files \cup {0}
    BY <2>1 DEF BoardInv, TasksOK, ReportTask, Fits
  <2>3. "pc" \in DOMAIN t /\ t.pc = "store" /\ t.row = row
    BY <2>2
  <2>4. row \in Report /\ Presentable(row) /\ row.shot \in files \cup {0}
    BY <2>2 DEF Report, Presentable, VotesOK
  <2> HIDE DEF t, row
  <2>5. Fits(t)
    BY <2>3, <2>4 DEF Fits, VotePcs
  <2> QED
    BY <2>1, <2>3, <2>5, Proceeds
<1>4. CASE StoreReport(w)
  <2>1. /\ UNCHANGED <<members, votes, groups, files, lastGroup, lastFile, accepted, gone>>
        /\ work[w].pc = "store" /\ Takes(w, Idle) /\ lastReport < MaxReports
    BY <1>4 DEF StoreReport, At, Finish, Goto, Takes, observerVars
  <2>2. work'[w] = Idle /\ \A v \in Workers \ {w} : work'[v] = work[v]
    BY <2>1, TakesGives, IdlePc DEF BoardInv
  <2>3. Fits(work[w])'
    BY <2>2, IdlePc DEF Fits, VotePcs
  <2>4. CASE UNCHANGED <<reports, lastReport>>
    <3>1. \A v \in Workers \ {w} : Fits(work[v])'
      BY <2>1, <2>2, <2>4, SameKinds, FitsStill
    <3> QED
      BY <2>1, <2>3, <2>4, <3>1, CrashesSame, VotesSame, ReportsSame
  <2>5. CASE reports' = [reports EXCEPT ![lastReport + 1] = work[w].row] /\ lastReport' = lastReport + 1
    <3> DEFINE id == lastReport + 1
               row == work[w].row
    <3>1. row \in Report /\ Presentable(row) /\ row.shot \in files \cup {0}
      BY <2>1 DEF Fits
    <3>2. lastReport \in Nat /\ reports \in [ReportIds -> Report \cup {NoRow}] /\ id \in ReportIds
      BY <2>1, CommunityAssumption DEF BoardInv, BoardOK, ReportsOK, ReportIds
    <3>3. \A r \in Existing(reports) : r # id /\ r \in ReportIds
      BY <3>2 DEF BoardInv, BoardOK, Existing
    <3> HIDE DEF row
    <3>4. /\ reports' \in [ReportIds -> Report \cup {NoRow}] /\ reports'[id] = row
          /\ \A r \in ReportIds \ {id} : reports'[r] = reports[r]
      BY <2>5, <3>1, <3>2 DEF row
    <3>5. ReportsOK'
      BY <2>1, <3>1, <3>4 DEF ReportsOK, Existing
    <3>6. KindsKept
      BY <2>1, <2>5, <3>2, <3>4 DEF KindsKept, Existing
    <3>7. \A v \in Workers \ {w} : Fits(work[v])'
      BY <2>2, <3>6, FitsStill
    <3>8. Features \subseteq Features'
      BY <3>2, <3>3, <3>4 DEF Features, Existing
    <3>9. VotesOK'
      BY <2>1, <3>8 DEF VotesOK
    <3> QED
      BY <2>1, <2>3, <3>5, <3>7, <3>9, CrashesSame
  <2> QED
    BY <1>4, <2>4, <2>5 DEF StoreReport
<1> QED
  BY <1>1, <1>2, <1>3, <1>4 DEF Submission

\* Rows of reports are written, and stay what they are.
RowsKept ==
  /\ reports' \in [ReportIds -> Report \cup {NoRow}] /\ UNCHANGED <<lastReport, files, lastFile>>
  /\ \A r \in ReportIds : reports'[r] = reports[r]
       \/ /\ r \in Existing(reports) /\ reports'[r] \in Report /\ Presentable(reports'[r])
          /\ reports'[r].kind = reports[r].kind /\ reports'[r].shot = reports[r].shot

LEMMA RowsKeptKeeps ==
  ASSUME CommunityInv, BoardInv, RowsKept
  PROVE  ReportsOK' /\ KindsKept /\ Features' = Features
<1>1. NoRow \notin Report /\ DOMAIN reports = ReportIds /\ DOMAIN reports' = ReportIds
  BY CommunityAssumption DEF CommunityInv, ReportsOK, RowsKept
<1>2. \A r \in Existing(reports)' :
        /\ r \in Existing(reports) /\ reports'[r].kind = reports[r].kind
        /\ Presentable(reports'[r]) /\ reports'[r].shot = reports[r].shot
  BY <1>1 DEF RowsKept, Existing, CommunityInv, ReportsOK
<1>3. \A r \in Existing(reports) : r \in Existing(reports)'
  BY <1>1 DEF RowsKept, Existing
<1>4. ReportsOK'
  BY <1>2 DEF RowsKept, CommunityInv, ReportsOK
<1>5. KindsKept
  BY <1>2 DEF RowsKept, KindsKept, BoardInv, BoardOK
<1>6. Features' = Features
  BY <1>2, <1>3 DEF Features
<1> QED
  BY <1>4, <1>5, <1>6

LEMMA ToggleTyped ==
  ASSUME CommunityInv, BoardInv, BoardInv', ServingTypeOK', NEW w \in Workers, Toggle(w)
  PROVE  CommunityInv'
<1> USE DEF CommunityInv
<1>1. ASSUME NEW f \in 1..lastReport, NEW u \in members, ToggleVote(w, f, u) PROVE CommunityInv'
  <2> DEFINE t == [pc |-> "seek", f |-> f, u |-> u,
                   solo |-> ~(\E x \in Workers : Voting(x, f)), n |-> 0]
  <2>1. UNCHANGED <<members, reports, votes, groups, files, lastReport, lastGroup, lastFile, accepted, gone>>
    BY <1>1 DEF ToggleVote, tableVars, counterVars
  <2>2. KindsKept
    BY <2>1, SameKinds
  <2>3. CASE f \notin Features
    <3>1. \A v \in Workers : Fits(work[v])'
      BY <1>1, <2>2, <2>3, FitsStill DEF ToggleVote
    <3> QED
      BY <2>1, <3>1, CrashesSame, ReportsSame, VotesSame
  <2>4. CASE f \in Features
    <3>1. work' = [Disturb(f, work) EXCEPT ![w] = t]
      BY <1>1, <2>4 DEF ToggleVote
    <3>2. /\ work'[w] = t
          /\ \A x \in Workers \ {w} :
               work'[x] = IF Voting(x, f) THEN [work[x] EXCEPT !.solo = FALSE] ELSE work[x]
      BY <3>1 DEF Disturb
    <3>3. t.pc = "seek" /\ t.f = f
      OBVIOUS
    <3> HIDE DEF t
    <3>4. Fits(work[w])'
      BY <2>1, <2>4, <3>2, <3>3 DEF Fits, IsFeature, Features, Existing
    <3>5. ASSUME NEW x \in Workers \ {w}, Voting(x, f) PROVE Fits(work[x])'
      <4>1. /\ work[x].pc \in {"seek", "cast", "withdraw", "tally", "write"}
            /\ {"pc", "f", "n", "solo"} \subseteq DOMAIN work[x] /\ Fits(work[x])
        BY <3>5 DEF Voting, BoardInv, TasksOK, ReportTask, VotePcs
      <4>2. work'[x].pc = work[x].pc /\ work'[x].f = work[x].f /\ work'[x].n = work[x].n
        BY <3>2, <3>5, <4>1
      <4> QED
        BY <2>1, <4>1, <4>2 DEF Fits, IsFeature, Existing
    <3>6. ASSUME NEW x \in Workers \ {w}, ~Voting(x, f) PROVE Fits(work[x])'
      BY <2>2, <3>2, <3>6, FitsStill
    <3>7. \A v \in Workers : Fits(work[v])'
      BY <3>4, <3>5, <3>6
    <3> QED
      BY <2>1, <3>7, CrashesSame, ReportsSame, VotesSame
  <2> QED
    BY <2>3, <2>4
<1>2. CASE VoteExists(w)
  <2> DEFINE t == [work[w] EXCEPT !.pc = IF <<work[w].f, work[w].u>> \in votes THEN "withdraw" ELSE "cast"]
  <2>1. work[w].pc = "seek" /\ Takes(w, t) /\ UNCHANGED communityVars
    BY <1>2 DEF VoteExists, At, Goto, Takes
  <2>2. {"pc", "f"} \subseteq DOMAIN work[w] /\ IsFeature(work[w].f)
    BY <2>1 DEF BoardInv, TasksOK, ReportTask, VotePcs, Fits
  <2>3. "pc" \in DOMAIN t /\ t.pc \in {"withdraw", "cast"} /\ t.f = work[w].f
    BY <2>2
  <2> HIDE DEF t
  <2>4. Fits(t)
    BY <2>2, <2>3 DEF Fits
  <2> QED
    BY <2>1, <2>3, <2>4, Proceeds
<1>3. CASE InsertVote(w)
  <2> DEFINE t == [work[w] EXCEPT !.pc = "tally"]
             vote == <<work[w].f, work[w].u>>
  <2>1. UNCHANGED <<members, reports, groups, files, lastReport, lastGroup, lastFile, accepted, gone>>
        /\ work[w].pc = "cast"
    BY <1>3 DEF InsertVote, At, counterVars, observerVars
  <2>2. {"pc", "f"} \subseteq DOMAIN work[w] /\ IsFeature(work[w].f)
    BY <2>1 DEF BoardInv, TasksOK, ReportTask, VotePcs, Fits
  <2>3. KindsKept
    BY <2>1, SameKinds
  <2>4. ASSUME NEW n, "pc" \in DOMAIN n, Fits(n), Takes(w, n), VotesOK' PROVE CommunityInv'
    <3>1. work'[w] = n /\ \A v \in Workers \ {w} : work'[v] = work[v]
      BY <2>4, TakesGives DEF BoardInv
    <3>2. Fits(work[w])'
      BY <2>1, <2>4, <3>1 DEF Fits, IsFeature, Presentable, Existing
    <3>3. \A v \in Workers \ {w} : Fits(work[v])'
      BY <2>3, <3>1, FitsStill
    <3> QED
      BY <2>1, <2>4, <3>2, <3>3, CrashesSame, ReportsSame
  <2>5. CASE /\ work[w].f \in Existing(reports) /\ work[w].u \in members
             /\ votes' = votes \cup {vote} /\ Takes(w, t)
    <3>1. "pc" \in DOMAIN t /\ t.pc = "tally" /\ t.f = work[w].f
      BY <2>2
    <3> HIDE DEF t
    <3>2. Fits(t)
      BY <2>2, <3>1 DEF Fits
    <3>3. work[w].f \in Features /\ Features' = Features
      BY <2>1, <2>2, <2>5 DEF IsFeature, Features, Existing
    <3>4. vote \in Features \X members
      BY <2>5, <3>3
    <3> HIDE DEF vote
    <3>5. votes' \subseteq Features' \X members' /\ IsFiniteSet(votes')
      BY <2>1, <2>5, <3>3, <3>4, FS_AddElement DEF VotesOK
    <3>6. VotesOK'
      BY <2>1, <3>5 DEF VotesOK
    <3> QED
      BY <2>4, <2>5, <3>1, <3>2, <3>6
  <2>6. CASE Takes(w, Idle) /\ UNCHANGED votes
    BY <2>1, <2>4, <2>6, IdlePc, PlainFits, VotesSame
  <2> QED
    BY <1>3, <2>5, <2>6 DEF InsertVote, Goto, Finish, Takes
<1>4. CASE DeleteVote(w)
  <2> DEFINE t == [work[w] EXCEPT !.pc = "tally"]
  <2>1. /\ UNCHANGED <<members, reports, groups, files, lastReport, lastGroup, lastFile, accepted, gone>>
        /\ work[w].pc = "withdraw" /\ votes' \subseteq votes /\ Takes(w, t)
    BY <1>4 DEF DeleteVote, At, Goto, Takes, counterVars, observerVars
  <2>2. {"pc", "f"} \subseteq DOMAIN work[w] /\ IsFeature(work[w].f)
    BY <2>1 DEF BoardInv, TasksOK, ReportTask, VotePcs, Fits
  <2>3. "pc" \in DOMAIN t /\ t.pc = "tally" /\ t.f = work[w].f
    BY <2>2
  <2> HIDE DEF t
  <2>4. work'[w] = t /\ \A v \in Workers \ {w} : work'[v] = work[v]
    BY <2>1, <2>3, TakesGives DEF BoardInv
  <2>5. Fits(work[w])'
    BY <2>1, <2>2, <2>3, <2>4 DEF Fits, IsFeature, Existing
  <2>6. \A v \in Workers \ {w} : Fits(work[v])'
    BY <2>1, <2>4, SameKinds, FitsStill
  <2> QED
    BY <2>1, <2>5, <2>6, CrashesSame, ReportsSame, VotesSame
<1>5. CASE CountVotes(w)
  <2> DEFINE t == [work[w] EXCEPT !.pc = "write", !.n = Cardinality(VotesOf(work[w].f))]
  <2>1. work[w].pc = "tally" /\ Takes(w, t) /\ UNCHANGED communityVars
    BY <1>5 DEF CountVotes, At, Goto, Takes
  <2>2. {"pc", "f", "n"} \subseteq DOMAIN work[w] /\ IsFeature(work[w].f)
    BY <2>1 DEF BoardInv, TasksOK, ReportTask, VotePcs, Fits
  <2>3. Cardinality(VotesOf(work[w].f)) \in Nat
    BY FS_Subset, FS_CardinalityType DEF VotesOf, VotesOK
  <2>4. "pc" \in DOMAIN t /\ t.pc = "write" /\ t.f = work[w].f /\ t.n \in Nat
    BY <2>2, <2>3
  <2> HIDE DEF t
  <2>5. Fits(t)
    BY <2>2, <2>4 DEF Fits
  <2> QED
    BY <2>1, <2>4, <2>5, Proceeds
<1>6. CASE UpdateVoteCount(w)
  <2> DEFINE f == work[w].f
             row == [reports[f] EXCEPT !.count = work[w].n]
  <2>1. /\ UNCHANGED <<members, votes, groups, files, lastReport, lastGroup, lastFile, accepted, gone>>
        /\ work[w].pc = "write" /\ Takes(w, Idle)
        /\ reports' = [reports EXCEPT ![f] = SetCount(reports[f], work[w].n)]
    BY <1>6 DEF UpdateVoteCount, At, Finish, Goto, Takes, counterVars
  <2>2. work[w].n \in Nat /\ reports \in [ReportIds -> Report \cup {NoRow}]
    BY <2>1 DEF Fits, ReportsOK
  <2>3. f \in Existing(reports) =>
          /\ f \in ReportIds /\ reports[f] \in Report /\ row \in Report /\ Presentable(row)
          /\ row.kind = reports[f].kind /\ row.shot = reports[f].shot
    BY <2>2 DEF ReportsOK, Existing, Report, Presentable
  <2>4. SetCount(reports[f], work[w].n) = IF reports[f] = NoRow THEN NoRow ELSE row
    BY DEF SetCount
  <2> HIDE DEF row
  <2>5. RowsKept
    BY <2>1, <2>2, <2>3, <2>4 DEF RowsKept, Existing
  <2>6. work'[w] = Idle /\ \A v \in Workers \ {w} : work'[v] = work[v]
    BY <2>1, TakesGives, IdlePc DEF BoardInv
  <2>7. ReportsOK' /\ KindsKept /\ Features' = Features
    BY <2>5, RowsKeptKeeps
  <2>8. \A v \in Workers \ {w} : Fits(work[v])'
    BY <2>6, <2>7, FitsStill
  <2>9. Fits(work[w])'
    BY <2>6, IdlePc DEF Fits, VotePcs
  <2>10. VotesOK'
    BY <2>1, <2>7 DEF VotesOK
  <2> QED
    BY <2>1, <2>7, <2>8, <2>9, <2>10, CrashesSame
<1> QED
  BY <1>1, <1>2, <1>3, <1>4, <1>5, <1>6 DEF Toggle

\* A task that asks a provider has the status it read of a bug, if it is one.
LEMMA AskFits ==
  ASSUME NEW kind, NEW r, NEW status, NEW todo, kind = "bug" => status \in BugStatuses
  PROVE  "pc" \in DOMAIN Ask(kind, r, status, todo) /\ Fits(Ask(kind, r, status, todo))
<1> DEFINE t == Ask(kind, r, status, todo)
<1>1. "pc" \in DOMAIN t /\ t.pc = "ask" /\ t.kind = kind /\ t.status = status
  BY DEF Ask
<1> HIDE DEF t
<1>2. Fits(t)
  BY <1>1 DEF Fits, VotePcs
<1> QED
  BY <1>1, <1>2 DEF t

LEMMA RestFits == ASSUME NEW w PROVE "pc" \in DOMAIN After(w) /\ Fits(After(w))
  BY RestPc, PlainFits

LEMMA ListFits ==
  ASSUME TasksOK, NEW w \in Workers, work[w].pc = "pick", NEW rest
  PROVE  LET t == IF rest = {} THEN Idle ELSE [work[w] EXCEPT !.todo = rest]
         IN  "pc" \in DOMAIN t /\ Fits(t)
  BY NextOfList, PlainFits

\* Rows of reports are written, and the request that did it goes on with t.
LEMMA RowsWrittenTyped ==
  ASSUME CommunityInv, BoardInv, BoardInv', ServingTypeOK', RowsKept,
         UNCHANGED <<members, votes, groups, lastGroup, accepted, gone>>,
         NEW w \in Workers, NEW t, "pc" \in DOMAIN t, Takes(w, t), t.pc \in {"idle", "pick"}
  PROVE  CommunityInv'
<1>1. work'[w] = t /\ \A v \in Workers \ {w} : work'[v] = work[v]
  BY TakesGives DEF BoardInv
<1>2. ReportsOK' /\ KindsKept /\ Features' = Features
  BY RowsKeptKeeps
<1>3. \A v \in Workers \ {w} : Fits(work[v])'
  BY <1>1, <1>2, FitsStill
<1>4. Fits(work[w])'
  BY <1>1 DEF Fits, VotePcs
<1>5. VotesOK'
  BY <1>2 DEF CommunityInv, VotesOK
<1> QED
  BY <1>2, <1>3, <1>4, <1>5, CrashesSame DEF CommunityInv

\* What a PATCH writes over a row.
LEMMA MergedFits ==
  ASSUME NEW row \in Report, Presentable(row), NEW p \in Patches, Acceptable(p)
  PROVE  /\ Merge(row, p) \in Edit
         /\ row.kind = "feature" => Merge(row, p).title = "given" /\ Merge(row, p).platform # "none"
<1> DEFINE m == Merge(row, p)
<1>1. /\ "notes" \in DOMAIN p => p["notes"] \in {"none", "given"}
      /\ "public" \in DOMAIN p => p["public"] \in BOOLEAN
  BY CommunityAssumption
<1>2. /\ "status" \in DOMAIN p => p["status"] \in BugStatuses
      /\ "title" \in DOMAIN p => p["title"] = "given"
      /\ "platform" \in DOMAIN p => p["platform"] \in Platforms
  BY DEF Acceptable
<1>3. /\ row["status"] \in BugStatuses /\ row["notes"] \in {"none", "given"}
      /\ row["title"] \in {"none", "given"} /\ row["platform"] \in Platforms \cup {"none"}
      /\ row["public"] \in BOOLEAN
  BY DEF Report
<1>4. m = [c \in Columns |-> m[c]]
  BY DEF Merge
<1>5. /\ m["status"] \in BugStatuses /\ m["notes"] \in {"none", "given"}
      /\ m["title"] \in {"none", "given"} /\ m["platform"] \in Platforms \cup {"none"}
      /\ m["public"] \in BOOLEAN
  BY <1>1, <1>2, <1>3 DEF Merge, Columns
<1>6. row.kind = "feature" => m["title"] = "given" /\ m["platform"] # "none"
  BY <1>2 DEF Merge, Columns, Presentable, Platforms
<1> HIDE DEF m
<1>7. m = [status |-> m["status"], notes |-> m["notes"], title |-> m["title"],
           platform |-> m["platform"], public |-> m["public"]]
  BY <1>4 DEF Columns
<1>8. m \in Edit
  BY <1>5, <1>7 DEF Edit
<1> QED
  BY <1>6, <1>8 DEF m

LEMMA OverwrittenTyped ==
  ASSUME NEW row \in Report, NEW new \in Edit,
         row.kind = "feature" => new.title = "given" /\ new.platform # "none"
  PROVE  /\ Overwritten(row, new) \in Report /\ Presentable(Overwritten(row, new))
         /\ Overwritten(row, new).kind = row.kind /\ Overwritten(row, new).shot = row.shot
<1> DEFINE r == Overwritten(row, new)
<1>1. DOMAIN row = {"kind", "title", "platform", "status", "notes", "public", "proposal", "count",
                    "author", "shot"}
      /\ DOMAIN new = Columns
  BY DEF Report, Edit, Columns
<1>2. r = [kind |-> row.kind, title |-> new.title, platform |-> new.platform,
           status |-> new.status, notes |-> new.notes, public |-> new.public,
           proposal |-> row.proposal, count |-> row.count, author |-> row.author, shot |-> row.shot]
  BY <1>1 DEF Overwritten, Columns
<1>3. row \in [kind : {"bug", "feature"}, title : {"none", "given"}, platform : Platforms \cup {"none"},
               status : BugStatuses, notes : {"none", "given"}, public : BOOLEAN, proposal : BOOLEAN,
               count : Nat, author : Members \cup {Nobody}, shot : Nat]
  BY DEF Report
<1> HIDE DEF r
<1>4. r \in Report
  BY <1>2, <1>3 DEF Report, Edit
<1>5. Presentable(r) /\ r.kind = row.kind /\ r.shot = row.shot
  BY <1>2 DEF Presentable
<1> QED
  BY <1>4, <1>5 DEF r

LEMMA TriageTyped ==
  ASSUME CommunityInv, BoardInv, BoardInv', ServingTypeOK', NEW w \in Workers, Triage(w)
  PROVE  CommunityInv'
<1> USE DEF CommunityInv
<1>1. ASSUME NEW r \in 1..lastReport, NEW p \in Patches, PatchBug(w, r, p) PROVE CommunityInv'
  <2> DEFINE t == [pc |-> "patch", id |-> r, named |-> DOMAIN p, columns |-> Merge(reports[r], p)]
  <2>1. UNCHANGED communityVars
    BY <1>1 DEF PatchBug
  <2>2. UNCHANGED work \/ (r \in Existing(reports) /\ Acceptable(p) /\ Takes(w, t))
    BY <1>1 DEF PatchBug, Served, Begin, Takes
  <2>3. CASE UNCHANGED work
    BY <2>1, <2>3, Answers
  <2>4. CASE r \in Existing(reports) /\ Acceptable(p) /\ Takes(w, t)
    <3>1. reports[r] \in Report /\ Presentable(reports[r])
      BY <2>4 DEF ReportsOK, Existing
    <3>2. reports[r].kind \in {"bug", "feature"}
      BY <3>1 DEF Report
    <3>3. "pc" \in DOMAIN t /\ t.pc = "patch" /\ t.id = r /\ t.columns = Merge(reports[r], p)
      OBVIOUS
    <3> HIDE DEF t
    <3>4. Fits(t)
      BY <2>4, <3>1, <3>2, <3>3, MergedFits DEF Fits, VotePcs
    <3> QED
      BY <2>1, <2>4, <3>3, <3>4, Proceeds
  <2> QED
    BY <2>2, <2>3, <2>4
<1>2. ASSUME NEW r \in 1..lastReport, SuggestBugFix(w, r) PROVE CommunityInv'
  <2>1. UNCHANGED communityVars
    BY <1>2 DEF SuggestBugFix
  <2>2. UNCHANGED work \/ (r \in Existing(reports) /\ Takes(w, Ask("bug", r, reports[r].status, {})))
    BY <1>2 DEF SuggestBugFix, Served, Begin, Takes
  <2>3. r \in Existing(reports) => reports[r].status \in BugStatuses
    BY DEF ReportsOK, Existing, Report
  <2> QED
    BY <2>1, <2>2, <2>3, AskFits, Answers, Proceeds
<1>3. CASE BugFixJob(w)
  <2> DEFINE t == [pc |-> "pick", kind |-> "bug", todo |-> AdminBugFixCandidates]
  <2>1. UNCHANGED communityVars
    BY <1>3 DEF BugFixJob
  <2>2. UNCHANGED work \/ Takes(w, t)
    BY <1>3 DEF BugFixJob, Served, Begin, Takes
  <2>3. "pc" \in DOMAIN t /\ t.pc = "pick"
    OBVIOUS
  <2> HIDE DEF t
  <2> QED
    BY <2>1, <2>2, <2>3, PlainFits, Answers, Proceeds
<1>4. CASE PickBug(w)
  <2>1. work[w].pc = "pick" /\ UNCHANGED communityVars
    BY <1>4 DEF PickBug, At
  <2>2. PICK r \in work[w].todo :
          \/ r \in Existing(reports) /\ Takes(w, Ask("bug", r, reports[r].status, work[w].todo \ {r}))
          \/ Takes(w, IF work[w].todo \ {r} = {} THEN Idle ELSE [work[w] EXCEPT !.todo = work[w].todo \ {r}])
    BY <1>4 DEF PickBug, Goto, Takes
  <2>3. r \in Existing(reports) => reports[r].status \in BugStatuses
    BY DEF ReportsOK, Existing, Report
  <2>4. CASE r \in Existing(reports) /\ Takes(w, Ask("bug", r, reports[r].status, work[w].todo \ {r}))
    BY <2>1, <2>3, <2>4, AskFits, Proceeds
  <2>5. CASE Takes(w, IF work[w].todo \ {r} = {} THEN Idle ELSE [work[w] EXCEPT !.todo = work[w].todo \ {r}])
    <3> DEFINE rest == work[w].todo \ {r}
               t == IF rest = {} THEN Idle ELSE [work[w] EXCEPT !.todo = rest]
    <3>1. Takes(w, t)
      BY <2>5
    <3>2. "pc" \in DOMAIN t /\ Fits(t)
      BY <2>1, ListFits DEF BoardInv
    <3> HIDE DEF t
    <3> QED
      BY <2>1, <3>1, <3>2, Proceeds
  <2> QED
    BY <2>2, <2>4, <2>5
<1>5. CASE AdminSetBugFixProposal(w)
  <2> DEFINE r == work[w].id
             row == [reports[r] EXCEPT !.proposal = TRUE, !.status = Proposed(work[w].status)]
             t == After(w)
  <2>1. /\ UNCHANGED <<members, votes, groups, files, lastReport, lastGroup, lastFile, accepted, gone>>
        /\ work[w].pc = "ask" /\ Takes(w, t) /\ work[w].kind = "bug"
    BY <1>5 DEF AdminSetBugFixProposal, At, Goto, Takes, counterVars, observerVars
  <2>2. reports' = IF r \in Existing(reports) THEN [reports EXCEPT ![r] = row] ELSE reports
    BY <1>5 DEF AdminSetBugFixProposal
  <2>3. Proposed(work[w].status) \in BugStatuses
    BY <2>1 DEF Fits, Proposed, BugStatuses
  <2>4. r \in Existing(reports) =>
          /\ r \in ReportIds /\ row \in Report /\ Presentable(row)
          /\ row.kind = reports[r].kind /\ row.shot = reports[r].shot
    BY <2>3 DEF ReportsOK, Existing, Report, Presentable
  <2>5. reports \in [ReportIds -> Report \cup {NoRow}]
    BY DEF ReportsOK
  <2>6. "pc" \in DOMAIN t /\ t.pc \in {"idle", "pick"}
    BY RestPc
  <2> HIDE DEF t, row, r
  <2>7. RowsKept
    BY <2>1, <2>2, <2>4, <2>5 DEF RowsKept, Existing
  <2> QED
    BY <2>1, <2>6, <2>7, RowsWrittenTyped
<1>6. CASE ProviderFails(w)
  <2>1. UNCHANGED communityVars /\ Takes(w, After(w))
    BY <1>6 DEF ProviderFails, Goto, Takes
  <2> QED
    BY <2>1, RestFits, Proceeds
<1>7. CASE AdminUpdate(w)
  <2> DEFINE r == work[w].id
             row == Overwritten(reports[r], work[w].columns)
  <2>1. /\ UNCHANGED <<members, votes, groups, files, lastReport, lastGroup, lastFile, accepted, gone>>
        /\ work[w].pc = "patch" /\ Takes(w, Idle)
    BY <1>7 DEF AdminUpdate, At, Finish, Goto, Takes, counterVars, observerVars
  <2>2. reports' = IF r \in Existing(reports) THEN [reports EXCEPT ![r] = row] ELSE reports
    BY <1>7 DEF AdminUpdate
  <2>3. reports \in [ReportIds -> Report \cup {NoRow}]
    BY DEF ReportsOK
  <2>4. r \in Existing(reports) => r \in ReportIds /\ reports[r] \in Report
    BY <2>3 DEF Existing
  <2>5. /\ work[w].columns \in Edit
        /\ r \in Existing(reports) /\ reports[r].kind = "feature" =>
             work[w].columns.title = "given" /\ work[w].columns.platform # "none"
    BY <2>1 DEF Fits
  <2>6. r \in Existing(reports) =>
          /\ row \in Report /\ Presentable(row)
          /\ row.kind = reports[r].kind /\ row.shot = reports[r].shot
    BY <2>4, <2>5, OverwrittenTyped
  <2> HIDE DEF row, r
  <2>7. RowsKept
    BY <2>1, <2>2, <2>3, <2>4, <2>6 DEF RowsKept
  <2> QED
    BY <2>1, <2>7, IdlePc, RowsWrittenTyped
<1> QED
  BY <1>1, <1>2, <1>3, <1>4, <1>5, <1>6, <1>7 DEF Triage

\* A group stays one of its fingerprint when a column is written.
SamePrint(row, new) == new \in Group /\ new.print = row.print

LEMMA GroupEdited ==
  ASSUME NEW row \in Group
  PROVE  /\ \A n \in Nat : SamePrint(row, [row EXCEPT !.count = n]) /\ [row EXCEPT !.count = n].count = n
         /\ \A u \in Members \cup {Nobody} :
              SamePrint(row, [row EXCEPT !.user = u]) /\ [row EXCEPT !.user = u].count = row.count
         /\ \A s \in Int :
              SamePrint(row, [row EXCEPT !.status = s]) /\ [row EXCEPT !.status = s].count = row.count
         /\ \A b \in BOOLEAN :
              /\ SamePrint(row, [row EXCEPT !.proposal = b]) /\ [row EXCEPT !.proposal = b].count = row.count
              /\ SamePrint(row, [row EXCEPT !.resolved = b]) /\ [row EXCEPT !.resolved = b].count = row.count
         /\ row.count \in Nat /\ row.user \in Members \cup {Nobody} /\ row.resolved \in BOOLEAN
  BY DEF Group, SamePrint

LEMMA GroupProposed ==
  ASSUME NEW row \in Group
  PROVE  /\ SamePrint(row, [row EXCEPT !.proposal = TRUE, !.status = 3])
         /\ [row EXCEPT !.proposal = TRUE, !.status = 3].count = row.count
<1> DEFINE q == [row EXCEPT !.proposal = TRUE]
           r == [q EXCEPT !.status = 3]
<1>1. SamePrint(row, q) /\ q.count = row.count
  BY GroupEdited
<1> HIDE DEF q
<1>2. SamePrint(q, r) /\ r.count = q.count
  BY <1>1, GroupEdited DEF SamePrint
<1> HIDE DEF r
<1>3. SamePrint(row, r) /\ r.count = row.count
  BY <1>1, <1>2 DEF SamePrint
<1> QED BY <1>3 DEF q, r

LEMMA GroupResolved ==
  ASSUME NEW row \in Group, NEW n \in Int, NEW b \in BOOLEAN
  PROVE  /\ SamePrint(row, [row EXCEPT !.status = n, !.resolved = @ \/ b])
         /\ [row EXCEPT !.status = n, !.resolved = @ \/ b].count = row.count
<1> DEFINE q == [row EXCEPT !.status = n]
           r == [q EXCEPT !.resolved = q.resolved \/ b]
<1>1. SamePrint(row, q) /\ q.count = row.count
  BY GroupEdited
<1> HIDE DEF q
<1>2. SamePrint(q, r) /\ r.count = q.count
  <2>1. q \in Group /\ (q.resolved \/ b) \in BOOLEAN
    BY <1>1 DEF SamePrint
  <2> QED
    BY <2>1, GroupEdited DEF SamePrint
<1>3. SamePrint(row, r) /\ r.count = row.count
  <2> HIDE DEF r
  <2> QED
    BY <1>1, <1>2 DEF SamePrint
<1> QED BY <1>3 DEF q, r

LEMMA GroupBumped ==
  ASSUME NEW row \in Group, NEW w, work[w].u \in Members \cup {Nobody}
  PROVE  SamePrint(row, Bumped(w, row)) /\ Bumped(w, row).count = row.count + 1
<1> DEFINE q == [row EXCEPT !.count = row.count + 1]
           u == IF work[w].u = Nobody THEN q.user ELSE work[w].u
           r == [q EXCEPT !.user = u]
<1>1. SamePrint(row, q) /\ q.count = row.count + 1
  <2>1. row.count + 1 \in Nat
    BY GroupEdited
  <2> QED
    BY <2>1, GroupEdited
<1> HIDE DEF q
<1>2. SamePrint(q, r) /\ r.count = q.count
  <2>1. q \in Group /\ u \in Members \cup {Nobody}
    BY <1>1, GroupEdited DEF SamePrint
  <2> HIDE DEF u
  <2> QED
    BY <2>1, GroupEdited DEF SamePrint
<1> HIDE DEF r
<1>3. SamePrint(row, r) /\ r.count = row.count + 1
  BY <1>1, <1>2 DEF SamePrint
<1> QED BY <1>3 DEF q, r, u, Bumped

\* Crashes of p stay counted: nothing is lost, or a count grows by what was accepted.
LEMMA CountedStill ==
  ASSUME GroupsOK, GroupsOK', NEW p \in Prints, accepted[p] <= gone[p] + Total(Counts, OfPrint(p)),
         gone'[p] = gone[p], OfPrint(p) \subseteq OfPrint(p)',
         \A g \in OfPrint(p) : groups[g].count <= groups'[g].count,
         \/ accepted'[p] = accepted[p]
         \/ /\ accepted'[p] = accepted[p] + 1
            /\ \E g \in OfPrint(p)' : /\ groups'[g].count > 0
                                      /\ g \in OfPrint(p) => groups[g].count < groups'[g].count
  PROVE  accepted'[p] <= gone'[p] + Total(Counts', OfPrint(p)')
<1> DEFINE S == OfPrint(p)
           T == OfPrint(p)'
           f == Counts
           h == Counts'
<1>1. /\ \A g \in S : f[g] \in Nat /\ f[g] = groups[g].count
      /\ Total(f, S) \in Nat
  <2>1. S \in SUBSET GroupIds /\ \A g \in S : groups[g] \in Group /\ f[g] = groups[g].count
    BY DEF GroupsOK, OfPrint, Counts, Existing
  <2> HIDE DEF S, f
  <2> QED
    BY <2>1, CountsOf
<1>2. /\ IsFiniteSet(T) /\ \A g \in T : h[g] \in Nat /\ h[g] = groups'[g].count
      /\ Total(h, T) \in Nat
  <2>1. T \in SUBSET GroupIds /\ \A g \in T : groups'[g] \in Group /\ h[g] = groups'[g].count
    BY DEF GroupsOK, OfPrint, Counts, Existing
  <2> HIDE DEF T, h
  <2> QED
    BY <2>1, CountsOf
<1>3. \A g \in S : f[g] <= h[g]
  BY <1>1, <1>2
<1>4. accepted[p] \in Nat /\ gone[p] \in Nat
  BY DEF GroupsOK
<1>5. CASE accepted'[p] = accepted[p]
  <2>1. Total(f, S) <= Total(h, T)
    <3> HIDE DEF S, T, f, h
    <3> QED
      BY <1>1, <1>2, <1>3, TotalGrows DEF S, T
  <2> HIDE DEF S, T, f, h
  <2>2. accepted[p] <= gone[p] + Total(h, T)
    BY <1>1, <1>2, <1>4, <2>1 DEF S, T, f, h
  <2> QED
    BY <1>5, <2>2 DEF T, h
<1>6. CASE /\ accepted'[p] = accepted[p] + 1
           /\ \E g \in T : groups'[g].count > 0 /\ (g \in S => groups[g].count < groups'[g].count)
  <2>1. PICK g \in T : h[g] > 0 /\ (g \in S => f[g] < h[g])
    BY <1>1, <1>2, <1>6
  <2>2. Total(f, S) + 1 <= Total(h, T)
    <3> HIDE DEF S, T, f, h
    <3> QED
      BY <1>1, <1>2, <1>3, <2>1, TotalGrowsAt DEF S, T
  <2> HIDE DEF S, T, f, h
  <2>3. accepted[p] + 1 <= gone[p] + Total(h, T)
    BY <1>1, <1>2, <1>4, <2>2 DEF S, T, f, h
  <2> QED
    BY <1>6, <2>3 DEF T, h
<1> QED
  BY <1>5, <1>6

\* Groups are written, and no count goes back.
GroupsKept ==
  /\ groups' \in [GroupIds -> Group \cup {NoRow}] /\ UNCHANGED <<lastGroup, accepted, gone>>
  /\ \A g \in GroupIds : groups'[g] = groups[g]
       \/ /\ g \in Existing(groups) /\ groups'[g] \in Group
          /\ groups'[g].print = groups[g].print /\ groups'[g].count = groups[g].count

LEMMA GroupsKeptKeeps ==
  ASSUME CommunityInv, GroupsKept
  PROVE  GroupsOK' /\ Counted'
<1>1. NoRow \notin Group /\ DOMAIN groups = GroupIds /\ DOMAIN groups' = GroupIds /\ GroupsOK
  BY CommunityAssumption DEF CommunityInv, GroupsOK, GroupsKept
<1>2. \A g \in Existing(groups)' :
        /\ g \in Existing(groups) /\ groups'[g].print = groups[g].print /\ groups'[g].count = groups[g].count
  BY <1>1 DEF GroupsKept, Existing
<1>3. \A g \in Existing(groups) :
        /\ g \in Existing(groups)' /\ groups'[g].print = groups[g].print /\ groups'[g].count = groups[g].count
  BY <1>1 DEF GroupsKept, Existing
<1>4. GroupsOK'
  BY <1>2 DEF GroupsKept, CommunityInv, GroupsOK
<1>5. \A p : /\ OfPrint(p) \subseteq OfPrint(p)'
             /\ \A g \in OfPrint(p) : groups'[g].count = groups[g].count /\ groups[g].count \in Nat
  BY <1>1, <1>3 DEF OfPrint, Existing, GroupsOK, Group
<1>6. ASSUME NEW p \in Prints PROVE accepted'[p] <= gone'[p] + Total(Counts', OfPrint(p)')
  <2>1. accepted[p] <= gone[p] + Total(Counts, OfPrint(p)) /\ accepted'[p] = accepted[p] /\ gone'[p] = gone[p]
    BY DEF CommunityInv, Counted, GroupsKept
  <2>2. \A g \in OfPrint(p) : groups[g].count <= groups'[g].count
    BY <1>5
  <2> QED
    BY <1>1, <1>4, <1>5, <2>1, <2>2, CountedStill
<1> QED
  BY <1>4, <1>6 DEF Counted

\* The tables of crashes are written, and the request that did it goes on with t.
LEMMA GroupsWrittenTyped ==
  ASSUME CommunityInv, BoardInv, BoardInv', ServingTypeOK', GroupsOK', Counted',
         UNCHANGED <<members, reports, votes, files, lastReport, lastFile>>,
         UNCHANGED work \/ \E w \in Workers : \E t : Takes(w, t) /\ "pc" \in DOMAIN t /\ t.pc \in {"idle", "pick"}
  PROVE  CommunityInv'
<1>1. KindsKept /\ ReportsOK' /\ VotesOK'
  BY SameKinds, ReportsSame, VotesSame
<1>2. CASE UNCHANGED work
  <2>1. \A v \in Workers : Fits(work[v])'
    BY <1>1, <1>2, FitsStill
  <2> QED
    BY <1>1, <2>1 DEF CommunityInv
<1>3. ASSUME NEW w \in Workers, NEW t, Takes(w, t), "pc" \in DOMAIN t, t.pc \in {"idle", "pick"}
      PROVE  CommunityInv'
  <2>1. work'[w] = t /\ \A v \in Workers \ {w} : work'[v] = work[v]
    BY <1>3, TakesGives DEF BoardInv
  <2>2. \A v \in Workers \ {w} : Fits(work[v])'
    BY <1>1, <2>1, FitsStill
  <2>3. Fits(work[w])'
    BY <1>3, <2>1 DEF Fits, VotePcs
  <2> QED
    BY <1>1, <2>2, <2>3 DEF CommunityInv
<1> QED
  BY <1>2, <1>3

LEMMA CrashTyped ==
  ASSUME CommunityInv, BoardInv, BoardInv', ServingTypeOK', NEW w \in Workers, Crash(w)
  PROVE  CommunityInv'
<1> USE DEF CommunityInv
<1>1. ASSUME NEW p \in Prints, NEW u, Ingest(w, p, u) PROVE CommunityInv'
  <2> DEFINE t == [pc |-> IF OfPrint(p) = {} THEN "group" ELSE "bump", print |-> p, u |-> u,
                   seen |-> {groups[g].count : g \in OfPrint(p)}]
  <2>1. UNCHANGED communityVars /\ Takes(w, t)
    BY <1>1 DEF Ingest, Begin, Takes
  <2>2. "pc" \in DOMAIN t /\ t.pc \in {"group", "bump"} /\ t.print = p
    OBVIOUS
  <2> HIDE DEF t
  <2>3. Fits(t)
    BY <2>2 DEF Fits, VotePcs
  <2> QED
    BY <2>1, <2>2, <2>3, Proceeds
<1>2. ASSUME NEW g, SuggestErrorFix(w, g) PROVE CommunityInv'
  <2>1. UNCHANGED communityVars
    BY <1>2 DEF SuggestErrorFix
  <2>2. UNCHANGED work \/ Takes(w, Ask("error", g, 0, {}))
    BY <1>2 DEF SuggestErrorFix, Served, Begin, Takes
  <2> QED
    BY <2>1, <2>2, AskFits, Answers, Proceeds
<1>3. CASE InsertErrorReport(w)
  <2> DEFINE id == lastGroup + 1
             row == NewGroup(work[w].print, work[w].u)
             q == work[w].print
  <2>1. /\ UNCHANGED <<members, reports, votes, files, lastReport, lastFile, gone>>
        /\ work[w].pc = "group" /\ Takes(w, Idle) /\ lastGroup < MaxGroups
    BY <1>3 DEF InsertErrorReport, At, Finish, Goto, Takes
  <2>2. CASE UNCHANGED <<groups, lastGroup, accepted>>
    BY <2>1, <2>2, CrashesSame, GroupsWrittenTyped, IdlePc
  <2>3. CASE /\ Known(work[w].u) /\ groups' = [groups EXCEPT ![id] = row]
             /\ lastGroup' = id /\ Accept(q)
    <3>1. q \in Prints /\ work[w].u \in Members \cup {Nobody}
      BY <2>1, <2>3 DEF Fits, VotesOK, Known
    <3>2. row \in Group /\ row.print = q /\ row.count = 1
      BY <3>1 DEF NewGroup, Group
    <3>3. /\ lastGroup \in Nat /\ id \in GroupIds /\ id \notin Existing(groups)
          /\ groups \in [GroupIds -> Group \cup {NoRow}]
      BY <2>1, CommunityAssumption DEF GroupsOK, GroupIds
    <3>4. accepted' = [accepted EXCEPT ![q] = accepted[q] + 1] /\ accepted \in [Prints -> Nat]
      BY <2>3 DEF Accept, GroupsOK
    <3> HIDE DEF row
    <3>5. /\ groups' \in [GroupIds -> Group \cup {NoRow}] /\ groups'[id] = row
          /\ \A g \in GroupIds \ {id} : groups'[g] = groups[g]
      BY <2>3, <3>2, <3>3
    <3>6. accepted' \in [Prints -> Nat]
      BY <3>1, <3>4
    <3>7. GroupsOK'
      <4>1. \A g \in Existing(groups)' : g = id \/ (g \in Existing(groups) /\ g \in GroupIds)
        BY <3>3, <3>5 DEF Existing
      <4>2. \A g \in Existing(groups)' : g <= lastGroup'
        BY <2>3, <3>3, <4>1 DEF GroupsOK, GroupIds
      <4>3. lastGroup' \in Nat /\ gone' \in [Prints -> Nat]
        BY <2>1, <2>3, <3>3 DEF GroupsOK
      <4> QED
        BY <3>5, <3>6, <4>2, <4>3 DEF GroupsOK
    <3>8. NoRow \notin Group
      BY CommunityAssumption
    <3>9. ASSUME NEW p \in Prints PROVE accepted'[p] <= gone'[p] + Total(Counts', OfPrint(p)')
      <4>1. accepted[p] <= gone[p] + Total(Counts, OfPrint(p)) /\ gone'[p] = gone[p]
        BY <2>1 DEF Counted
      <4>2. OfPrint(p) \subseteq OfPrint(p)' /\ \A g \in OfPrint(p) : groups'[g] = groups[g]
        BY <3>3, <3>5 DEF OfPrint, Existing
      <4>3. \A g \in OfPrint(p) : groups[g].count <= groups'[g].count
        <5>1. \A g \in OfPrint(p) : groups[g].count \in Nat
          BY DEF OfPrint, Existing, GroupsOK, Group
        <5> QED
          BY <4>2, <5>1
      <4>4. CASE p # q
        BY <3>4, <3>7, <4>1, <4>2, <4>3, <4>4, CountedStill
      <4>5. CASE p = q
        <5>1. id \in OfPrint(p)' /\ id \notin OfPrint(p) /\ groups'[id].count = 1
          BY <3>2, <3>3, <3>5, <3>8, <4>5 DEF OfPrint, Existing
        <5>2. accepted'[p] = accepted[p] + 1
          BY <3>4, <4>5
        <5> QED
          BY <3>7, <4>1, <4>2, <4>3, <5>1, <5>2, CountedStill
      <4> QED
        BY <4>4, <4>5
    <3>10. Counted'
      BY <3>9 DEF Counted
    <3> QED
      BY <2>1, <3>7, <3>10, GroupsWrittenTyped, IdlePc
  <2> QED
    BY <1>3, <2>2, <2>3 DEF InsertErrorReport
<1>4. CASE BumpErrorReport(w)
  <2> DEFINE q == work[w].print
             hit == OfPrint(q)
  <2>1. /\ UNCHANGED <<members, reports, votes, files, lastReport, lastGroup, lastFile, gone>>
        /\ work[w].pc = "bump" /\ Takes(w, Idle)
    BY <1>4 DEF BumpErrorReport, At, Finish, Goto, Takes, counterVars
  <2>2. CASE UNCHANGED <<groups, accepted>>
    BY <2>1, <2>2, CrashesSame, GroupsWrittenTyped, IdlePc
  <2>3. CASE /\ hit # {} /\ Known(work[w].u) /\ Accept(q)
             /\ groups' = [g \in GroupIds |-> IF g \in hit THEN Bumped(w, groups[g]) ELSE groups[g]]
    <3>1. q \in Prints /\ work[w].u \in Members \cup {Nobody}
      BY <2>1, <2>3 DEF Fits, VotesOK, Known
    <3>2. groups \in [GroupIds -> Group \cup {NoRow}] /\ hit \subseteq Existing(groups)
          /\ hit \subseteq GroupIds /\ \A g \in hit : groups[g].print = q
      BY DEF GroupsOK, OfPrint, Existing
    <3>3. \A row \in Group : /\ Bumped(w, row) \in Group /\ Bumped(w, row).print = row.print
                             /\ Bumped(w, row).count = row.count + 1
      BY <3>1, GroupBumped DEF SamePrint
    <3>4. accepted' = [accepted EXCEPT ![q] = accepted[q] + 1] /\ accepted \in [Prints -> Nat]
      BY <2>3 DEF Accept, GroupsOK
    <3>5. NoRow \notin Group /\ \A g \in hit : groups[g] \in Group
      BY <3>2, CommunityAssumption DEF Existing
    <3>6. /\ \A g \in hit : /\ groups'[g] \in Group /\ groups'[g].print = groups[g].print
                            /\ groups'[g].count = groups[g].count + 1
          /\ \A g \in GroupIds \ hit : groups'[g] = groups[g]
      BY <2>3, <3>2, <3>3, <3>5
    <3>7. groups' = [g \in GroupIds |-> groups'[g]]
      BY <2>3
    <3> HIDE DEF hit
    <3>8. groups' \in [GroupIds -> Group \cup {NoRow}]
      BY <3>2, <3>6, <3>7
    <3>9. Existing(groups)' = Existing(groups)
      BY <3>2, <3>5, <3>6, <3>7 DEF Existing
    <3>10. GroupsOK'
      <4>1. accepted' \in [Prints -> Nat]
        BY <3>1, <3>4
      <4> QED
        BY <2>1, <3>8, <3>9, <4>1 DEF GroupsOK
    <3>11. ASSUME NEW g \in Existing(groups)
           PROVE  /\ groups'[g].print = groups[g].print /\ groups[g].count \in Nat
                  /\ groups'[g].count \in {groups[g].count, groups[g].count + 1}
      <4>1. groups[g].count \in Nat /\ g \in GroupIds
        BY <3>2 DEF Existing, Group
      <4> QED
        BY <3>6, <4>1
    <3>12. ASSUME NEW p \in Prints PROVE accepted'[p] <= gone'[p] + Total(Counts', OfPrint(p)')
      <4>1. accepted[p] <= gone[p] + Total(Counts, OfPrint(p)) /\ gone'[p] = gone[p]
        BY <2>1 DEF Counted
      <4>2. OfPrint(p)' = OfPrint(p)
        BY <3>9, <3>11 DEF OfPrint
      <4>3. \A g \in OfPrint(p) : groups[g].count <= groups'[g].count
        BY <3>11 DEF OfPrint
      <4>4. CASE p # q
        BY <3>4, <3>10, <4>1, <4>2, <4>3, <4>4, CountedStill
      <4>5. CASE p = q
        <5>1. PICK g \in hit : TRUE
          BY <2>3
        <5>2. g \in OfPrint(p)' /\ groups'[g].count = groups[g].count + 1 /\ groups[g].count \in Nat
          BY <3>2, <3>6, <3>11, <4>2, <4>5, <5>1 DEF hit
        <5>3. accepted'[p] = accepted[p] + 1
          BY <3>4, <4>5
        <5>4. groups'[g].count > 0 /\ groups[g].count < groups'[g].count
          BY <5>2
        <5> QED
          BY <3>10, <4>1, <4>2, <4>3, <5>2, <5>3, <5>4, CountedStill
      <4> QED
        BY <4>4, <4>5
    <3>13. Counted'
      BY <3>12 DEF Counted
    <3> QED
      BY <2>1, <3>10, <3>13, GroupsWrittenTyped, IdlePc
  <2> QED
    BY <1>4, <2>2, <2>3 DEF BumpErrorReport
<1>5. CASE ErrorFixJob(w)
  <2> DEFINE t == [pc |-> "pick", kind |-> "error", todo |-> AdminErrorFixCandidates]
  <2>1. UNCHANGED communityVars
    BY <1>5 DEF ErrorFixJob
  <2>2. UNCHANGED work \/ Takes(w, t)
    BY <1>5 DEF ErrorFixJob, Served, Begin, Takes
  <2>3. "pc" \in DOMAIN t /\ t.pc = "pick"
    OBVIOUS
  <2> HIDE DEF t
  <2> QED
    BY <2>1, <2>2, <2>3, PlainFits, Answers, Proceeds
<1>6. CASE PickError(w)
  <2>1. work[w].pc = "pick" /\ UNCHANGED communityVars
    BY <1>6 DEF PickError, At
  <2>2. PICK g \in work[w].todo :
          \/ Takes(w, Ask("error", g, 0, work[w].todo \ {g}))
          \/ Takes(w, IF work[w].todo \ {g} = {} THEN Idle ELSE [work[w] EXCEPT !.todo = work[w].todo \ {g}])
    BY <1>6 DEF PickError, Goto, Takes
  <2>3. CASE Takes(w, Ask("error", g, 0, work[w].todo \ {g}))
    BY <2>1, <2>3, AskFits, Proceeds
  <2>4. CASE Takes(w, IF work[w].todo \ {g} = {} THEN Idle ELSE [work[w] EXCEPT !.todo = work[w].todo \ {g}])
    <3> DEFINE rest == work[w].todo \ {g}
               t == IF rest = {} THEN Idle ELSE [work[w] EXCEPT !.todo = rest]
    <3>1. Takes(w, t)
      BY <2>4
    <3>2. "pc" \in DOMAIN t /\ Fits(t)
      BY <2>1, ListFits DEF BoardInv
    <3> HIDE DEF t
    <3> QED
      BY <2>1, <3>1, <3>2, Proceeds
  <2> QED
    BY <2>2, <2>3, <2>4
<1>7. CASE AdminSetErrorFixProposal(w)
  <2> DEFINE g == work[w].id
             row == [groups[g] EXCEPT !.proposal = TRUE, !.status = 3]
             t == After(w)
  <2>1. /\ UNCHANGED <<members, reports, votes, files, lastReport, lastGroup, lastFile, accepted, gone>>
        /\ Takes(w, t)
    BY <1>7 DEF AdminSetErrorFixProposal, Goto, Takes, counterVars, observerVars
  <2>2. groups' = IF g \in Existing(groups) THEN [groups EXCEPT ![g] = row] ELSE groups
    BY <1>7 DEF AdminSetErrorFixProposal
  <2>3. groups \in [GroupIds -> Group \cup {NoRow}]
    BY DEF GroupsOK
  <2>4. g \in Existing(groups) =>
          /\ g \in GroupIds /\ row \in Group
          /\ row.print = groups[g].print /\ row.count = groups[g].count
    <3> SUFFICES ASSUME g \in Existing(groups) PROVE g \in GroupIds /\ SamePrint(groups[g], row)
                                                     /\ row.count = groups[g].count
      BY DEF SamePrint
    <3>1. g \in GroupIds /\ groups[g] \in Group
      BY <2>3 DEF Existing
    <3> HIDE DEF g
    <3> QED
      BY <3>1, GroupProposed
  <2>5. "pc" \in DOMAIN t /\ t.pc \in {"idle", "pick"}
    BY RestPc
  <2> HIDE DEF t, row, g
  <2>6. GroupsKept
    BY <2>1, <2>2, <2>3, <2>4 DEF GroupsKept
  <2> QED
    BY <2>1, <2>5, <2>6, GroupsKeptKeeps, GroupsWrittenTyped
<1> QED
  BY <1>1, <1>2, <1>3, <1>4, <1>5, <1>6, <1>7 DEF Crash

\* The client is gone; nothing of its request stays behind but what is written.
LEMMA AbortTyped ==
  ASSUME CommunityInv, BoardInv, BoardInv', ServingTypeOK', NEW w \in Workers, CommunityAbort(w)
  PROVE  CommunityInv'
<1>1. /\ UNCHANGED <<members, reports, votes, groups, files, lastReport, lastGroup, lastFile, accepted, gone>>
      /\ Takes(w, Idle)
  BY DEF CommunityAbort, Abort, Finish, Goto, Takes, tableVars, counterVars
<1> QED
  BY <1>1, IdlePc, CrashesSame, GroupsWrittenTyped

\* A row goes, and with it its votes.
LEMMA DeleteBugTyped ==
  ASSUME CommunityInv, BoardInv, BoardInv', ServingTypeOK', NEW r \in Existing(reports), DeleteBug(r)
  PROVE  CommunityInv'
<1> USE DEF CommunityInv
<1>1. /\ UNCHANGED <<members, groups, files, lastReport, lastGroup, lastFile, accepted, gone, work>>
      /\ reports' = [reports EXCEPT ![r] = NoRow] /\ votes' = votes \ VotesOf(r)
  BY DEF DeleteBug, Served, counterVars
<1>2. /\ reports \in [ReportIds -> Report \cup {NoRow}]
      /\ reports' \in [ReportIds -> Report \cup {NoRow}]
  BY <1>1 DEF ReportsOK
<1>3. Existing(reports)' = Existing(reports) \ {r}
      /\ \A g \in Existing(reports) \ {r} : reports'[g] = reports[g]
  BY <1>1, <1>2 DEF Existing
<1>4. ReportsOK'
  BY <1>1, <1>2, <1>3 DEF ReportsOK, Presentable
<1>5. KindsKept
  BY <1>1, <1>3 DEF KindsKept, BoardInv, BoardOK
<1>6. Features' = Features \ {r}
  BY <1>3 DEF Features
<1>7. VotesOK'
  <2>1. votes' \subseteq Features' \X members' /\ votes' \subseteq votes
    BY <1>1, <1>6 DEF VotesOK, VotesOf
  <2> QED
    BY <1>1, <2>1, FS_Subset DEF VotesOK
<1>8. \A v \in Workers : Fits(work[v])'
  BY <1>1, <1>5, FitsStill
<1> QED
  BY <1>1, <1>4, <1>7, <1>8, CrashesSame

\* A member goes: names become nobody's, votes go.
LEMMA DeleteMemberTyped ==
  ASSUME CommunityInv, BoardInv, BoardInv', ServingTypeOK', NEW u \in Members, DeleteMember(u)
  PROVE  CommunityInv'
<1> USE DEF CommunityInv
<1>1. /\ work' = [x \in Workers |-> IF \E f \in ReportIds : Voting(x, f)
                                    THEN [work[x] EXCEPT !.solo = FALSE] ELSE work[x]]
      /\ members' = members \ {u} /\ votes' = {v \in votes : v[2] # u}
      /\ reports' = [r \in ReportIds |-> IF r \in Existing(reports) /\ reports[r].author = u
                                         THEN [reports[r] EXCEPT !.author = Nobody] ELSE reports[r]]
      /\ groups' = [g \in GroupIds |-> IF g \in Existing(groups) /\ groups[g].user = u
                                       THEN [groups[g] EXCEPT !.user = Nobody] ELSE groups[g]]
      /\ UNCHANGED <<files, lastReport, lastGroup, lastFile, accepted, gone>>
  BY DEF DeleteMember, counterVars
<1>2. RowsKept
  <2>1. reports \in [ReportIds -> Report \cup {NoRow}]
    BY DEF ReportsOK
  <2>2. \A row \in Report : Presentable(row) =>
          LET new == [row EXCEPT !.author = Nobody]
          IN  new \in Report /\ Presentable(new) /\ new.kind = row.kind /\ new.shot = row.shot
    BY DEF Report, Presentable
  <2>3. \A r \in Existing(reports) : r \in ReportIds /\ reports[r] \in Report /\ Presentable(reports[r])
    BY <2>1 DEF ReportsOK, Existing
  <2>4. \A r \in ReportIds : reports'[r] = reports[r]
          \/ /\ r \in Existing(reports) /\ reports'[r] \in Report /\ Presentable(reports'[r])
             /\ reports'[r].kind = reports[r].kind /\ reports'[r].shot = reports[r].shot
    <3> SUFFICES ASSUME NEW r \in ReportIds, reports'[r] # reports[r]
                 PROVE  /\ r \in Existing(reports) /\ reports'[r] \in Report /\ Presentable(reports'[r])
                        /\ reports'[r].kind = reports[r].kind /\ reports'[r].shot = reports[r].shot
      OBVIOUS
    <3>1. r \in Existing(reports) /\ reports'[r] = [reports[r] EXCEPT !.author = Nobody]
      BY <1>1
    <3> QED
      BY <2>2, <2>3, <3>1
  <2>5. reports' = [r \in ReportIds |-> reports'[r]]
    BY <1>1
  <2>6. \A r \in ReportIds : reports'[r] \in Report \cup {NoRow}
    BY <2>1, <2>4
  <2> QED
    BY <1>1, <2>4, <2>5, <2>6 DEF RowsKept
<1>3. ReportsOK' /\ KindsKept /\ Features' = Features
  BY <1>2, RowsKeptKeeps
<1>4. GroupsKept
  <2>1. groups \in [GroupIds -> Group \cup {NoRow}]
    BY DEF GroupsOK
  <2>2. \A g \in GroupIds : groups'[g] = groups[g]
          \/ /\ g \in Existing(groups) /\ groups'[g] \in Group
             /\ groups'[g].print = groups[g].print /\ groups'[g].count = groups[g].count
    <3> SUFFICES ASSUME NEW g \in GroupIds, groups'[g] # groups[g]
                 PROVE  /\ g \in Existing(groups) /\ groups'[g] \in Group
                        /\ groups'[g].print = groups[g].print /\ groups'[g].count = groups[g].count
      OBVIOUS
    <3>1. g \in Existing(groups) /\ groups'[g] = [groups[g] EXCEPT !.user = Nobody]
      BY <1>1
    <3>2. groups[g] \in Group
      BY <2>1, <3>1 DEF Existing
    <3> QED
      BY <3>1, <3>2, GroupEdited DEF SamePrint
  <2>3. groups' = [g \in GroupIds |-> groups'[g]]
    BY <1>1
  <2>4. \A g \in GroupIds : groups'[g] \in Group \cup {NoRow}
    BY <2>1, <2>2
  <2> QED
    BY <1>1, <2>2, <2>3, <2>4 DEF GroupsKept
<1>5. GroupsOK' /\ Counted'
  BY <1>4, GroupsKeptKeeps
<1>6. VotesOK'
  <2>1. votes' \subseteq Features' \X members' /\ votes' \subseteq votes
    BY <1>1, <1>3 DEF VotesOK
  <2>2. members' \subseteq Members
    BY <1>1 DEF VotesOK
  <2> QED
    BY <2>1, <2>2, FS_Subset DEF VotesOK
<1>7. ASSUME NEW x \in Workers PROVE Fits(work[x])'
  <2>1. CASE \E f \in ReportIds : Voting(x, f)
    <3>1. /\ work[x].pc \in {"seek", "cast", "withdraw", "tally", "write"}
          /\ {"pc", "f", "n", "solo"} \subseteq DOMAIN work[x] /\ Fits(work[x])
          /\ work[x].f \in 1..lastReport
      BY <2>1 DEF Voting, BoardInv, TasksOK, ReportTask, VotePcs
    <3>2. work'[x] = [work[x] EXCEPT !.solo = FALSE]
      BY <1>1, <2>1
    <3>3. work'[x].pc = work[x].pc /\ work'[x].f = work[x].f /\ work'[x].n = work[x].n
      BY <3>1, <3>2
    <3>4. IsFeature(work[x].f)'
      BY <1>3, <3>1, <3>3 DEF Fits, IsFeature, KindsKept, VotePcs
    <3> QED
      BY <3>1, <3>3, <3>4 DEF Fits
  <2>2. CASE ~\E f \in ReportIds : Voting(x, f)
    <3>1. work'[x] = work[x]
      BY <1>1, <2>2
    <3> QED
      BY <1>3, <3>1, FitsStill
  <2> QED
    BY <2>1, <2>2
<1> QED
  BY <1>3, <1>5, <1>6, <1>7

LEMMA StatusTyped ==
  ASSUME CommunityInv, BoardInv, BoardInv', ServingTypeOK', NEW g \in GroupIds, NEW raw \in Raws,
         SetStatusRaw(g, raw)
  PROVE  CommunityInv'
<1> DEFINE b == RenderStatus(raw).resolve
           row == [groups[g] EXCEPT !.status = raw.n, !.resolved = @ \/ b]
<1>1. /\ UNCHANGED <<work, members, reports, votes, files, lastReport, lastGroup, lastFile, accepted, gone>>
      /\ groups' = groups \/ (g \in Existing(groups) /\ groups' = [groups EXCEPT ![g] = row])
  BY DEF SetStatusRaw, Served, counterVars, observerVars
<1>2. groups \in [GroupIds -> Group \cup {NoRow}]
  BY DEF CommunityInv, GroupsOK
<1>3. g \in Existing(groups) => SamePrint(groups[g], row) /\ row.count = groups[g].count
  <2>1. g \in Existing(groups) => groups[g] \in Group
    BY <1>2 DEF Existing
  <2>2. raw.n \in Int /\ b \in BOOLEAN
    BY CommunityAssumption DEF RenderStatus
  <2> HIDE DEF b
  <2> QED
    BY <2>1, <2>2, GroupResolved
<1> HIDE DEF row
<1>4. GroupsKept
  BY <1>1, <1>2, <1>3 DEF GroupsKept, SamePrint
<1> QED
  BY <1>1, <1>4, GroupsKeptKeeps, GroupsWrittenTyped

\* What a deleted group had counted is gone, and known to be.
LEMMA DeleteErrorTyped ==
  ASSUME CommunityInv, BoardInv, BoardInv', ServingTypeOK', NEW g \in GroupIds, DeleteError(g)
  PROVE  CommunityInv'
<1> USE DEF CommunityInv
<1>0. g \in Existing(groups) /\ groups[g] \in Group
  BY DEF DeleteError, GroupsOK, Existing
<1>3. PICK q \in Prints, n \in Nat : q = groups[g].print /\ n = groups[g].count
  BY <1>0 DEF Group
<1>1. /\ UNCHANGED <<work, members, reports, votes, files, lastReport, lastGroup, lastFile, accepted>>
      /\ g \in Existing(groups) /\ groups' = [groups EXCEPT ![g] = NoRow]
      /\ gone' = [gone EXCEPT ![q] = gone[q] + n]
  BY <1>3 DEF DeleteError, Served, counterVars
<1>2. groups \in [GroupIds -> Group \cup {NoRow}] /\ gone \in [Prints -> Nat] /\ accepted \in [Prints -> Nat]
  BY DEF GroupsOK
<1>4. groups' \in [GroupIds -> Group \cup {NoRow}] /\ gone' \in [Prints -> Nat]
  BY <1>1, <1>2, <1>3
<1>5. Existing(groups)' = Existing(groups) \ {g}
      /\ \A h \in Existing(groups) \ {g} : groups'[h] = groups[h]
  BY <1>1, <1>2 DEF Existing
<1>6. GroupsOK'
  BY <1>1, <1>4, <1>5 DEF GroupsOK
<1>7. ASSUME NEW p \in Prints, p # q PROVE accepted'[p] <= gone'[p] + Total(Counts', OfPrint(p)')
  <2>1. accepted[p] <= gone[p] + Total(Counts, OfPrint(p)) /\ accepted'[p] = accepted[p] /\ gone'[p] = gone[p]
    BY <1>1, <1>2, <1>7 DEF Counted
  <2>2. OfPrint(p) \subseteq OfPrint(p)' /\ \A h \in OfPrint(p) : groups'[h] = groups[h]
    BY <1>3, <1>5, <1>7 DEF OfPrint
  <2>3. \A h \in OfPrint(p) : groups[h].count \in Nat
    BY <1>2 DEF OfPrint, Existing, Group
  <2>4. \A h \in OfPrint(p) : groups[h].count <= groups'[h].count
    BY <2>2, <2>3
  <2> QED
    BY <1>6, <2>1, <2>2, <2>4, CountedStill
<1>8. accepted'[q] <= gone'[q] + Total(Counts', OfPrint(q)')
  <2> DEFINE S == OfPrint(q)
             T == S \ {g}
             f == Counts
             h == Counts'
  <2>1. S \in SUBSET GroupIds /\ \A x \in S : groups[x] \in Group /\ f[x] = groups[x].count
    BY <1>2 DEF OfPrint, Counts, Existing
  <2>2. g \in S /\ f[g] = n
    BY <1>1, <1>3, <2>1 DEF OfPrint
  <2>3. OfPrint(q)' = T /\ \A x \in T : h[x] = f[x]
    <3>1. \A x : x \in Existing(groups)' /\ groups'[x].print = q <=> x \in T
      BY <1>5 DEF OfPrint
    <3>2. OfPrint(q)' = T
      BY <3>1 DEF OfPrint
    <3>3. \A x \in T : x \in Existing(groups)' /\ x \in GroupIds /\ groups'[x] = groups[x]
                      /\ f[x] = groups[x].count
      BY <1>5, <2>1, <3>1
    <3>4. \A x \in T : h[x] = groups'[x].count
      BY <3>3 DEF Counts
    <3> QED
      BY <3>2, <3>3, <3>4
  <2>4. accepted[q] <= gone[q] + Total(f, S) /\ accepted[q] \in Nat /\ gone[q] \in Nat
    BY <1>2, <1>3 DEF Counted
  <2>5. accepted'[q] = accepted[q] /\ gone'[q] = gone[q] + n
    BY <1>1, <1>2, <1>3
  <2> HIDE DEF S, f, h
  <2>6. IsFiniteSet(S) /\ \A x \in S : f[x] \in Nat
    BY <2>1, CountsOf
  <2>7. Total(f, S) = f[g] + Total(f, T)
    BY <2>2, <2>6, TotalWithout
  <2>8. Total(h, T) = Total(f, T)
    BY <2>3, TotalSame
  <2>9. Total(f, T) \in Nat
    BY <2>6, FS_RemoveElement, UnitsFinite
  <2>10. accepted'[q] <= gone'[q] + Total(h, T)
    BY <1>3, <2>2, <2>4, <2>5, <2>7, <2>8, <2>9
  <2> QED
    BY <2>3, <2>10 DEF h
<1>9. Counted'
  BY <1>7, <1>8 DEF Counted
<1> QED
  BY <1>1, <1>6, <1>9, GroupsWrittenTyped

LEMMA CommunityStep ==
  CommunityInv /\ BoardInv /\ BoardInv' /\ [CommunityNext]_<<servingVars, communityVars>> => CommunityInv'
<1> SUFFICES ASSUME CommunityInv, BoardInv, BoardInv', [CommunityNext]_<<servingVars, communityVars>>
             PROVE  CommunityInv'
  OBVIOUS
<1>1. ServingTypeOK'
  BY CommunityServing DEF CommunityInv
<1>2. CASE UNCHANGED <<servingVars, communityVars>>
  <2>1. UNCHANGED communityVars /\ UNCHANGED work
    BY <1>2 DEF servingVars
  <2> QED
    BY <1>1, <2>1, Answers
<1>3. CASE CommunityNext
  BY <1>1, <1>3, SubmissionTyped, ToggleTyped, TriageTyped, CrashTyped, AbortTyped, DeleteBugTyped,
     DeleteMemberTyped, StatusTyped, DeleteErrorTyped DEF CommunityNext
<1> QED
  BY <1>2, <1>3

LEMMA CommunityInitially == ServingInit /\ CommunityInit => CommunityInv
<1> SUFFICES ASSUME ServingInit, CommunityInit PROVE CommunityInv
  OBVIOUS
<1>1. /\ members = Members /\ votes = {} /\ files = {}
      /\ reports = [r \in ReportIds |-> IF r \in DOMAIN Seed THEN Seed[r] ELSE NoRow]
      /\ groups = [g \in GroupIds |-> NoRow]
      /\ lastGroup = 0 /\ lastFile = 0
      /\ accepted = [p \in Prints |-> 0] /\ gone = [p \in Prints |-> 0]
  BY DEF CommunityInit
<1>2. ServingTypeOK
  <2>1. MaxRequests \in Nat /\ MaxAborts \in Nat
    BY ServingAssumption
  <2> QED
    BY <2>1 DEF ServingInit, ServingTypeOK
<1>3. \A r \in DOMAIN Seed : Seed[r] \in Report /\ Seed[r].shot = 0 /\ Presentable(Seed[r])
  <2>1. Seed \in Seq(Report)
    BY CommunityAssumption
  <2>2. \A r \in DOMAIN Seed : Seed[r] \in Report
    BY <2>1
  <2> QED
    BY <2>2, CommunityAssumption
<1>4. ReportsOK
  <2>1. \A r \in Existing(reports) : r \in DOMAIN Seed /\ reports[r] = Seed[r]
    BY <1>1 DEF Existing
  <2> QED
    BY <1>1, <1>3, <2>1 DEF ReportsOK
<1>5. VotesOK
  BY <1>1, FS_EmptySet DEF VotesOK
<1>6. Existing(groups) = {}
  BY <1>1 DEF Existing
<1>7. GroupsOK
  BY <1>1, <1>6 DEF GroupsOK
<1>8. Counted
  <2>1. \A p \in Prints : accepted[p] = 0 /\ gone[p] = 0
    BY <1>1
  <2>2. \A p : OfPrint(p) = {}
    BY <1>6 DEF OfPrint
  <2>3. Total(Counts, {}) = 0
    BY TotalEmpty
  <2>4. \A p : Total(Counts, OfPrint(p)) = 0
    BY <2>2, <2>3
  <2> QED
    BY <2>1, <2>4 DEF Counted
<1>9. \A w \in Workers : Fits(work[w])
  BY TasksInitially, PlainFits
<1> QED
  BY <1>2, <1>4, <1>5, <1>7, <1>8, <1>9 DEF CommunityInv

\* Every row of the board has the columns its kind asks for, whether it was
\* submitted, edited by PATCH, given a proposal or made anonymous, and no two
\* requests together break it (feedback/usecase.go, bugreports/admin_usecase.go).
THEOREM CommunityTyped == CommunitySpec => []CommunityTypeOK
<1>1. CommunityInv => CommunityTypeOK
  BY DEF CommunityInv, ReportsOK, VotesOK, GroupsOK, CommunityTypeOK, Existing
<1>2. ServingInit /\ CommunityInit => BoardInv /\ CommunityInv
  BY BoardInitially, CommunityInitially
<1>3. (BoardInv /\ CommunityInv) /\ [CommunityNext]_<<servingVars, communityVars>> => (BoardInv /\ CommunityInv)'
  BY BoardStep, CommunityStep
<1> QED
  BY <1>1, <1>2, <1>3, PTL DEF CommunitySpec

\* However many reports of a crash arrive at once, find its group or make one,
\* and however groups are deleted beside them: every crash answered with 201 is
\* in a count (errreport/reader.go, BumpErrorReport adds in SQL).
THEOREM CrashesAlwaysCounted == CommunitySpec => []CrashesCounted
<1>1. CommunityInv => CrashesCounted
  BY SumOfCounts DEF CommunityInv, Counted, CrashesCounted
<1>2. ServingInit /\ CommunityInit => BoardInv /\ CommunityInv
  BY BoardInitially, CommunityInitially
<1>3. (BoardInv /\ CommunityInv) /\ [CommunityNext]_<<servingVars, communityVars>> => (BoardInv /\ CommunityInv)'
  BY BoardStep, CommunityStep
<1> QED
  BY <1>1, <1>2, <1>3, PTL DEF CommunitySpec

-----------------------------------------------------------------------------
(***************************************************************************)
(* Notices.  NoticesHonoured rests on where a secret can come from: what   *)
(* the strategies were built with, and what a PayPal call took along, was  *)
(* saved or in the environment before.                                     *)
(***************************************************************************)

\* Every credential in use was given to the server.
KeysOK ==
  /\ DOMAIN keyring = Keyed
  /\ \A p \in Keyed : /\ DOMAIN keyring[p] = DOMAIN EnvKeys[p] /\ DOMAIN built[p] = DOMAIN EnvKeys[p]
                      /\ \A f \in DOMAIN EnvKeys[p] : {keyring[p][f], EnvKeys[p][f], built[p][f]} \subseteq saved
  /\ apple.env \in saved /\ (running => ValidConfig(apple))

CallPcs == {"token", "fetch", "order", "verify", "lookup"}

\* What a call to PayPal carries.
CallOK(w) ==
  work[w].pc \in CallPcs =>
    /\ {"next", "n", "creds", "bearer"} \subseteq DOMAIN work[w]
    /\ work[w].pc \in {"order", "verify", "lookup"} => work[w].next = work[w].pc
    /\ work[w].next \in {"verify", "lookup"} => work[w].n \in Notices /\ work[w].n.from = "paypal"
    /\ work[w].next = "verify" => work[w].creds.hook \in saved
    /\ work[w].next = "lookup" => work[w].n.kind = "sale" /\ work[w].n.key \in saved

NoticesInv ==
  TasksOK /\ KeysOK /\ sent \subseteq Notices /\ (\A w \in Workers : CallOK(w)) /\ NoticesHonoured

\* A notice that is whole and says something of a purchase is acted on.
LEMMA MeantActs ==
  ASSUME NEW n \in Notices, Meant(n)
  PROVE  ActsOn(n)
<1>1. /\ n.from \in DOMAIN SentFields /\ n.kind \in DOMAIN SentFields[n.from] /\ n.missing = "nothing"
      /\ n.kind \notin {"updated", "retrying"}
  BY DEF Notices, Meant
<1>2. Has(n) = SentFields[n.from][n.kind] \ {"nothing"}
  BY <1>1 DEF Has
<1>3. CASE n.from = "stripe"
  BY <1>1, <1>2, <1>3 DEF ActsOn, SentFields, Needs, StripeNeeds
<1>4. CASE n.from = "paypal"
  BY <1>1, <1>2, <1>4 DEF ActsOn, SentFields, Needs, PayPalNeeds
<1>5. CASE n.from = "lemonsqueezy"
  BY <1>1, <1>2, <1>5 DEF ActsOn, SentFields, Needs, LemonSqueezyNeeds
<1>6. CASE n.from = "vietqr"
  BY <1>1, <1>2, <1>6 DEF ActsOn, SentFields, Needs, VietQRNeeds
<1>7. CASE n.from = "apple"
  BY <1>1, <1>2, <1>7 DEF ActsOn, SentFields, Needs, AppleNeeds
<1> QED
  BY <1>1, <1>3, <1>4, <1>5, <1>6, <1>7 DEF SentFields

\* What a notice is checked against.
Named(n) == IF n.from = "apple" THEN n.env ELSE n.key

LEMMA AcknowledgeHonours ==
  ASSUME NoticesHonoured, saved \subseteq saved', sent \subseteq Notices,
         NEW n \in Notices, NEW does \in BOOLEAN, NEW why, Acknowledge(n, does, why),
         does => Named(n) \in saved',
         Meant(n) /\ ~does => why = "unset" \/ (why = "lookup" /\ n.kind = "sale")
  PROVE  NoticesHonoured' /\ sent' \subseteq Notices
<1>1. \A m \in acted : Named(m) \in saved
  BY DEF NoticesHonoured, Named
<1>2. \A m \in acted' : Named(m) \in saved'
  BY <1>1 DEF Acknowledge
<1>3. \A l \in lost' : l \in lost \/ l.why = "unset" \/ (l.why = "lookup" /\ l.n.kind = "sale")
  BY DEF Acknowledge
<1>4. NoticesHonoured'
  BY <1>2, <1>3 DEF NoticesHonoured, Named
<1> QED
  BY <1>4 DEF Acknowledge

\* Tasks end, or stay what they were, and more may be saved.
LEMMA CallsKept ==
  ASSUME TasksOK, \A w \in Workers : CallOK(w), saved \subseteq saved',
         UNCHANGED work \/ (\E w \in Workers : Takes(w, Idle)) \/ work' = [w \in Workers |-> Idle]
  PROVE  TasksOK' /\ \A w \in Workers : CallOK(w)'
<1>1. TasksOK' /\ \A w \in Workers : work'[w] = work[w] \/ work'[w] = Idle
  BY IdlePc DEF TasksOK, Takes
<1>2. ASSUME NEW w \in Workers PROVE CallOK(w)'
  <2>1. CASE work'[w] = Idle
    BY <2>1, IdlePc DEF CallOK, CallPcs
  <2>2. CASE work'[w] = work[w]
    BY <2>2 DEF CallOK
  <2> QED
    BY <1>1, <2>1, <2>2
<1> QED
  BY <1>1, <1>2

\* The credentials stay, one call goes on.
LEMMA CallGoesOn ==
  ASSUME NoticesInv, UNCHANGED <<configVars, noticeVars>>, NEW w \in Workers, NEW t, Takes(w, t),
         {"pc", "next", "n", "creds", "bearer"} \subseteq DOMAIN t,
         t.pc \in {"order", "verify", "lookup"} => t.next = t.pc,
         t.next \in {"verify", "lookup"} => t.n \in Notices /\ t.n.from = "paypal",
         t.next = "verify" => t.creds.hook \in saved,
         t.next = "lookup" => t.n.kind = "sale" /\ t.n.key \in saved
  PROVE  NoticesInv'
<1>1. TasksOK' /\ work'[w] = t /\ \A v \in Workers \ {w} : work'[v] = work[v]
  BY TakesGives DEF NoticesInv
<1>2. UNCHANGED <<keyring, built, apple, running, saved, sent, acted, lost>>
  BY DEF configVars, noticeVars
<1>3. KeysOK' /\ sent' \subseteq Notices /\ NoticesHonoured'
  BY <1>2 DEF NoticesInv, KeysOK, ValidConfig, NoticesHonoured
<1>4. CallOK(w)'
  BY <1>1, <1>2 DEF CallOK
<1>5. \A v \in Workers \ {w} : CallOK(v)'
  BY <1>1, <1>2 DEF NoticesInv, CallOK
<1> QED
  BY <1>1, <1>3, <1>4, <1>5 DEF NoticesInv

\* The credentials stay, and a notice is acknowledged or none is.
LEMMA Answered ==
  ASSUME NoticesInv, UNCHANGED configVars,
         UNCHANGED work \/ (\E w \in Workers : Takes(w, Idle)),
         \/ UNCHANGED noticeVars
         \/ \E n \in Notices, does \in BOOLEAN, why \in {"unset", "kind", "lookup"} :
              /\ Acknowledge(n, does, why)
              /\ does => Named(n) \in saved
              /\ Meant(n) /\ ~does => why = "unset" \/ (why = "lookup" /\ n.kind = "sale")
  PROVE  NoticesInv'
<1>1. UNCHANGED <<keyring, built, apple, running, saved>>
  BY DEF configVars
<1>2. KeysOK'
  BY <1>1 DEF NoticesInv, KeysOK, ValidConfig
<1>3. TasksOK' /\ \A w \in Workers : CallOK(w)'
  BY <1>1, CallsKept DEF NoticesInv
<1>4. CASE UNCHANGED noticeVars
  BY <1>1, <1>2, <1>3, <1>4 DEF NoticesInv, NoticesHonoured, noticeVars
<1>5. ASSUME NEW n \in Notices, NEW does \in BOOLEAN, NEW why, Acknowledge(n, does, why),
             does => Named(n) \in saved,
             Meant(n) /\ ~does => why = "unset" \/ (why = "lookup" /\ n.kind = "sale")
      PROVE  NoticesInv'
  <2>1. NoticesHonoured' /\ sent' \subseteq Notices
    BY <1>1, <1>5, AcknowledgeHonours DEF NoticesInv
  <2> QED
    BY <1>2, <1>3, <2>1 DEF NoticesInv
<1> QED
  BY <1>4, <1>5

\* What is resolved for a provider was given to the server.
LEMMA CredentialsGiven ==
  ASSUME KeysOK, NEW p \in Keyed
  PROVE  /\ DOMAIN Credentials(p) = DOMAIN EnvKeys[p]
         /\ \A f \in DOMAIN EnvKeys[p] : Credentials(p)[f] \in saved
  BY DEF KeysOK, Credentials, ResolveCredential

LEMMA HooksGiven ==
  ASSUME KeysOK, NEW p \in Keyed
  PROVE  Hooks(built[p]) \subseteq saved
  BY DEF KeysOK, Hooks

LEMMA BoundToSettings ==
  /\ "paypal" \in Keyed /\ {"stripe", "lemonsqueezy", "vietqr"} \subseteq Keyed
  /\ "hook" \in DOMAIN EnvKeys["paypal"]
  BY NoticesAssumption DEF Keyed

\* Settings are saved: every credential is still known.
LEMMA SettingStep ==
  ASSUME NoticesInv, NEW p \in Keyed, NEW f \in DOMAIN keyring[p], NEW k, SaveSetting(p, f, k)
  PROVE  NoticesInv'
<1>1. /\ keyring' = [keyring EXCEPT ![p][f] = k] /\ saved' = saved \cup {k}
      /\ UNCHANGED <<work, built, apple, running, sent, acted, lost>>
  BY DEF SaveSetting, Served, noticeVars
<1>2. /\ DOMAIN keyring' = Keyed
      /\ \A q \in Keyed : /\ DOMAIN keyring'[q] = DOMAIN keyring[q]
                          /\ \A g \in DOMAIN keyring[q] : keyring'[q][g] \in {keyring[q][g], k}
  BY <1>1 DEF NoticesInv, KeysOK
<1>3. KeysOK'
  <2>1. \A q \in Keyed : DOMAIN keyring'[q] = DOMAIN EnvKeys[q] /\ DOMAIN built'[q] = DOMAIN EnvKeys[q]
    BY <1>1, <1>2 DEF NoticesInv, KeysOK
  <2>2. ASSUME NEW q \in Keyed, NEW g \in DOMAIN EnvKeys[q]
        PROVE  {keyring'[q][g], EnvKeys[q][g], built'[q][g]} \subseteq saved'
    <3>1. keyring'[q][g] \in {keyring[q][g], k} /\ built'[q][g] = built[q][g]
      BY <1>1, <1>2 DEF NoticesInv, KeysOK
    <3>2. {keyring[q][g], EnvKeys[q][g], built[q][g]} \subseteq saved
      BY DEF NoticesInv, KeysOK
    <3> QED
      BY <1>1, <3>1, <3>2
  <2>3. apple'.env \in saved' /\ (running' => ValidConfig(apple)')
    BY <1>1 DEF NoticesInv, KeysOK, ValidConfig
  <2> QED
    BY <1>2, <2>1, <2>2, <2>3 DEF KeysOK
<1>4. TasksOK' /\ \A w \in Workers : CallOK(w)'
  BY <1>1, CallsKept DEF NoticesInv
<1>5. NoticesHonoured' /\ sent' \subseteq Notices
  BY <1>1 DEF NoticesInv, NoticesHonoured
<1> QED
  BY <1>3, <1>4, <1>5 DEF NoticesInv

\* A boot takes what is saved by then.
LEMMA RestartStep ==
  ASSUME NoticesInv, NEW c, Restart(c)
  PROVE  NoticesInv'
<1>1. /\ built' = [p \in Keyed |-> Credentials(p)] /\ apple' = c /\ running' = ValidConfig(c)
      /\ saved' = saved \cup {c.env} /\ work' = [w \in Workers |-> Idle]
      /\ UNCHANGED <<keyring, sent, acted, lost>>
  BY DEF Restart, Boot, noticeVars
<1>2. \A p \in Keyed : /\ DOMAIN built'[p] = DOMAIN EnvKeys[p]
                       /\ \A f \in DOMAIN EnvKeys[p] : built'[p][f] \in saved
  BY <1>1, CredentialsGiven DEF NoticesInv
<1>3. KeysOK'
  <2>1. DOMAIN keyring' = Keyed /\ \A q \in Keyed : DOMAIN keyring'[q] = DOMAIN EnvKeys[q]
    BY <1>1 DEF NoticesInv, KeysOK
  <2>2. ASSUME NEW q \in Keyed, NEW g \in DOMAIN EnvKeys[q]
        PROVE  {keyring'[q][g], EnvKeys[q][g], built'[q][g]} \subseteq saved'
    <3>1. {keyring[q][g], EnvKeys[q][g]} \subseteq saved
      BY DEF NoticesInv, KeysOK
    <3> QED
      BY <1>1, <1>2, <3>1
  <2>3. apple'.env \in saved' /\ (running' => ValidConfig(apple)')
    BY <1>1 DEF ValidConfig
  <2> QED
    BY <1>2, <2>1, <2>2, <2>3 DEF KeysOK
<1>4. TasksOK' /\ \A w \in Workers : CallOK(w)'
  BY <1>1, CallsKept DEF NoticesInv
<1>5. NoticesHonoured' /\ sent' \subseteq Notices
  BY <1>1 DEF NoticesInv, NoticesHonoured
<1> QED
  BY <1>3, <1>4, <1>5 DEF NoticesInv

\* Neither the credentials a strategy uses nor a notice are touched.
LEMMA Untouched ==
  ASSUME NoticesInv, UNCHANGED <<keyring, built, apple, running, saved, acted, lost, work>>,
         sent' \subseteq Notices
  PROVE  NoticesInv'
<1>1. KeysOK' /\ NoticesHonoured'
  BY DEF NoticesInv, KeysOK, ValidConfig, NoticesHonoured
<1>2. TasksOK' /\ \A w \in Workers : CallOK(w)'
  BY CallsKept DEF NoticesInv
<1> QED
  BY <1>1, <1>2 DEF NoticesInv

LEMMA WebhookStep ==
  ASSUME NoticesInv, NEW n \in sent, HandleWebhook(n)
  PROVE  NoticesInv'
<1>1. UNCHANGED configVars /\ UNCHANGED work /\ n \in Notices /\ n.from \in {"stripe", "lemonsqueezy", "vietqr"}
  BY DEF HandleWebhook, Served, NoticesInv
<1>2. n.from # "apple" /\ n.from \in Keyed /\ ActsOn(n) \in BOOLEAN
  BY <1>1, BoundToSettings DEF ActsOn
<1>3. Hooks(built[n.from]) \subseteq saved
  BY <1>2, HooksGiven DEF NoticesInv
<1>4. CASE Refuse
  BY <1>1, <1>4, Answered DEF Refuse
<1>5. CASE n.key \in Hooks(built[n.from]) /\ Acknowledge(n, ActsOn(n), "kind")
  BY <1>1, <1>2, <1>3, <1>5, MeantActs, Answered DEF Named
<1>6. CASE Acknowledge(n, FALSE, "unset")
  BY <1>1, <1>6, Answered
<1> QED
  BY <1>1, <1>4, <1>5, <1>6 DEF HandleWebhook, SignedWebhook, VietQRWebhook

LEMMA AppleStep ==
  ASSUME NoticesInv, NEW n \in sent, HandleProviderNotification(n)
  PROVE  NoticesInv'
<1>1. /\ UNCHANGED configVars /\ UNCHANGED work /\ n \in Notices /\ n.from = "apple"
      /\ running /\ apple.bundle
  BY DEF HandleProviderNotification, Served, NoticesInv
<1>2. apple.env # "" /\ apple.env \in saved /\ ActsOn(n) \in BOOLEAN
  BY <1>1 DEF NoticesInv, KeysOK, ValidConfig, ActsOn
<1>3. CASE Refuse
  BY <1>1, <1>3, Answered DEF Refuse
<1>4. CASE Claims(n) /\ Acknowledge(n, ActsOn(n), "kind")
  BY <1>1, <1>2, <1>4, MeantActs, Answered DEF Named, Claims
<1> QED
  BY <1>3, <1>4 DEF HandleProviderNotification, AppleWebhook

\* A lookup that gets no token looks nothing up.
LEMMA TokenFailsStep ==
  ASSUME NoticesInv, UNCHANGED configVars, NEW w \in Workers, work[w].pc \in CallPcs, TokenFails(w)
  PROVE  NoticesInv'
<1>1. Takes(w, Idle) /\ CallOK(w)
  BY DEF TokenFails, Finish, Goto, Takes, NoticesInv
<1>2. CASE work[w].next = "lookup"
  <2>1. work[w].n \in Notices /\ work[w].n.kind = "sale"
    BY <1>1, <1>2 DEF CallOK
  <2> QED
    BY <1>1, <1>2, <2>1, Answered DEF TokenFails
<1>3. CASE work[w].next # "lookup"
  BY <1>1, <1>3, Answered DEF TokenFails, Refuse
<1> QED
  BY <1>2, <1>3

LEMMA PayPalStep ==
  ASSUME NoticesInv, NEW w \in Workers,
         \/ CachedToken(w) \/ FetchToken(w) \/ PayPalCheckout(w) \/ PayPalOrder(w)
         \/ \E n \in sent : PayPalWebhook(w, n)
         \/ VerifyPayPal(w) \/ FetchNextBilling(w) \/ NoticesAbort(w)
  PROVE  NoticesInv'
<1>0. CallOK(w) /\ TasksOK /\ "pc" \in DOMAIN work[w]
  BY DEF NoticesInv, TasksOK
<1>1. UNCHANGED configVars
  BY DEF CachedToken, FetchToken, PayPalCheckout, PayPalOrder, PayPalWebhook, VerifyPayPal,
         FetchNextBilling, NoticesAbort, noticesVars
<1>2. CASE CachedToken(w)
  <2>1. work[w].pc = "token"
    BY <1>2 DEF CachedToken, At
  <2>2. CASE TokenFails(w)
    BY <1>1, <2>1, <2>2, TokenFailsStep DEF CallPcs
  <2>3. CASE Takes(w, [work[w] EXCEPT !.pc = work[w].next, !.bearer = token]) /\ Refuse
    <3> DEFINE t == [work[w] EXCEPT !.pc = work[w].next, !.bearer = token]
    <3>1. /\ {"pc", "next", "n", "creds", "bearer"} \subseteq DOMAIN t /\ t.pc = work[w].next
          /\ t.next = work[w].next /\ t.n = work[w].n /\ t.creds = work[w].creds
      BY <1>0, <2>1 DEF CallOK, CallPcs
    <3> HIDE DEF t
    <3> QED
      BY <1>0, <1>1, <2>1, <2>3, <3>1, CallGoesOn DEF CallOK, CallPcs, Refuse, t
  <2>4. CASE Takes(w, [work[w] EXCEPT !.pc = "fetch"]) /\ Refuse
    <3> DEFINE t == [work[w] EXCEPT !.pc = "fetch"]
    <3>1. /\ {"pc", "next", "n", "creds", "bearer"} \subseteq DOMAIN t /\ t.pc = "fetch"
          /\ t.next = work[w].next /\ t.n = work[w].n /\ t.creds = work[w].creds
      BY <1>0, <2>1 DEF CallOK, CallPcs
    <3>2. Takes(w, t)
      BY <2>4
    <3> HIDE DEF t
    <3> QED
      BY <1>0, <1>1, <2>1, <2>4, <3>1, <3>2, CallGoesOn DEF CallOK, CallPcs, Refuse
  <2> QED
    BY <1>2, <2>2, <2>3, <2>4 DEF CachedToken, Goto, Takes
<1>3. CASE FetchToken(w)
  <2>1. work[w].pc = "fetch"
    BY <1>3 DEF FetchToken, At
  <2>2. CASE TokenFails(w)
    BY <1>1, <2>1, <2>2, TokenFailsStep DEF CallPcs
  <2>3. CASE Takes(w, [work[w] EXCEPT !.pc = work[w].next, !.bearer = work[w].creds.api]) /\ Refuse
    <3> DEFINE t == [work[w] EXCEPT !.pc = work[w].next, !.bearer = work[w].creds.api]
    <3>1. /\ {"pc", "next", "n", "creds", "bearer"} \subseteq DOMAIN t /\ t.pc = work[w].next
          /\ t.next = work[w].next /\ t.n = work[w].n /\ t.creds = work[w].creds
      BY <1>0, <2>1 DEF CallOK, CallPcs
    <3>2. Takes(w, t)
      BY <2>3
    <3> HIDE DEF t
    <3> QED
      BY <1>0, <1>1, <2>1, <2>3, <3>1, <3>2, CallGoesOn DEF CallOK, CallPcs, Refuse
  <2> QED
    BY <1>3, <2>2, <2>3 DEF FetchToken, Goto, Takes
<1>4. CASE PayPalCheckout(w)
  <2> DEFINE t == Call("order", NoRow)
  <2>1. Takes(w, t) /\ UNCHANGED noticeVars
    BY <1>4 DEF PayPalCheckout, Begin, Takes, noticesVars
  <2>2. {"pc", "next", "n", "creds", "bearer"} \subseteq DOMAIN t /\ t.pc = "token" /\ t.next = "order"
    BY DEF Call
  <2> HIDE DEF t
  <2> QED
    BY <1>1, <2>1, <2>2, CallGoesOn
<1>5. CASE PayPalOrder(w)
  BY <1>1, <1>5, Answered DEF PayPalOrder, Finish, Goto, Takes
<1>6. ASSUME NEW n \in sent, PayPalWebhook(w, n) PROVE NoticesInv'
  <2> DEFINE t == Call("verify", n)
  <2>1. n \in Notices /\ n.from = "paypal"
    BY <1>6 DEF PayPalWebhook, NoticesInv
  <2>2. CASE UNCHANGED work /\ Refuse
    BY <1>1, <2>2, Answered DEF Refuse
  <2>3. CASE UNCHANGED work /\ Acknowledge(n, FALSE, "unset")
    BY <1>1, <2>1, <2>3, Answered
  <2>4. CASE Takes(w, t) /\ Refuse
    <3>1. /\ {"pc", "next", "n", "creds", "bearer"} \subseteq DOMAIN t /\ t.pc = "token"
          /\ t.next = "verify" /\ t.n = n /\ t.creds = Credentials("paypal")
      BY DEF Call
    <3>2. Credentials("paypal")["hook"] \in saved
      BY BoundToSettings, CredentialsGiven DEF NoticesInv
    <3>3. t.creds.hook \in saved
      BY <3>1, <3>2
    <3> HIDE DEF t
    <3> QED
      BY <1>1, <2>1, <2>4, <3>1, <3>3, CallGoesOn DEF Refuse
  <2> QED
    BY <1>6, <2>2, <2>3, <2>4 DEF PayPalWebhook, Served, Begin, Takes
<1>7. CASE VerifyPayPal(w)
  <2> DEFINE n == work[w].n
             t == [work[w] EXCEPT !.pc = "token", !.next = "lookup"]
  <2>1. /\ work[w].pc = "verify" /\ work[w].next = "verify"
        /\ n \in Notices /\ n.from = "paypal" /\ work[w].creds.hook \in saved
    BY <1>0, <1>7 DEF VerifyPayPal, At, CallOK, CallPcs
  <2>2. CASE Refuse /\ Takes(w, Idle)
    BY <1>1, <2>2, Answered DEF Refuse
  <2>3. CASE n.key = work[w].creds.hook /\ n.kind = "sale" /\ Refuse /\ Takes(w, t)
    <3>1. /\ {"pc", "next", "n", "creds", "bearer"} \subseteq DOMAIN t /\ t.pc = "token"
          /\ t.next = "lookup" /\ t.n = n
      BY <1>0, <2>1 DEF CallOK, CallPcs
    <3>2. Takes(w, t)
      BY <2>3
    <3> HIDE DEF t
    <3> QED
      BY <1>1, <2>1, <2>3, <3>1, <3>2, CallGoesOn DEF Refuse
  <2>4. CASE n.key = work[w].creds.hook /\ Acknowledge(n, ActsOn(n), "kind") /\ Takes(w, Idle)
    <3>1. Named(n) \in saved /\ ActsOn(n) \in BOOLEAN /\ (Meant(n) => ActsOn(n))
      BY <2>1, <2>4, MeantActs DEF Named, ActsOn
    <3> QED
      BY <1>1, <2>1, <2>4, <3>1, Answered
  <2> QED
    BY <1>7, <2>2, <2>3, <2>4 DEF VerifyPayPal, Finish, Goto, Takes
<1>8. CASE FetchNextBilling(w)
  <2> DEFINE n == work[w].n
  <2>1. work[w].pc = "lookup" /\ Takes(w, Idle)
    BY <1>8 DEF FetchNextBilling, At, Finish, Goto, Takes
  <2>2. n \in Notices /\ n.from = "paypal" /\ n.kind = "sale" /\ Named(n) \in saved
    BY <1>0, <2>1 DEF CallOK, CallPcs, Named
  <2>3. PICK found \in BOOLEAN : Acknowledge(n, found, "lookup")
    BY <1>8 DEF FetchNextBilling, Authorized
  <2> HIDE DEF n
  <2> QED
    BY <1>1, <2>1, <2>2, <2>3, Answered
<1>9. CASE NoticesAbort(w)
  BY <1>1, <1>9, Answered DEF NoticesAbort, Abort, Finish, Goto, Takes, noticesVars
<1> QED
  BY <1>2, <1>3, <1>4, <1>5, <1>6, <1>7, <1>8, <1>9

LEMMA NoticesStep == NoticesInv /\ [NoticesNext]_<<servingVars, noticesVars>> => NoticesInv'
<1> SUFFICES ASSUME NoticesInv, [NoticesNext]_<<servingVars, noticesVars>> PROVE NoticesInv'
  OBVIOUS
<1>0. sent \subseteq Notices
  BY DEF NoticesInv
<1>1. ASSUME NEW p \in Keyed \cap ops, NEW f \in DOMAIN keyring[p], NEW k, RotateAtProvider(p, f, k)
      PROVE  NoticesInv'
  BY <1>0, <1>1, Untouched DEF RotateAtProvider, servingVars, noticeVars
<1>2. ASSUME NEW ms \in Csvs, SaveMethods(ms) PROVE NoticesInv'
  BY <1>0, <1>2, Untouched DEF SaveMethods, Served, noticeVars
<1>3. CASE TokenExpires
  BY <1>0, <1>3, Untouched DEF TokenExpires, servingVars, configVars, noticeVars
<1>4. ASSUME NEW m \in DOMAIN MethodProvider, CreateCheckout(m) PROVE NoticesInv'
  BY <1>0, <1>4, Untouched DEF CreateCheckout, Served, configVars, noticeVars
<1>5. ASSUME NEW n \in Notices, Announce(n) PROVE NoticesInv'
  BY <1>0, <1>5, Untouched DEF Announce, servingVars, configVars
<1>6. CASE UNCHANGED <<servingVars, noticesVars>>
  BY <1>0, <1>6, Untouched DEF servingVars, noticesVars, configVars, noticeVars
<1> QED
  BY <1>1, <1>2, <1>3, <1>4, <1>5, <1>6, SettingStep, RestartStep, WebhookStep, AppleStep, PayPalStep
  DEF NoticesNext

LEMMA NoticesInitially == ServingInit /\ NoticesInit => NoticesInv
<1> SUFFICES ASSUME ServingInit, NoticesInit PROVE NoticesInv
  OBVIOUS
<1>1. TasksOK /\ \A w \in Workers : CallOK(w)
  BY TasksInitially DEF CallOK, CallPcs
<1>2. \A p \in Keyed : DOMAIN keyring[p] = DOMAIN EnvKeys[p]
  BY NoticesAssumption DEF NoticesInit
<1> DEFINE rings == {keyring[p] : p \in Keyed} \cup {EnvKeys[p] : p \in Keyed}
           values == {{c[f] : f \in DOMAIN c} : c \in rings}
<1>3. saved = {apple.env} \cup (UNION values)
  BY DEF NoticesInit
<1>4. \A p \in Keyed : keyring[p] \in rings /\ EnvKeys[p] \in rings
  OBVIOUS
<1> HIDE DEF rings
<1>5. ASSUME NEW c \in rings, NEW f \in DOMAIN c PROVE c[f] \in saved
  <2> DEFINE here == {c[g] : g \in DOMAIN c}
  <2>1. c[f] \in here /\ here \in values
    OBVIOUS
  <2> HIDE DEF here, values
  <2> QED
    BY <1>3, <2>1
<1> HIDE DEF values
<1>6. \A p \in Keyed : \A f \in DOMAIN EnvKeys[p] : keyring[p][f] \in saved /\ EnvKeys[p][f] \in saved
  BY <1>2, <1>4, <1>5
<1>7. built = [p \in Keyed |-> Credentials(p)]
  BY DEF NoticesInit
<1>8. ASSUME NEW p \in Keyed
      PROVE  DOMAIN built[p] = DOMAIN EnvKeys[p] /\ \A f \in DOMAIN EnvKeys[p] : built[p][f] \in saved
  <2>1. built[p] = [f \in DOMAIN keyring[p] |-> ResolveCredential(keyring[p][f], EnvKeys[p][f])]
    BY <1>7 DEF Credentials
  <2> QED
    BY <1>2, <1>6, <2>1 DEF ResolveCredential
<1>9. DOMAIN keyring = Keyed /\ apple.env \in saved /\ ValidConfig(apple)
  <2>1. keyring = FirstSettings /\ apple.env = "" /\ apple.bundle = FALSE
    BY DEF NoticesInit, NoApple
  <2>2. apple.env \in saved
    BY <1>3
  <2> QED
    BY <2>1, <2>2, NoticesAssumption DEF ValidConfig
<1>10. KeysOK
  BY <1>2, <1>6, <1>8, <1>9 DEF KeysOK
<1> QED
  BY <1>1, <1>10 DEF NoticesInv, NoticesInit, NoticesHonoured

\* However credentials are rotated, saved and read at boot or by the call, and
\* however PayPal calls overlap with them: only a notice under a secret, or for
\* an App Store environment, the server was given is acted on, and a whole one is
\* lost only while its secret is unset or PayPal does not say how far a sale
\* reaches (payment/strategy, VerifyWebhook and ParseWebhook of each strategy).
THEOREM NoticesAlwaysHonoured == NoticesSpec => []NoticesHonoured
<1>1. NoticesInv => NoticesHonoured
  BY DEF NoticesInv
<1> QED
  BY <1>1, NoticesInitially, NoticesStep, PTL DEF NoticesSpec
-----------------------------------------------------------------------------
(* What is sold, at which provider, and under which of PayPal's tokens.    *)

TokensOK ==
  /\ DOMAIN theirs = Keyed /\ token \in Keys \cup {Unset}
  /\ theirs["paypal"].api \in Keys \cup {Unset} /\ "api" \in DOMAIN theirs["paypal"]

SalesOK ==
  /\ DOMAIN built = Keyed
  /\ bought \subseteq DOMAIN MethodProvider /\ acted \subseteq Notices /\ notices \in 0..MaxNotices

LEMMA SalesInitially == NoticesInit => TokensOK /\ SalesOK
<1> SUFFICES ASSUME NoticesInit PROVE TokensOK /\ SalesOK
  OBVIOUS
<1>1. FirstSettings["paypal"] \in [DOMAIN EnvKeys["paypal"] -> Keys \cup {Unset}]
  BY NoticesAssumption DEF Keyed
<1> QED
  BY <1>1, NoticesAssumption DEF NoticesInit, TokensOK, SalesOK

\* Only a notice there is gets handed on.
LEMMA SalesRest ==
  ASSUME SalesOK, UNCHANGED <<built, bought, noticeVars>>
  PROVE  SalesOK'
  BY DEF SalesOK, noticeVars

LEMMA SalesAnswered ==
  ASSUME SalesOK, UNCHANGED <<built, bought>>, NEW n \in Notices, NEW does, NEW why,
         Acknowledge(n, does, why) \/ Refuse
  PROVE  SalesOK'
  BY DEF SalesOK, Acknowledge, Refuse, noticeVars

LEMMA TokensRest ==
  ASSUME TokensOK, UNCHANGED theirs, token' \in {token, Unset, theirs["paypal"].api}
  PROVE  TokensOK'
  BY DEF TokensOK

LEMMA RotateTyped ==
  ASSUME TokensOK, SalesOK, NEW p \in Keyed, NEW f, NEW k \in Keys, RotateAtProvider(p, f, k)
  PROVE  TokensOK' /\ SalesOK'
<1>1. theirs' = [theirs EXCEPT ![p][f] = k] /\ UNCHANGED <<token, built, bought, noticeVars>>
  BY DEF RotateAtProvider
<1>2. DOMAIN theirs' = Keyed /\ theirs'["paypal"] = IF p = "paypal" THEN [theirs["paypal"] EXCEPT ![f] = k]
                                                                     ELSE theirs["paypal"]
  BY <1>1 DEF TokensOK, Keyed
<1>3. /\ "api" \in DOMAIN theirs'["paypal"]
      /\ theirs'["paypal"].api = theirs["paypal"].api \/ theirs'["paypal"].api = k
  BY <1>2 DEF TokensOK
<1> QED
  BY <1>1, <1>2, <1>3, SalesRest DEF TokensOK

LEMMA WebhookTyped ==
  ASSUME TokensOK, SalesOK, sent \subseteq Notices, NEW n \in sent,
         HandleWebhook(n) \/ HandleProviderNotification(n)
  PROVE  TokensOK' /\ SalesOK'
<1>1. UNCHANGED <<theirs, token, built, bought>>
  BY DEF HandleWebhook, HandleProviderNotification, configVars
<1>2. Refuse \/ \E does, why : Acknowledge(n, does, why)
  BY DEF HandleWebhook, VietQRWebhook, SignedWebhook, HandleProviderNotification, AppleWebhook
<1> QED
  BY <1>1, <1>2, SalesAnswered, TokensRest

LEMMA PayPalTyped ==
  ASSUME NoticesInv, TokensOK, SalesOK, NEW w \in Workers,
         \/ CachedToken(w) \/ FetchToken(w) \/ PayPalCheckout(w) \/ PayPalOrder(w)
         \/ \E n \in sent : PayPalWebhook(w, n)
         \/ VerifyPayPal(w) \/ FetchNextBilling(w) \/ NoticesAbort(w)
  PROVE  TokensOK' /\ SalesOK'
<1>1. UNCHANGED <<theirs, built>>
  BY DEF CachedToken, FetchToken, PayPalCheckout, PayPalOrder, PayPalWebhook, VerifyPayPal,
     FetchNextBilling, NoticesAbort, configVars, noticesVars
<1>2. sent \subseteq Notices /\ CallOK(w)
  BY DEF NoticesInv
<1>3. CASE CachedToken(w)
  <2>1. UNCHANGED <<token, bought>>
    BY <1>3 DEF CachedToken
  <2>2. Refuse \/ (work[w].next = "lookup" /\ Acknowledge(work[w].n, FALSE, "lookup"))
    BY <1>3 DEF CachedToken, TokenFails
  <2>3. work[w].next = "lookup" => work[w].n \in Notices
    BY <1>2, <1>3 DEF CallOK, CallPcs, CachedToken, At
  <2>4. CASE Refuse
    BY <1>1, <2>1, <2>4, SalesRest, TokensRest DEF Refuse
  <2>5. CASE work[w].next = "lookup" /\ Acknowledge(work[w].n, FALSE, "lookup")
    BY <1>1, <2>1, <2>3, <2>5, SalesAnswered, TokensRest
  <2> QED
    BY <2>2, <2>4, <2>5
<1>4. CASE FetchToken(w)
  <2>1. UNCHANGED bought /\ token' \in {token, theirs["paypal"].api}
    BY <1>4 DEF FetchToken
  <2>2. Refuse \/ (work[w].next = "lookup" /\ Acknowledge(work[w].n, FALSE, "lookup"))
    BY <1>4 DEF FetchToken, TokenFails
  <2>3. work[w].next = "lookup" => work[w].n \in Notices
    BY <1>2, <1>4 DEF CallOK, CallPcs, FetchToken, At
  <2>4. CASE Refuse
    BY <1>1, <2>1, <2>4, SalesRest, TokensRest DEF Refuse
  <2>5. CASE work[w].next = "lookup" /\ Acknowledge(work[w].n, FALSE, "lookup")
    BY <1>1, <2>1, <2>3, <2>5, SalesAnswered, TokensRest
  <2> QED
    BY <2>2, <2>4, <2>5
<1>5. CASE PayPalOrder(w)
  <2>1. UNCHANGED <<token, noticeVars>> /\ bought' \subseteq bought \cup {"paypal"}
    BY <1>5 DEF PayPalOrder
  <2> QED
    BY <1>1, <2>1, TokensRest DEF SalesOK, MethodProvider, noticeVars
<1>6. CASE PayPalCheckout(w) \/ NoticesAbort(w)
  BY <1>1, <1>6, SalesRest, TokensRest DEF PayPalCheckout, NoticesAbort, noticesVars
<1>7. ASSUME NEW n \in sent, PayPalWebhook(w, n) PROVE TokensOK' /\ SalesOK'
  BY <1>1, <1>2, <1>7, SalesAnswered, TokensRest DEF PayPalWebhook
<1>8. CASE VerifyPayPal(w)
  <2>1. work[w].n \in Notices
    BY <1>2, <1>8 DEF CallOK, CallPcs, VerifyPayPal, At
  <2>2. Refuse \/ \E does : Acknowledge(work[w].n, does, "kind")
    BY <1>8 DEF VerifyPayPal
  <2> QED
    BY <1>1, <1>8, <2>1, <2>2, SalesAnswered, TokensRest DEF VerifyPayPal
<1>9. CASE FetchNextBilling(w)
  <2>1. work[w].n \in Notices
    BY <1>2, <1>9 DEF CallOK, CallPcs, FetchNextBilling, At
  <2> QED
    BY <1>1, <1>9, <2>1, SalesAnswered, TokensRest DEF FetchNextBilling
<1> QED
  BY <1>3, <1>4, <1>5, <1>6, <1>7, <1>8, <1>9

LEMMA SalesStep ==
  ASSUME NoticesInv, TokensOK, SalesOK, [NoticesNext]_<<servingVars, noticesVars>>
  PROVE  TokensOK' /\ SalesOK'
<1>0. sent \subseteq Notices
  BY DEF NoticesInv
<1>1. ASSUME NEW p \in Keyed \cap ops, NEW f \in DOMAIN keyring[p], NEW k \in Keys,
             RotateAtProvider(p, f, k) \/ \E value \in {k, Unset} : SaveSetting(p, f, value)
      PROVE  TokensOK' /\ SalesOK'
  BY <1>1, RotateTyped, SalesRest, TokensRest DEF SaveSetting
<1>2. CASE \/ \E ms \in Csvs : SaveMethods(ms)
           \/ TokenExpires \/ UNCHANGED <<servingVars, noticesVars>>
  BY <1>2, SalesRest, TokensRest DEF SaveMethods, TokenExpires, configVars, noticesVars
<1>3. ASSUME NEW c, Restart(c) PROVE TokensOK' /\ SalesOK'
  <2>1. /\ built' = [p \in Keyed |-> Credentials(p)] /\ token' = Unset
        /\ UNCHANGED <<theirs, bought, noticeVars>>
    BY <1>3 DEF Restart, Boot
  <2>2. DOMAIN built' = Keyed
    BY <2>1
  <2> QED
    BY <2>1, <2>2, TokensRest DEF SalesOK, noticeVars
<1>4. ASSUME NEW m \in DOMAIN MethodProvider, CreateCheckout(m) PROVE TokensOK' /\ SalesOK'
  BY <1>4, TokensRest DEF CreateCheckout, configVars, noticeVars, SalesOK
<1>5. ASSUME NEW n \in Notices, Announce(n) PROVE TokensOK' /\ SalesOK'
  <2>1. /\ UNCHANGED <<theirs, built, acted, token, bought>>
        /\ notices < MaxNotices /\ notices' = notices + 1
    BY <1>5 DEF Announce, configVars
  <2> QED
    BY <2>1, TokensRest, NoticesAssumption DEF SalesOK
<1>6. ASSUME NEW n \in sent, HandleWebhook(n) \/ HandleProviderNotification(n) PROVE TokensOK' /\ SalesOK'
  BY <1>0, <1>6, WebhookTyped
<1> QED
  BY <1>1, <1>2, <1>3, <1>4, <1>5, <1>6, PayPalTyped DEF NoticesNext

LEMMA NoticesInvTyped == NoticesInv /\ TokensOK /\ SalesOK => NoticesTypeOK
<1> SUFFICES ASSUME NoticesInv, TokensOK, SalesOK PROVE NoticesTypeOK
  OBVIOUS
<1>1. running => (apple.bundle <=> apple.env # "")
  BY DEF NoticesInv, KeysOK, ValidConfig
<1> QED
  BY <1>1, Zenon DEF NoticesInv, KeysOK, TokensOK, SalesOK, NoticesTypeOK

\* Every provider is configured, a token was issued for a key, what is acted on
\* is a notice there was, and a server that is up has a whole App Store
\* configuration or none (config.Load refuses half of one).
THEOREM NoticesTyped == NoticesSpec => []NoticesTypeOK
<1>1. ServingInit /\ NoticesInit => NoticesInv /\ TokensOK /\ SalesOK
  BY NoticesInitially, SalesInitially
<1>2. (NoticesInv /\ TokensOK /\ SalesOK) /\ [NoticesNext]_<<servingVars, noticesVars>>
        => (NoticesInv /\ TokensOK /\ SalesOK)'
  BY NoticesStep, SalesStep
<1> QED
  BY <1>1, <1>2, NoticesInvTyped, PTL DEF NoticesSpec

=============================================================================
