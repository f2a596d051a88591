----------------------------- MODULE AccountProofs -----------------------------
(***************************************************************************)
(* The accounts, for any number of requests, users, addresses, identities  *)
(* and devices, and whatever is deleted, disabled, cut short or overtaken  *)
(* meanwhile.                                                              *)
(*                                                                         *)
(* Typed comes first: what every table, request and counter holds.  Then   *)
(* the steps are summarised by what they do to the tables and to the work, *)
(* and each promise is proved from the summaries alone.                    *)
(***************************************************************************)
EXTENDS AccountProps, FiniteSetTheorems, TLAPS

Owned == [table : Tables, user : Ids, n : 1..MaxRows]

TablesOK ==
  /\ users \in [Ids -> User \cup {NoRow}]
  /\ rows \subseteq Owned
  /\ tokens \subseteq Token
  /\ profiles \in [Ids -> Profile \cup {NoRow}]

\* Requests that may still create an account, that run for a social sign-in,
\* and that work on an account.
Founding == {"create", "byEmail", "socialCreate"}
Signing  == {"byEmail", "link", "reload", "socialCreate"}
ForUser  == {"free", "verify", "resend", "forgot", "bump", "burn", "reset", "change",
             "link", "reload", "sweep", "insert", "upsert"}

\* What a request holds at each of its points.
TaskOK(t) ==
  /\ t \in Task
  /\ t.op = "delete" <=> t.pc = "sweep"
  /\ t.pc = "create" => t.email \in Addresses /\ t.op = "register"
  /\ t.pc \in Signing => t.who \in Identities /\ t.op # "register"
  /\ t.pc \in ForUser => t.u \in Ids
  /\ t.pc \in {"bump", "burn", "reset"} => t.row \in User
  /\ t.pc = "sweep" => t.stage \in 1..8
  /\ t.pc = "insert" => t.device \in Devices
  /\ t.pc = "upsert" => t.profile \in Profile

WorkOK == work \in [Workers -> Task] /\ \A w \in Workers : TaskOK(work[w])

CountsOK ==
  /\ ops \in Scenes /\ secret \in Keys /\ now \in 0..MaxTime
  /\ lastUser \in 0..MaxUsers /\ lastCode \in 0..MaxCodes /\ lastRow \in 0..MaxRows
  /\ requests \in Nat /\ aborts \in Nat /\ alone \in BOOLEAN
  /\ answer.status \in Statuses \cup {0}

ObservedOK ==
  /\ spent \in [0..MaxCodes -> Nat] /\ tries \in [0..MaxCodes -> Nat]

\* Every request that may still create an account has an id left for it.
Founders == {w \in Workers : work[w].pc \in Founding}
RoomOK == lastUser + Cardinality(Founders) <= MaxUsers

\* The unique index on addresses.
EmailsOK ==
  \A u, v \in Existing(users) : users[u].email = users[v].email => u = v

Typed == TablesOK /\ EmailsOK /\ WorkOK /\ CountsOK /\ ObservedOK /\ RoomOK
-----------------------------------------------------------------------------
LEMMA Constants ==
  /\ MaxUsers \in Nat /\ MaxCodes \in Nat /\ MaxRows \in Nat /\ MaxTime \in Nat
  /\ MaxRequests \in Nat /\ MaxAborts \in Nat
  /\ emailCodeTTL \in Nat /\ emailCodeTTL >= 1
  /\ maxResetAttempts \in Nat /\ maxResetAttempts >= 1
  /\ Ids \subseteq Nat \ {0}
<1>1. \A n \in {emailCodeTTL, maxResetAttempts} : n \in Nat /\ n >= 1
  BY LimitAssumption
<1>2. \A n \in {MaxRequests, MaxCodes, MaxRows, MaxTime, MaxAborts} : n \in Nat
  BY LimitAssumption
<1> QED
  BY <1>1, <1>2, IdAssumption DEF Ids

LEMMA NoCodeIsCode == NoCode \in Code /\ NoCode.n = 0
  BY DEF NoCode, Code

LEMMA IdleOK ==
  /\ Idle \in Task /\ TaskOK(Idle) /\ Idle.pc = "idle"
  /\ DOMAIN Idle = {"pc", "op", "u", "email", "pw", "code", "who", "row", "swept", "stage",
                    "profile", "device"}
<1> DEFINE E == {} R == Row \cup Token
<1>a. "idle" \in Pc /\ "none" \in Ops /\ 0 \in 0..8
  BY DEF Pc, Ops
<1>b. E \in SUBSET R
  OBVIOUS
<1>c. Idle = [pc |-> "idle", op |-> "none", u |-> 0, email |-> None, pw |-> None,
              code |-> NoCode, who |-> None, row |-> NoRow, swept |-> E, stage |-> 0,
              profile |-> NoRow, device |-> None]
  BY DEF Idle
<1> HIDE DEF E
<1>1. Idle \in Task
  BY NoCodeIsCode, <1>a, <1>b, <1>c DEF Task
<1> QED
  BY <1>1 DEF Idle, TaskOK, Signing, ForUser

LEMMA TaskIs ==
  ASSUME NEW t \in Task
  PROVE  /\ t.pc \in Pc /\ t.op \in Ops /\ t.u \in Ids \cup {0} /\ t.email \in Addresses \cup {None}
         /\ t.pw \in Passwords \cup {None} /\ t.code \in Code /\ t.who \in Identities \cup {None}
         /\ t.row \in User \cup {NoRow} /\ t.swept \in SUBSET (Row \cup Token)
         /\ t.stage \in 0..8 /\ t.profile \in Profile \cup {NoRow}
         /\ t.device \in Devices \cup {None} /\ DOMAIN t = DOMAIN Idle
  BY DEF Task, Idle

LEMMA CodeFields == \A c \in Code : c.n \in Nat /\ c.until \in Nat
  BY DEF Code

LEMMA UserFields ==
  \A r \in User : /\ r.email \in Addresses /\ r.pw \in Passwords \cup {None}
                  /\ r.provider \in Providers /\ r.social \subseteq SocialKinds \X SocialIds
                  /\ r.verified \in BOOLEAN /\ r.active \in BOOLEAN
                  /\ r.vcode \in Code /\ r.rcode \in Code /\ r.attempts \in Nat
  BY DEF User

LEMMA IdentityFields ==
  \A who \in Identities : /\ who.kind \in SocialKinds /\ who.id \in SocialIds
                          /\ who.email \in Addresses /\ who.vouched \in BOOLEAN
  BY IdentityAssumption DEF Identity

LEMMA NewCodeOK == CountsOK => NewCode \in Code /\ NewCode.n = lastCode + 1
  BY Constants DEF CountsOK, NewCode, Code

LEMMA SweepsAre ==
  /\ DOMAIN Sweeps = 1..7
  /\ {Sweeps[i] : i \in 1..7} = Tables
  BY DEF Sweeps, Tables, Holding, Yielding

\* The statements on one row of users.
LEMMA PatchVcode ==
  ASSUME NEW r, NEW c
  PROVE  Update(r, [vcode |-> c]) = [r EXCEPT !.vcode = c]
  BY DEF Update, SetEmailVerificationCode

LEMMA PatchAttempts ==
  ASSUME NEW r, NEW a
  PROVE  Update(r, [attempts |-> a]) = [r EXCEPT !.attempts = a]
  BY DEF Update, SetPasswordResetAttempts

LEMMA PatchPassword ==
  ASSUME NEW r, NEW p
  PROVE  Update(r, [pw |-> p]) = [r EXCEPT !.pw = p, !.rcode = NoCode, !.attempts = 0]
  BY DEF Update, ResetPasswordHash

LEMMA PatchSocial ==
  ASSUME NEW r, NEW k, NEW s
  PROVE  Update(r, [kind |-> k, social |-> s]) = LinkSocial(r, k, s)
  BY DEF Update

LEMMA Incremented ==
  ASSUME NEW n \in Nat, NEW f \in [0..n -> Nat], NEW c
  PROVE  [f EXCEPT ![c] = f[c] + 1] \in [0..n -> Nat]
<1>1. CASE c \in 0..n
  BY <1>1
<1>2. CASE c \notin 0..n
  BY <1>2
<1> QED
  BY <1>1, <1>2
-----------------------------------------------------------------------------
(***************************************************************************)
(* The first statement of a request.                                       *)
(***************************************************************************)

\* What a request that goes on after its first statement has read by then.
Opening(t) ==
  /\ TaskOK(t)
  /\ t.pc \in {"create", "change", "verify", "resend", "forgot", "bump", "burn", "reset",
               "byEmail", "sweep", "insert", "upsert"}
  /\ t.pc \in {"create", "resend", "forgot"} => t.code.n = lastCode + 1 /\ lastCode' = lastCode + 1
  /\ t.pc \in Founding => Space
  /\ t.pc = "verify" =>
       t.u \in Existing(users) /\ AcceptsCode(users[t.u], t.code.n) /\ t.code.n \in Guesses
  /\ t.pc \in {"bump", "burn", "reset"} =>
       /\ t.u \in Existing(users) /\ t.row = users[t.u] /\ t.row.rcode.n # 0
       /\ t.pc = "bump" => t.row.attempts + 1 < maxResetAttempts
  /\ t.pc = "byEmail" => FindBySocialId(users, t.who.kind, t.who.id) = {}
  /\ t.pc = "sweep" => t.stage = 1

Opens(t) == \E w \in Workers : work[w] = Idle /\ work' = [work EXCEPT ![w] = t]

\* The request is answered at once, or goes on.
Starts ==
  /\ UNCHANGED <<envVars, users, rows, profiles, lastUser, lastRow, mailed,
                 proven, vouches, spent, tries>>
  /\ lastCode' \in 0..MaxCodes /\ lastCode' \in {lastCode, lastCode + 1}
  /\ requests' = requests + 1 /\ alone' = (alone /\ Busy = {})
  /\ answer'.status \in Statuses \cup {0} /\ answer'.op # "delete"
  /\ UNCHANGED work \/ (\E t \in Task : Opening(t) /\ Opens(t))

\* Starts, and no token is touched.
StartsPlainly == Starts /\ UNCHANGED <<tokens, kept>>
LEMMA Named ==
  /\ {"create", "free", "verify", "resend", "forgot", "bump", "burn", "reset", "change",
      "byEmail", "link", "reload", "socialCreate", "sweep", "insert", "upsert"} \subseteq Pc
  /\ {"register", "verify", "resend", "forgot", "reset", "change", "social", "socialNew",
      "delete", "mint", "job", "notes"} \subseteq Ops
  BY DEF Pc, Ops

LEMMA ServedStarts ==
  ASSUME Typed, NEW op, NEW name, NEW u, NEW status \in Statuses,
         Arrive(op), Served(name, u, status), name # "delete", lastCode' = lastCode,
         UNCHANGED <<envVars, users, rows, profiles, lastUser, lastRow, mailed,
                     proven, vouches, spent, tries>>
  PROVE  Starts
<1>1. answer'.status = status /\ answer'.op = name
  BY DEF Served
<1> QED
  BY <1>1 DEF Starts, Arrive, Served, Typed, CountsOK

LEMMA BegunStarts ==
  ASSUME Typed, NEW op, NEW w \in Workers, NEW t, Opening(t),
         Arrive(op), Begin(w, t), lastCode' \in {lastCode, lastCode + 1}, lastCode' \in 0..MaxCodes,
         UNCHANGED <<envVars, users, rows, profiles, lastUser, lastRow, mailed,
                     proven, vouches, spent, tries>>
  PROVE  Starts
<1>1. answer'.status = 0 /\ answer'.op = "none"
  BY DEF Begin, Quiet, NoAnswer
<1>2. t \in Task /\ Opens(t)
  BY DEF Begin, Opens, Opening, TaskOK
<1> QED
  BY <1>1, <1>2 DEF Starts, Arrive

LEMMA DrawnCode ==
  ASSUME Typed, DrawCode
  PROVE  /\ lastCode' = lastCode + 1 /\ lastCode' \in 0..MaxCodes
         /\ NewCode \in Code /\ NewCode.n = lastCode + 1
  BY NewCodeOK, Constants DEF Typed, CountsOK, DrawCode

LEMMA RegisterStarts ==
  ASSUME Typed, NEW w \in Workers, NEW e \in Addresses, NEW pw \in Passwords, Register(w, e, pw)
  PROVE  StartsPlainly
<1>1. /\ Arrive("register") /\ Space
      /\ UNCHANGED <<envVars, tableVars, sentVars, observerVars, lastUser, lastRow>>
  BY DEF Register
<1>2. /\ UNCHANGED <<envVars, users, rows, profiles, lastUser, lastRow, mailed,
                     proven, vouches, spent, tries>>
      /\ UNCHANGED <<tokens, kept>>
  BY <1>1 DEF tableVars, sentVars, observerVars
<1>3. CASE GetAuthUserByEmail(users, Normal[e]) # {}
  <2>1. Served("register", 0, 409) /\ lastCode' = lastCode
    BY <1>3 DEF Register
  <2> QED
    BY <1>1, <1>2, <2>1, ServedStarts DEF StartsPlainly, Statuses
<1>4. CASE GetAuthUserByEmail(users, Normal[e]) = {}
  <2> DEFINE t == [Idle EXCEPT !.pc = "create", !.op = "register",
                               !.email = Normal[e], !.pw = pw, !.code = NewCode]
  <2>1. DrawCode /\ Begin(w, t)
    BY <1>4 DEF Register
  <2>2. Normal[e] \in Addresses
    BY AddressAssumption
  <2>3. /\ t.pc = "create" /\ t.op = "register" /\ t.email = Normal[e] /\ t.code = NewCode
    BY IdleOK
  <2>4. t \in Task
    BY <2>1, <2>2, DrawnCode, IdleOK, Named DEF Task
  <2> HIDE DEF t
  <2>5. Opening(t)
    BY <1>1, <2>1, <2>2, <2>3, <2>4, DrawnCode DEF Opening, TaskOK, Signing, ForUser
  <2> QED
    BY <1>1, <1>2, <2>1, <2>5, DrawnCode, BegunStarts DEF StartsPlainly
<1> QED
  BY <1>3, <1>4

LEMMA Foundable ==
  ASSUME TablesOK, EmailsOK, NEW e, NEW u \in GetUserAuthState(users, e)
  PROVE  /\ u \in Ids /\ u \in Existing(users) /\ users[u] \in User
         /\ GetUserAuthState(users, e) = {u}
<1>1. u \in Ids /\ u \in Existing(users) /\ users[u].email = Normal[e]
  BY DEF GetUserAuthState, Existing
<1>2. \A v \in GetUserAuthState(users, e) : v = u
  BY <1>1 DEF GetUserAuthState, EmailsOK
<1>3. users[u] \in User
  BY <1>1 DEF TablesOK, Existing
<1> QED
  BY <1>1, <1>2, <1>3

LEMMA ChangePasswordStarts ==
  ASSUME Typed, NEW w \in Workers, NEW u \in Ids, NEW old \in Passwords, NEW new \in Passwords,
         ChangePassword(w, u, old, new)
  PROVE  StartsPlainly
<1>1. /\ Arrive("change")
      /\ UNCHANGED <<envVars, tableVars, idVars, sentVars, observerVars>>
  BY DEF ChangePassword
<1>2. /\ UNCHANGED <<envVars, users, rows, profiles, lastUser, lastRow, mailed,
                     proven, vouches, spent, tries>>
      /\ UNCHANGED <<tokens, kept>> /\ lastCode' = lastCode
  BY <1>1 DEF tableVars, idVars, sentVars, observerVars
<1>3. CASE ~(u \in Existing(users) /\ users[u].pw = old)
  <2>1. Served("change", u, 401)
    BY <1>3 DEF ChangePassword
  <2>2. 401 \in Statuses
    BY DEF Statuses
  <2>3. Starts
    BY <1>1, <1>2, <2>1, <2>2, ServedStarts
  <2> QED
    BY <1>2, <2>3 DEF StartsPlainly
<1>4. CASE u \in Existing(users) /\ users[u].pw = old
  <2> DEFINE t == [Idle EXCEPT !.pc = "change", !.op = "change", !.u = u, !.pw = new]
  <2>1. Begin(w, t)
    BY <1>4 DEF ChangePassword
  <2>3. t.pc = "change" /\ t.op = "change" /\ t.u = u
    BY IdleOK
  <2>4. t \in Task
    BY IdleOK, Named DEF Task
  <2> HIDE DEF t
  <2>5. Opening(t)
    BY <2>3, <2>4 DEF Opening, TaskOK, Signing, ForUser, Founding
  <2>6. lastCode' \in 0..MaxCodes
    BY <1>2 DEF Typed, CountsOK
  <2> QED
    BY <1>1, <1>2, <2>1, <2>5, <2>6, BegunStarts DEF StartsPlainly
<1> QED
  BY <1>3, <1>4

LEMMA VerifyEmailStarts ==
  ASSUME Typed, NEW w \in Workers, NEW e \in Addresses, NEW c \in Guesses, VerifyEmail(w, e, c)
  PROVE  StartsPlainly
<1>1. /\ Arrive("verify")
      /\ UNCHANGED <<envVars, tableVars, idVars, sentVars, observerVars>>
  BY DEF VerifyEmail
<1>2. /\ UNCHANGED <<envVars, users, rows, profiles, lastUser, lastRow, mailed,
                     proven, vouches, spent, tries>>
      /\ UNCHANGED <<tokens, kept>> /\ lastCode' = lastCode
  BY <1>1 DEF tableVars, idVars, sentVars, observerVars
<1>3. CASE ~ \E u \in GetUserAuthState(users, e) : AcceptsCode(users[u], c)
  <2>1. Served("verify", 0, 400)
    BY <1>3 DEF VerifyEmail
  <2>2. 400 \in Statuses
    BY DEF Statuses
  <2>3. Starts
    BY <1>1, <1>2, <2>1, <2>2, ServedStarts
  <2> QED
    BY <1>2, <2>3 DEF StartsPlainly
<1>4. CASE \E u \in GetUserAuthState(users, e) : AcceptsCode(users[u], c)
  <2> DEFINE t(u) == [Idle EXCEPT !.pc = "verify", !.op = "verify", !.u = u,
                                  !.row = users[u], !.code = [n |-> c, until |-> 0]]
  <2>1. PICK u \in GetUserAuthState(users, e) : Begin(w, t(u))
    BY <1>4 DEF VerifyEmail
  <2>2. u \in Ids /\ u \in Existing(users) /\ users[u] \in User /\ AcceptsCode(users[u], c)
    BY <1>4, Foundable DEF Typed
  <2>3. c \in Nat
    BY <2>2, UserFields, CodeFields DEF AcceptsCode
  <2>4. [n |-> c, until |-> 0] \in Code
    BY <2>3 DEF Code
  <2>5. t(u).pc = "verify" /\ t(u).op = "verify" /\ t(u).u = u /\ t(u).code.n = c
    BY IdleOK
  <2>6. t(u) \in Task
    BY <2>2, <2>4, IdleOK, Named DEF Task
  <2> HIDE DEF t
  <2>7. Opening(t(u))
    BY <2>2, <2>5, <2>6 DEF Opening, TaskOK, Signing, ForUser, Founding
  <2>8. lastCode' \in 0..MaxCodes
    BY <1>2 DEF Typed, CountsOK
  <2> QED
    BY <1>1, <1>2, <2>1, <2>7, <2>8, BegunStarts DEF StartsPlainly
<1> QED
  BY <1>3, <1>4

LEMMA ResendVerificationStarts ==
  ASSUME Typed, NEW w \in Workers, NEW e \in Addresses, ResendVerification(w, e)
  PROVE  StartsPlainly
<1> DEFINE Wanted == \E u \in GetUserAuthState(users, e) : ~users[u].verified
<1>1. /\ Arrive("resend")
      /\ UNCHANGED <<envVars, tableVars, sentVars, observerVars, lastUser, lastRow>>
  BY DEF ResendVerification
<1>2. /\ UNCHANGED <<envVars, users, rows, profiles, lastUser, lastRow, mailed,
                     proven, vouches, spent, tries>>
      /\ UNCHANGED <<tokens, kept>>
  BY <1>1 DEF tableVars, sentVars, observerVars
<1>3. CASE ~Wanted
  <2>1. Served("resend", 0, 200) /\ lastCode' = lastCode
    BY <1>3 DEF ResendVerification
  <2>2. 200 \in Statuses
    BY DEF Statuses
  <2>3. Starts
    BY <1>1, <1>2, <2>1, <2>2, ServedStarts
  <2> QED
    BY <1>2, <2>3 DEF StartsPlainly
<1>4. CASE Wanted
  <2> DEFINE t(u) == [Idle EXCEPT !.pc = "resend", !.op = "resend", !.u = u, !.code = NewCode]
  <2>1. DrawCode /\ \E u \in GetUserAuthState(users, e) : Begin(w, t(u))
    BY <1>4 DEF ResendVerification
  <2>2. PICK u \in GetUserAuthState(users, e) : Begin(w, t(u))
    BY <2>1
  <2>3. u \in Ids
    BY Foundable DEF Typed
  <2>4. t(u).pc = "resend" /\ t(u).op = "resend" /\ t(u).u = u /\ t(u).code = NewCode
    BY IdleOK
  <2>5. t(u) \in Task
    BY <2>1, <2>3, DrawnCode, IdleOK, Named DEF Task
  <2> HIDE DEF t
  <2>6. Opening(t(u))
    BY <2>1, <2>3, <2>4, <2>5, DrawnCode DEF Opening, TaskOK, Signing, ForUser, Founding
  <2> QED
    BY <1>1, <1>2, <2>1, <2>2, <2>6, DrawnCode, BegunStarts DEF StartsPlainly
<1> QED
  BY <1>3, <1>4

LEMMA ForgotPasswordStarts ==
  ASSUME Typed, NEW w \in Workers, NEW e \in Addresses, ForgotPassword(w, e)
  PROVE  StartsPlainly
<1> DEFINE Wanted == \E u \in GetUserAuthState(users, e) : 
                        users[u].provider = "local" /\ users[u].pw # None
<1>1. /\ Arrive("forgot")
      /\ UNCHANGED <<envVars, tableVars, sentVars, observerVars, lastUser, lastRow>>
  BY DEF ForgotPassword
<1>2. /\ UNCHANGED <<envVars, users, rows, profiles, lastUser, lastRow, mailed,
                     proven, vouches, spent, tries>>
      /\ UNCHANGED <<tokens, kept>>
  BY <1>1 DEF tableVars, sentVars, observerVars
<1>3. CASE ~Wanted
  <2>1. Served("forgot", 0, 200) /\ lastCode' = lastCode
    BY <1>3 DEF ForgotPassword
  <2>2. 200 \in Statuses
    BY DEF Statuses
  <2>3. Starts
    BY <1>1, <1>2, <2>1, <2>2, ServedStarts
  <2> QED
    BY <1>2, <2>3 DEF StartsPlainly
<1>4. CASE Wanted
  <2> DEFINE t(u) == [Idle EXCEPT !.pc = "forgot", !.op = "forgot", !.u = u, !.code = NewCode]
  <2>1. DrawCode /\ \E u \in GetUserAuthState(users, e) : Begin(w, t(u))
    BY <1>4 DEF ForgotPassword
  <2>2. PICK u \in GetUserAuthState(users, e) : Begin(w, t(u))
    BY <2>1
  <2>3. u \in Ids
    BY Foundable DEF Typed
  <2>4. t(u).pc = "forgot" /\ t(u).op = "forgot" /\ t(u).u = u /\ t(u).code = NewCode
    BY IdleOK
  <2>5. t(u) \in Task
    BY <2>1, <2>3, DrawnCode, IdleOK, Named DEF Task
  <2> HIDE DEF t
  <2>6. Opening(t(u))
    BY <2>1, <2>3, <2>4, <2>5, DrawnCode DEF Opening, TaskOK, Signing, ForUser, Founding
  <2> QED
    BY <1>1, <1>2, <2>1, <2>2, <2>6, DrawnCode, BegunStarts DEF StartsPlainly
<1> QED
  BY <1>3, <1>4

LEMMA ResetPasswordStarts ==
  ASSUME Typed, NEW w \in Workers, NEW e \in Addresses, NEW c \in Guesses, NEW pw \in Passwords,
         ResetPassword(w, e, c, pw)
  PROVE  StartsPlainly
<1>1. /\ Arrive("reset")
      /\ UNCHANGED <<envVars, tableVars, idVars, sentVars, observerVars>>
  BY DEF ResetPassword
<1>2. /\ UNCHANGED <<envVars, users, rows, profiles, lastUser, lastRow, mailed,
                     proven, vouches, spent, tries>>
      /\ UNCHANGED <<tokens, kept>> /\ lastCode' = lastCode
  BY <1>1 DEF tableVars, idVars, sentVars, observerVars
<1>3. CASE ~ \E u \in GetUserAuthState(users, e) : ResetVerdict(users[u], c) # "refuse"
  <2>1. Served("reset", 0, 400)
    BY <1>3 DEF ResetPassword
  <2>2. 400 \in Statuses
    BY DEF Statuses
  <2>3. Starts
    BY <1>1, <1>2, <2>1, <2>2, ServedStarts
  <2> QED
    BY <1>2, <2>3 DEF StartsPlainly
<1>4. CASE \E u \in GetUserAuthState(users, e) : ResetVerdict(users[u], c) # "refuse"
  <2> DEFINE t(u) == [Idle EXCEPT !.pc = ResetVerdict(users[u], c), !.op = "reset", !.u = u,
                                  !.row = users[u], !.pw = pw]
  <2>1. PICK u \in GetUserAuthState(users, e) : Begin(w, t(u))
    BY <1>4 DEF ResetPassword
  <2>2. /\ u \in Ids /\ u \in Existing(users) /\ users[u] \in User
        /\ ResetVerdict(users[u], c) # "refuse"
    BY <1>4, Foundable DEF Typed
  <2>3. /\ ResetVerdict(users[u], c) \in {"bump", "burn", "reset"}
        /\ users[u].rcode.n # 0
        /\ ResetVerdict(users[u], c) = "bump" => ~(users[u].attempts + 1 >= maxResetAttempts)
    BY <2>2 DEF ResetVerdict
  <2>4. /\ t(u).pc = ResetVerdict(users[u], c) /\ t(u).op = "reset" /\ t(u).u = u
        /\ t(u).row = users[u]
    BY IdleOK
  <2>5. t(u) \in Task
    BY <2>2, <2>3, IdleOK, Named DEF Task
  <2> HIDE DEF t
  <2>6. users[u].attempts \in Nat
    BY <2>2, UserFields
  <2>7. t(u).pc \in {"bump", "burn", "reset"}
    BY <2>3, <2>4
  <2>8. TaskOK(t(u))
    BY <2>2, <2>4, <2>5, <2>7 DEF TaskOK, Signing, ForUser
  <2>9. Opening(t(u))
    BY <2>2, <2>3, <2>4, <2>6, <2>7, <2>8, Constants DEF Opening, Founding
  <2>10. lastCode' \in 0..MaxCodes
    BY <1>2 DEF Typed, CountsOK
  <2> QED
    BY <1>1, <1>2, <2>1, <2>9, <2>10, BegunStarts DEF StartsPlainly
<1> QED
  BY <1>3, <1>4

LEMMA SocialLoginStarts ==
  ASSUME Typed, NEW w \in Workers, NEW who \in Identities, SocialLogin(w, who)
  PROVE  StartsPlainly
<1> DEFINE found == FindBySocialId(users, who.kind, who.id)
<1>1. /\ Arrive("social") /\ Space
      /\ UNCHANGED <<envVars, tableVars, idVars, observerVars, mailed>>
  BY DEF SocialLogin
<1>2. /\ UNCHANGED <<envVars, users, rows, profiles, lastUser, lastRow, mailed,
                     proven, vouches, spent, tries>>
      /\ UNCHANGED <<tokens, kept>> /\ lastCode' = lastCode
  BY <1>1 DEF tableVars, idVars, observerVars
<1>3. CASE found # {}
  <2>1. PICK u \in found : Served("social", u, IF users[u].active THEN 201 ELSE 401)
    BY <1>3 DEF SocialLogin
  <2>2. (IF users[u].active THEN 201 ELSE 401) \in Statuses
    BY DEF Statuses
  <2>3. Starts
    BY <1>1, <1>2, <2>1, <2>2, ServedStarts
  <2> QED
    BY <1>2, <2>3 DEF StartsPlainly
<1>4. CASE found = {}
  <2> DEFINE t == [Idle EXCEPT !.pc = "byEmail", !.op = "social", !.who = who]
  <2>1. Begin(w, t)
    BY <1>4 DEF SocialLogin
  <2>2. t.pc = "byEmail" /\ t.op = "social" /\ t.who = who
    BY IdleOK
  <2>3. t \in Task
    BY IdleOK, Named DEF Task
  <2> HIDE DEF t
  <2>4. Opening(t)
    BY <1>1, <1>4, <2>2, <2>3 DEF Opening, TaskOK, Signing, ForUser
  <2>5. lastCode' \in 0..MaxCodes
    BY <1>2 DEF Typed, CountsOK
  <2> QED
    BY <1>1, <1>2, <2>1, <2>4, <2>5, BegunStarts DEF StartsPlainly
<1> QED
  BY <1>3, <1>4

LEMMA DeleteAccountStarts ==
  ASSUME Typed, NEW w \in Workers, NEW u \in Ids, DeleteAccount(w, u)
  PROVE  StartsPlainly
<1> DEFINE t == [Idle EXCEPT !.pc = "sweep", !.op = "delete", !.u = u, !.stage = 1]
<1>1. /\ Arrive("delete") /\ Begin(w, t)
      /\ UNCHANGED <<envVars, tableVars, idVars, sentVars, observerVars>>
  BY DEF DeleteAccount
<1>2. /\ UNCHANGED <<envVars, users, rows, profiles, lastUser, lastRow, mailed,
                     proven, vouches, spent, tries>>
      /\ UNCHANGED <<tokens, kept>> /\ lastCode' = lastCode
  BY <1>1 DEF tableVars, idVars, sentVars, observerVars
<1>3. t.pc = "sweep" /\ t.op = "delete" /\ t.u = u /\ t.stage = 1
  BY IdleOK
<1>4. t \in Task
  <2>1. 1 \in 0..8 /\ u \in Ids \cup {0}
    OBVIOUS
  <2> QED
    BY <2>1, IdleOK, Named DEF Task
<1> HIDE DEF t
<1>5. Opening(t)
  BY <1>3, <1>4 DEF Opening, TaskOK, Signing, ForUser, Founding
<1>6. lastCode' \in 0..MaxCodes
  BY <1>2 DEF Typed, CountsOK
<1> QED
  BY <1>1, <1>2, <1>5, <1>6, BegunStarts DEF StartsPlainly

LEMMA MintStarts ==
  ASSUME Typed, NEW w \in Workers, NEW u \in Ids, NEW d \in Devices, Mint(w, u, d)
  PROVE  Starts
<1> DEFINE t == [Idle EXCEPT !.pc = "insert", !.op = "mint", !.u = u, !.device = d]
<1>1. /\ Arrive("mint") /\ Begin(w, t)
      /\ UNCHANGED <<envVars, idVars, sentVars, users, rows, profiles,
                     proven, vouches, spent, tries>>
  BY DEF Mint
<1>2. /\ UNCHANGED <<envVars, users, rows, profiles, lastUser, lastRow, mailed,
                     proven, vouches, spent, tries>>
      /\ lastCode' = lastCode
  BY <1>1 DEF idVars, sentVars
<1>3. t.pc = "insert" /\ t.op = "mint" /\ t.u = u /\ t.device = d
  BY IdleOK
<1>4. t \in Task
  BY IdleOK, Named DEF Task
<1> HIDE DEF t
<1>5. Opening(t)
  BY <1>3, <1>4 DEF Opening, TaskOK, Signing, ForUser, Founding
<1>6. lastCode' \in 0..MaxCodes
  BY <1>2 DEF Typed, CountsOK
<1> QED
  BY <1>1, <1>2, <1>5, <1>6, BegunStarts

LEMMA ProfileTyped ==
  ASSUME Typed, NEW u \in Ids, NEW f \in {"job", "notes"}, NEW text \in Texts
  PROVE  [job |-> Merged(u, f, text).job, notes |-> Encrypt(Merged(u, f, text).notes, secret)]
           \in Profile
<1> DEFINE v == View(u)
           m == [v EXCEPT ![f] = text]
<1>1. secret \in Keys /\ profiles[u] \in Profile \cup {NoRow}
  BY DEF Typed, CountsOK, TablesOK
<1>2. \A s \in Sealed(Texts) : Decrypt(s, secret) \in Texts
  BY TextAssumption DEF Sealed, Decrypt
<1>3. v \in [job : Texts, notes : Texts]
  BY <1>1, <1>2, TextAssumption DEF View, Profile
<1> HIDE DEF v
<1>4. m.job \in Texts /\ m.notes \in Texts
  BY <1>3
<1>5. \A x \in Texts : Encrypt(x, secret) \in Sealed(Texts)
  BY <1>1, TextAssumption DEF Encrypt, Plain, Sealed
<1>6. Merged(u, f, text) = m
  BY DEF Merged, v
<1> HIDE DEF m
<1> QED
  BY <1>4, <1>5, <1>6 DEF Profile

LEMMA PutProfileStarts ==
  ASSUME Typed, NEW w \in Workers, NEW u \in Ids, NEW f \in {"job", "notes"}, NEW text \in Texts,
         PutProfile(w, u, f, text)
  PROVE  StartsPlainly
<1> DEFINE new == [job |-> Merged(u, f, text).job,
                   notes |-> Encrypt(Merged(u, f, text).notes, secret)]
           t == [Idle EXCEPT !.pc = "upsert", !.op = f, !.u = u, !.profile = new]
<1>1. /\ Arrive("put") /\ Begin(w, t)
      /\ UNCHANGED <<envVars, tableVars, idVars, sentVars, observerVars>>
  BY DEF PutProfile
<1>2. /\ UNCHANGED <<envVars, users, rows, profiles, lastUser, lastRow, mailed,
                     proven, vouches, spent, tries>>
      /\ UNCHANGED <<tokens, kept>> /\ lastCode' = lastCode
  BY <1>1 DEF tableVars, idVars, sentVars, observerVars
<1>3. new \in Profile
  BY ProfileTyped
<1> HIDE DEF new
<1>4. t.pc = "upsert" /\ t.op = f /\ t.u = u /\ t.profile = new
  BY IdleOK
<1>5. t \in Task
  BY <1>3, IdleOK, Named DEF Task
<1> HIDE DEF t
<1>6. Opening(t)
  BY <1>3, <1>4, <1>5 DEF Opening, TaskOK, Signing, ForUser, Founding
<1>7. lastCode' \in 0..MaxCodes
  BY <1>2 DEF Typed, CountsOK
<1> QED
  BY <1>1, <1>2, <1>6, <1>7, BegunStarts DEF StartsPlainly

LEMMA LoginStarts ==
  ASSUME Typed, NEW e \in Addresses, NEW pw \in Passwords, Login(e, pw)
  PROVE  StartsPlainly
<1>1. /\ Arrive("login")
      /\ UNCHANGED <<envVars, users, rows, profiles, lastUser, lastRow, mailed,
                     proven, vouches, spent, tries>>
      /\ UNCHANGED <<tokens, kept>> /\ lastCode' = lastCode
  BY DEF Login, tableVars, idVars, observerVars
<1>2. LoginStatus(e, pw) \in Statuses
  BY DEF LoginStatus, Statuses
<1>3. PICK u : Served("login", u, LoginStatus(e, pw))
  BY DEF Login
<1>4. Starts
  BY <1>1, <1>2, <1>3, ServedStarts
<1> QED
  BY <1>1, <1>4 DEF StartsPlainly

LEMMA RefreshStarts ==
  ASSUME Typed, NEW u \in Ids, Refresh(u)
  PROVE  StartsPlainly
<1>1. /\ Arrive("refresh") /\ Served("refresh", u, IF Live(u) THEN 200 ELSE 401)
      /\ UNCHANGED <<envVars, users, rows, profiles, lastUser, lastRow, mailed,
                     proven, vouches, spent, tries>>
      /\ UNCHANGED <<tokens, kept>> /\ lastCode' = lastCode
  BY DEF Refresh, tableVars, idVars, sentVars, observerVars
<1>2. (IF Live(u) THEN 200 ELSE 401) \in Statuses
  BY DEF Statuses
<1>3. Starts
  BY <1>1, <1>2, ServedStarts
<1> QED
  BY <1>1, <1>3 DEF StartsPlainly

-----------------------------------------------------------------------------
(***************************************************************************)
(* The steps after the first.                                              *)
(***************************************************************************)

\* Requests stay where they are, end, or sweep on.
Settles ==
  /\ work' \in [Workers -> Task]
  /\ \A v \in Workers : \/ work'[v] = work[v]
                        \/ work'[v] = Idle
                        \/ Sweep(v) /\ work'[v].pc = "sweep" /\ TaskOK(work'[v])

\* Accounts keep their address, their provider and their identities.
SameAccounts ==
  /\ users' \in [Ids -> User \cup {NoRow}]
  /\ \A u \in Existing(users') :
       /\ u \in Existing(users)
       /\ users'[u].email = users[u].email /\ users'[u].provider = users[u].provider
       /\ users'[u].social = users[u].social

SameCodes ==
  /\ \A u \in Existing(users') :
       /\ users'[u].verified = users[u].verified /\ users'[u].vcode = users[u].vcode
       /\ users'[u].rcode = users[u].rcode /\ users'[u].attempts = users[u].attempts
  /\ UNCHANGED <<mailed, spent, tries, proven>>

TokensMove ==
  \/ \E w \in Workers, u \in Ids, d \in Devices : Mint(w, u, d)
  \/ \E w \in Workers : MintInsert(w) \/ DeleteUser(w)
  \/ \E u \in Ids, x \in tokens : RevokeToken(u, x.n)

\* No account is made or linked, and only a deletion takes rows away.
Settling ==
  /\ Settles /\ SameAccounts
  /\ rows \subseteq rows' \/ \E w \in Workers : DeleteUser(w)
  /\ alone' /\ Busy # {} => rows' \subseteq rows
  /\ UNCHANGED <<tokens, kept>> \/ TokensMove
  /\ UNCHANGED <<lastUser, lastCode, vouches>>
  /\ alone' => alone
  /\ aborts' = 0 => aborts = 0 /\ \A v \in Workers : work[v].pc = "free" => work'[v] = work[v]

Retires(w) == work' = [work EXCEPT ![w] = Idle]

Answered == answer'.status \in Statuses \cup {0} /\ answer'.op # "delete"

LEMMA RetiredSettles ==
  ASSUME Typed, NEW w \in Workers, Retires(w)
  PROVE  /\ Settles
         /\ work[w].pc # "free" => \A v \in Workers : work[v].pc = "free" => work'[v] = work[v]
  BY IdleOK DEF Typed, WorkOK, Settles, Retires

LEMMA StillSettles ==
  ASSUME Typed, work' = work
  PROVE  Settles /\ \A v \in Workers : work[v].pc = "free" => work'[v] = work[v]
  BY DEF Typed, WorkOK, Settles

LEMMA Counted ==
  /\ \A S \in SUBSET Workers : IsFiniteSet(S) /\ Cardinality(S) \in Nat
  /\ \A S, T \in SUBSET Workers : S \subseteq T => Cardinality(S) <= Cardinality(T)
  BY WorkerAssumption, FS_Subset, FS_CardinalityType

LEMMA RoomStays ==
  ASSUME Typed, Founders' \subseteq Founders, lastUser' = lastUser
  PROVE  RoomOK'
<1>1. Founders \in SUBSET Workers
  BY DEF Founders
<1>2. Cardinality(Founders') <= Cardinality(Founders) /\ Cardinality(Founders) \in Nat
      /\ Cardinality(Founders') \in Nat
  BY <1>1, Counted
<1> QED
  BY <1>2, Constants DEF Typed, RoomOK, CountsOK

LEMMA RoomTaken ==
  ASSUME Typed, Space, NEW w \in Workers, Founders' \subseteq Founders \cup {w}, lastUser' = lastUser
  PROVE  RoomOK'
<1>1. Founders \in SUBSET Workers /\ Founders' \in SUBSET Workers
  BY DEF Founders
<1>2. /\ Cardinality(Founders \cup {w}) <= Cardinality(Founders) + 1
      /\ Cardinality(Founders) \in Nat /\ Cardinality(Founders') \in Nat
      /\ Cardinality(Founders \cup {w}) \in Nat
      /\ Cardinality(Founders') <= Cardinality(Founders \cup {w})
  <2>1. IsFiniteSet(Founders) /\ Founders \cup {w} \in SUBSET Workers
    BY <1>1, Counted
  <2>2. \/ Cardinality(Founders \cup {w}) = Cardinality(Founders) + 1
        \/ Cardinality(Founders \cup {w}) = Cardinality(Founders)
    BY <2>1, FS_AddElement
  <2> QED
    BY <1>1, <2>1, <2>2, Counted
<1>3. lastUser + Cardinality(Founders) < MaxUsers
  BY DEF Space, Founders, Founding
<1> QED
  BY <1>2, <1>3, Constants DEF Typed, RoomOK, CountsOK

LEMMA RoomUsed ==
  ASSUME Typed, NEW w \in Founders, Founders' = Founders \ {w}, lastUser' = lastUser + 1
  PROVE  RoomOK' /\ lastUser + 1 <= MaxUsers
<1>1. Founders \in SUBSET Workers
  BY DEF Founders
<1>2. Cardinality(Founders') = Cardinality(Founders) - 1 /\ Cardinality(Founders) \in Nat
      /\ Cardinality(Founders') \in Nat
  BY <1>1, Counted, FS_RemoveElement
<1> QED
  BY <1>2, Constants DEF Typed, RoomOK, CountsOK

LEMMA SettledTyped ==
  ASSUME Typed, Settles, lastUser' = lastUser
  PROVE  WorkOK' /\ RoomOK'
<1>1. WorkOK'
  BY IdleOK DEF Typed, WorkOK, Settles
<1>2. Founders' \subseteq Founders
  BY IdleOK DEF Settles, Founders, Founding
<1> QED
  BY <1>1, <1>2, RoomStays

LEMMA SameEmails ==
  ASSUME Typed, SameAccounts
  PROVE  EmailsOK'
  BY DEF Typed, EmailsOK, SameAccounts

LEMMA Rewritten ==
  ASSUME Typed, NEW u \in Ids, NEW r,
         u \in Existing(users) =>
           /\ r \in User /\ r.email = users[u].email /\ r.provider = users[u].provider
           /\ r.social = users[u].social,
         Write(u, r)
  PROVE  SameAccounts
<1>1. users \in [Ids -> User \cup {NoRow}]
  BY DEF Typed, TablesOK
<1> QED
  BY <1>1 DEF SameAccounts, Existing, Write

LEMMA SameUsers ==
  ASSUME Typed, users' = users
  PROVE  SameAccounts
  BY DEF Typed, TablesOK, SameAccounts

\* What a request that is at one of its points may count on.
LEMMA Known ==
  ASSUME Typed, NEW w \in Workers
  PROVE  /\ TaskOK(work[w]) /\ work[w] \in Task /\ work[w].op \in Ops
         /\ work[w].pc \in ForUser => work[w].u \in Ids
         /\ work[w].code \in Code
         /\ work[w].pw \in Passwords \cup {None}
         /\ work[w].pc # "sweep" => work[w].op # "delete"
         /\ work[w].pc # "idle" => work[w] # Idle
  BY TaskIs, IdleOK DEF Typed, WorkOK, TaskOK

LEMMA Finished ==
  ASSUME Typed, NEW w \in Workers, NEW s \in Statuses, Finish(w, s)
  PROVE  /\ Retires(w) /\ answer'.status \in Statuses \cup {0}
         /\ work[w].pc # "sweep" => Answered
<1>1. Retires(w) /\ answer'.status = s /\ answer'.op = work[w].op
  BY DEF Finish, Retires
<1> QED
  BY <1>1, Known DEF Answered

LEMMA StatusesAre == {200, 201, 204, 400, 401, 409, 500} \subseteq Statuses
  BY DEF Statuses

\* What a step on the rows of users and on the requests leaves alone.
Beside == UNCHANGED <<ops, secret, now, aborts, rows, tokens, profiles,
                      lastUser, lastCode, lastRow, vouches, kept>>

LEMMA RowStep ==
  ASSUME Typed, Settles, SameAccounts, Beside,
         \A v \in Workers : work[v].pc = "free" => work'[v] = work[v],
         alone' \in BOOLEAN, alone' => alone, requests' \in Nat,
         answer'.status \in Statuses \cup {0},
         spent' \in [0..MaxCodes -> Nat], tries' \in [0..MaxCodes -> Nat]
  PROVE  Typed' /\ Settling
<1>1. /\ ops' = ops /\ secret' = secret /\ now' = now /\ aborts' = aborts /\ rows' = rows
      /\ tokens' = tokens /\ profiles' = profiles /\ lastUser' = lastUser
      /\ lastCode' = lastCode /\ lastRow' = lastRow /\ vouches' = vouches
      /\ kept' = kept
  BY DEF Beside
<1>2. TablesOK'
  BY <1>1 DEF Typed, TablesOK, SameAccounts
<1>3. CountsOK' /\ ObservedOK'
  BY <1>1 DEF Typed, CountsOK, ObservedOK
<1>4. EmailsOK' /\ WorkOK' /\ RoomOK'
  BY <1>1, SameEmails, SettledTyped
<1>5. Settling
  BY <1>1 DEF Settling
<1> QED
  BY <1>2, <1>3, <1>4, <1>5 DEF Typed

LEMMA ChangeWriteDoes ==
  ASSUME Typed, NEW w \in Workers, ChangeWrite(w)
  PROVE  Typed' /\ Settling /\ SameCodes /\ Answered
<1> DEFINE u == work[w].u
           r == [users[u] EXCEPT !.pw = work[w].pw]
<1>1. /\ work[w].pc = "change" /\ Write(u, r) /\ Finish(w, 201)
      /\ requests' = requests /\ alone' = alone /\ Beside
      /\ mailed' = mailed /\ spent' = spent /\ tries' = tries /\ proven' = proven
  BY DEF ChangeWrite, At, UpdateUserPasswordHash, envVars, idVars, sentVars, observerVars, Beside
<1>2. u \in Ids /\ Retires(w) /\ Answered
  BY <1>1, Known, Finished, StatusesAre DEF ForUser
<1>3. u \in Existing(users) =>
        /\ r \in User /\ r.email = users[u].email /\ r.provider = users[u].provider
        /\ r.social = users[u].social /\ r.verified = users[u].verified
        /\ r.vcode = users[u].vcode /\ r.rcode = users[u].rcode /\ r.attempts = users[u].attempts
  BY Known DEF Typed, TablesOK, Existing, User
<1> HIDE DEF r
<1>4. SameAccounts
  BY <1>1, <1>2, <1>3, Rewritten
<1>5. Settles /\ \A v \in Workers : work[v].pc = "free" => work'[v] = work[v]
  BY <1>1, <1>2, RetiredSettles
<1>6. SameCodes
  BY <1>1, <1>3 DEF SameCodes, Write, Existing, Typed, TablesOK
<1>7. Typed' /\ Settling
  BY <1>1, <1>2, <1>4, <1>5, RowStep DEF Answered, Typed, CountsOK, ObservedOK
<1> QED
  BY <1>2, <1>6, <1>7

LEMMA AdminUpdateDoes ==
  ASSUME Typed, NEW u \in Existing(users), NEW on \in BOOLEAN, AdminUpdate(u, on)
  PROVE  Typed' /\ Settling /\ SameCodes /\ Answered
<1> DEFINE r == [users[u] EXCEPT !.active = on]
<1>1. /\ Write(u, r) /\ requests' = requests + 1 /\ alone' = (alone /\ Busy = {}) /\ Beside
      /\ mailed' = mailed /\ spent' = spent /\ tries' = tries /\ proven' = proven
      /\ work' = work
      /\ answer' = [op |-> "admin", u |-> u, status |-> IF u \in Existing(users) THEN 200 ELSE 500]
  BY DEF AdminUpdate, Arrive, Served, envVars, idVars, sentVars, observerVars, Beside
<1>2. u \in Ids /\ users[u] \in User
  BY DEF Existing, Typed, TablesOK
<1>3. /\ r \in User /\ r.email = users[u].email /\ r.provider = users[u].provider
      /\ r.social = users[u].social /\ r.verified = users[u].verified
      /\ r.vcode = users[u].vcode /\ r.rcode = users[u].rcode /\ r.attempts = users[u].attempts
  BY <1>2 DEF User
<1> HIDE DEF r
<1>4. SameAccounts
  BY <1>1, <1>2, <1>3, Rewritten
<1>5. Settles /\ \A v \in Workers : work[v].pc = "free" => work'[v] = work[v]
  BY <1>1, StillSettles
<1>6. SameCodes
  BY <1>1, <1>3 DEF SameCodes, Write, Existing, Typed, TablesOK
<1>7. Answered
  BY <1>1, StatusesAre DEF Answered
<1>8. Typed' /\ Settling
  BY <1>1, <1>4, <1>5, <1>7, RowStep DEF Answered, Typed, CountsOK, ObservedOK
<1> QED
  BY <1>6, <1>7, <1>8

\* Nothing happens to the tables; a request may end.
LEMMA Idling ==
  ASSUME Typed, Settles, users' = users, Beside, Answered,
         UNCHANGED <<mailed, spent, tries, proven>>,
         \A v \in Workers : work[v].pc = "free" => work'[v] = work[v],
         alone' \in BOOLEAN, alone' => alone, requests' \in Nat
  PROVE  Typed' /\ Settling /\ SameCodes
<1>1. mailed' = mailed /\ spent' = spent /\ tries' = tries /\ proven' = proven
  OBVIOUS
<1>2. SameAccounts
  BY SameUsers
<1>3. SameCodes
  BY <1>1 DEF SameCodes
<1>4. Typed' /\ Settling
  BY <1>1, <1>2, RowStep DEF Answered, Typed, ObservedOK
<1> QED
  BY <1>3, <1>4

LEMMA VerifyWriteDoes ==
  ASSUME Typed, NEW w \in Workers, VerifyWrite(w)
  PROVE  Typed' /\ Settling /\ Answered
<1> DEFINE u == work[w].u
           r == [users[u] EXCEPT !.verified = TRUE, !.vcode = NoCode]
<1>a. Update(users[u], [verified |-> TRUE, vcode |-> NoCode]) = r
  BY DEF Update, UpdateUserVerification
<1>1. /\ work[w].pc = "verify" /\ Write(u, r) /\ Finish(w, 200)
      /\ requests' = requests /\ alone' = alone /\ Beside
      /\ spent' = spent /\ tries' = tries
  BY <1>a DEF VerifyWrite, At, envVars, idVars, sentVars, Beside
<1>2. u \in Ids /\ Retires(w) /\ Answered
  BY <1>1, Known, Finished, StatusesAre DEF ForUser
<1>3. u \in Existing(users) =>
        /\ r \in User /\ r.email = users[u].email /\ r.provider = users[u].provider
        /\ r.social = users[u].social
  BY NoCodeIsCode, ZenonT(60) DEF Typed, TablesOK, Existing, User
<1> HIDE DEF r
<1>4. SameAccounts
  BY <1>1, <1>2, <1>3, Rewritten
<1>5. Settles /\ \A v \in Workers : work[v].pc = "free" => work'[v] = work[v]
  BY <1>1, <1>2, RetiredSettles
<1> QED
  BY <1>1, <1>2, <1>4, <1>5, RowStep DEF Answered, Typed, CountsOK, ObservedOK

LEMMA ResendWriteDoes ==
  ASSUME Typed, NEW w \in Workers, ResendWrite(w)
  PROVE  Typed' /\ Settling /\ Answered
<1> DEFINE u == work[w].u
           r == [users[u] EXCEPT !.vcode = work[w].code]
<1>a. Update(users[u], [vcode |-> work[w].code]) = r
  BY PatchVcode
<1>1. /\ work[w].pc = "resend" /\ Write(u, r) /\ Finish(w, 200)
      /\ requests' = requests /\ alone' = alone /\ Beside
      /\ spent' = spent /\ tries' = tries
  BY <1>a DEF ResendWrite, At, envVars, idVars, observerVars, Beside
<1>2. u \in Ids /\ Retires(w) /\ Answered
  BY <1>1, Known, Finished, StatusesAre DEF ForUser
<1>3. u \in Existing(users) =>
        /\ r \in User /\ r.email = users[u].email /\ r.provider = users[u].provider
        /\ r.social = users[u].social
  BY Known DEF Typed, TablesOK, Existing, User
<1> HIDE DEF r
<1>4. SameAccounts
  BY <1>1, <1>2, <1>3, Rewritten
<1>5. Settles /\ \A v \in Workers : work[v].pc = "free" => work'[v] = work[v]
  BY <1>1, <1>2, RetiredSettles
<1> QED
  BY <1>1, <1>2, <1>4, <1>5, RowStep DEF Answered, Typed, CountsOK, ObservedOK

LEMMA ForgotWriteDoes ==
  ASSUME Typed, NEW w \in Workers, ForgotWrite(w)
  PROVE  Typed' /\ Settling /\ Answered
<1> DEFINE u == work[w].u
           r == [users[u] EXCEPT !.rcode = work[w].code, !.attempts = 0]
<1>a. Update(users[u], [rcode |-> work[w].code, attempts |-> 0]) = r
  BY DEF Update, SetPasswordResetCode
<1>1. /\ work[w].pc = "forgot" /\ Write(u, r) /\ Finish(w, 200)
      /\ requests' = requests /\ alone' = alone /\ Beside
      /\ spent' = spent /\ tries' = tries
  BY <1>a DEF ForgotWrite, At, envVars, idVars, observerVars, Beside
<1>2. u \in Ids /\ Retires(w) /\ Answered
  BY <1>1, Known, Finished, StatusesAre DEF ForUser
<1>3. u \in Existing(users) =>
        /\ r \in User /\ r.email = users[u].email /\ r.provider = users[u].provider
        /\ r.social = users[u].social
  BY Known, ZenonT(60) DEF Typed, TablesOK, Existing, User
<1> HIDE DEF r
<1>4. SameAccounts
  BY <1>1, <1>2, <1>3, Rewritten
<1>5. Settles /\ \A v \in Workers : work[v].pc = "free" => work'[v] = work[v]
  BY <1>1, <1>2, RetiredSettles
<1> QED
  BY <1>1, <1>2, <1>4, <1>5, RowStep DEF Answered, Typed, CountsOK, ObservedOK

\* The row a reset writes: the code is cleared, or counts one failure more.
AfterReset(w) ==
  LET r == users[work[w].u]
  IN  IF work[w].pc = "reset" THEN [r EXCEPT !.pw = work[w].pw, !.rcode = NoCode, !.attempts = 0]
      ELSE IF work[w].pc = "burn" THEN [r EXCEPT !.rcode = NoCode, !.attempts = 0]
      ELSE [r EXCEPT !.attempts = work[w].row.attempts + 1]

LEMMA ResetWriteDoes ==
  ASSUME Typed, NEW w \in Workers, ResetWrite(w)
  PROVE  /\ Typed' /\ Settling /\ Answered
         /\ work[w].pc \in {"bump", "burn", "reset"} /\ Retires(w)
         /\ Write(work[w].u, AfterReset(w))
<1> DEFINE u == work[w].u
           r == AfterReset(w)
           code == work[w].row.rcode.n
<1>1. /\ work[w].pc \in {"bump", "burn", "reset"} /\ Write(u, Update(users[u], ResetPatch(w)))
      /\ Finish(w, IF work[w].pc = "reset" THEN 200 ELSE 400)
      /\ requests' = requests /\ alone' = alone /\ Beside
      /\ spent' = IF work[w].pc = "reset" THEN [spent EXCEPT ![code] = @ + 1] ELSE spent
      /\ tries' = IF work[w].pc = "reset" THEN tries ELSE [tries EXCEPT ![code] = @ + 1]
  BY DEF ResetWrite, At, envVars, idVars, sentVars, Beside
<1>2. Update(users[u], ResetPatch(w)) = r
  <2>1. CASE work[w].pc = "reset"
    BY <2>1, PatchPassword DEF ResetPatch, AfterReset
  <2>2. CASE work[w].pc = "burn"
    BY <2>2 DEF ResetPatch, AfterReset, Update, SetPasswordResetCode
  <2>3. CASE work[w].pc = "bump"
    BY <2>3, PatchAttempts DEF ResetPatch, AfterReset
  <2> QED
    BY <1>1, <2>1, <2>2, <2>3
<1>3. (IF work[w].pc = "reset" THEN 200 ELSE 400) \in Statuses
  BY StatusesAre
<1>4. u \in Ids /\ Retires(w) /\ Answered
  BY <1>1, <1>3, Known, Finished DEF ForUser
<1>5. work[w].row.attempts + 1 \in Nat
  BY <1>1, Known, UserFields DEF TaskOK
<1>6. u \in Existing(users) =>
        /\ r \in User /\ r.email = users[u].email /\ r.provider = users[u].provider
        /\ r.social = users[u].social
  <2>1. SUFFICES ASSUME u \in Existing(users)
                 PROVE  /\ r \in User /\ r.email = users[u].email
                        /\ r.provider = users[u].provider /\ r.social = users[u].social
    OBVIOUS
  <2>2. users[u] \in User /\ work[w].pw \in Passwords \cup {None}
    BY <2>1, Known DEF Typed, TablesOK, Existing
  <2>3. CASE work[w].pc = "reset"
    BY <2>2, <2>3, NoCodeIsCode DEF AfterReset, User
  <2>4. CASE work[w].pc = "burn"
    BY <2>2, <2>4, NoCodeIsCode DEF AfterReset, User
  <2>5. CASE work[w].pc = "bump"
    BY <1>5, <2>2, <2>5 DEF AfterReset, User
  <2> QED
    BY <1>1, <2>3, <2>4, <2>5
<1> HIDE DEF r
<1>7. SameAccounts
  BY <1>1, <1>2, <1>4, <1>6, Rewritten
<1>8. Settles /\ \A v \in Workers : work[v].pc = "free" => work'[v] = work[v]
  BY <1>1, <1>4, RetiredSettles
<1>9. spent' \in [0..MaxCodes -> Nat] /\ tries' \in [0..MaxCodes -> Nat]
  <2>1. spent \in [0..MaxCodes -> Nat] /\ tries \in [0..MaxCodes -> Nat]
    BY DEF Typed, ObservedOK
  <2> HIDE DEF code
  <2>2. /\ [spent EXCEPT ![code] = spent[code] + 1] \in [0..MaxCodes -> Nat]
        /\ [tries EXCEPT ![code] = tries[code] + 1] \in [0..MaxCodes -> Nat]
    BY <2>1, Incremented, Constants
  <2>3. /\ spent' = spent \/ spent' = [spent EXCEPT ![code] = spent[code] + 1]
        /\ tries' = tries \/ tries' = [tries EXCEPT ![code] = tries[code] + 1]
    BY <1>1
  <2> QED
    BY <2>1, <2>2, <2>3
<1> QED
  BY <1>1, <1>2, <1>4, <1>7, <1>8, <1>9, RowStep DEF Answered, Typed, CountsOK, r

\* A step on the other tables, or on nothing but the requests.
LEMMA TableStep ==
  ASSUME Typed, Settles, SameAccounts,
         rows' \subseteq Owned, tokens' \subseteq Token, profiles' \in [Ids -> Profile \cup {NoRow}],
         rows \subseteq rows' \/ \E w \in Workers : DeleteUser(w),
         alone' /\ Busy # {} => rows' \subseteq rows,
         UNCHANGED <<tokens, kept>> \/ TokensMove,
         aborts' = 0 => aborts = 0 /\ \A v \in Workers : work[v].pc = "free" => work'[v] = work[v],
         ops' = ops, secret' \in Keys, now' \in 0..MaxTime, lastRow' \in 0..MaxRows,
         lastUser' = lastUser, lastCode' = lastCode, vouches' = vouches,
         spent' = spent, tries' = tries, aborts' \in Nat, requests' \in Nat,
         alone' \in BOOLEAN, alone' => alone, answer'.status \in Statuses \cup {0}
  PROVE  Typed' /\ Settling
<1>1. TablesOK'
  BY DEF TablesOK, SameAccounts
<1>2. CountsOK' /\ ObservedOK'
  BY DEF Typed, CountsOK, ObservedOK
<1>3. EmailsOK' /\ WorkOK' /\ RoomOK'
  BY SameEmails, SettledTyped
<1>4. Settling
  BY DEF Settling
<1> QED
  BY <1>1, <1>2, <1>3, <1>4 DEF Typed

LEMMA SocialReloadDoes ==
  ASSUME Typed, NEW w \in Workers, SocialReload(w)
  PROVE  Typed' /\ Settling /\ SameCodes /\ Answered
<1>1. /\ work[w].pc = "reload" /\ users' = users /\ Beside
      /\ UNCHANGED <<mailed, spent, tries, proven>>
      /\ requests' = requests /\ alone' = alone
  BY DEF SocialReload, At, Beside, envVars, tableVars, idVars, observerVars
<1>2. PICK s \in Statuses : Finish(w, s)
  BY StatusesAre DEF SocialReload, Admit
<1>3. Retires(w) /\ Answered
  BY <1>1, <1>2, Finished
<1> QED
  BY <1>1, <1>3, RetiredSettles, Idling DEF Typed, CountsOK

LEMMA SweepDoes ==
  ASSUME Typed, NEW w \in Workers, Sweep(w)
  PROVE  Typed' /\ Settling /\ SameCodes /\ Answered
<1> DEFINE gone == {x \in rows : x.user = work[w].u /\ x.table = Sweeps[work[w].stage]}
           t == [work[w] EXCEPT !.stage = @ + 1, !.swept = @ \cup gone]
<1>1. /\ work[w].pc = "sweep" /\ work[w].stage \in DOMAIN Sweeps
      /\ Goto(w, t) /\ users' = users /\ Beside
      /\ UNCHANGED <<mailed, spent, tries, proven>>
      /\ requests' = requests /\ alone' = alone
  BY DEF Sweep, At, Beside, envVars, tableVars, idVars, sentVars, observerVars
<1>2. work' = [work EXCEPT ![w] = t] /\ answer' = NoAnswer
  BY <1>1 DEF Goto, Quiet
<1>3. TaskOK(work[w]) /\ work[w] \in Task
  BY Known
<1>4. work[w].stage + 1 \in 1..8 /\ work[w].stage \in 1..7
  BY <1>1, SweepsAre
<1>5. gone \subseteq Row
  BY <1>1, Constants DEF Typed, TablesOK, Owned, Row, Tables
<1> HIDE DEF gone
<1>6. work[w].swept \cup gone \in SUBSET (Row \cup Token)
  BY <1>3, <1>5, TaskIs
<1>7. t \in Task
  <2>1. work[w].stage + 1 \in 0..8
    BY <1>4
  <2> QED
    BY <1>3, <1>6, <2>1 DEF Task
<1>8. /\ t.pc = work[w].pc /\ t.op = work[w].op /\ t.u = work[w].u /\ t.stage = work[w].stage + 1
  BY <1>3 DEF Task
<1> HIDE DEF t
<1>9. TaskOK(t)
  BY <1>1, <1>3, <1>4, <1>7, <1>8 DEF TaskOK, Signing, ForUser
<1>10. Settles /\ \A v \in Workers : work[v].pc = "free" => work'[v] = work[v]
  BY <1>1, <1>2, <1>7, <1>8, <1>9 DEF Settles, Typed, WorkOK
<1>11. Answered
  BY <1>2 DEF Answered, NoAnswer
<1> QED
  BY <1>1, <1>10, <1>11, Idling DEF Typed, CountsOK

LEMMA DeleteUserDoes ==
  ASSUME Typed, NEW w \in Workers, DeleteUser(w)
  PROVE  Typed' /\ Settling /\ SameCodes
<1> DEFINE u == work[w].u
<1>1. /\ work[w].pc = "sweep"
      /\ ops' = ops /\ secret' = secret /\ now' = now /\ aborts' = aborts
      /\ lastUser' = lastUser /\ lastCode' = lastCode /\ lastRow' = lastRow
      /\ vouches' = vouches /\ profiles' = profiles
      /\ mailed' = mailed /\ spent' = spent /\ tries' = tries /\ proven' = proven
      /\ requests' = requests /\ alone' = alone
  BY DEF DeleteUser, At, envVars, idVars, sentVars
<1>2. \/ /\ users' = [users EXCEPT ![u] = NoRow]
         /\ rows' = {x \in rows : x.user # u}
         /\ tokens' = {x \in tokens : x.user # u}
         /\ Finish(w, 200)
      \/ users' = users /\ rows' = rows /\ tokens' = tokens /\ Finish(w, 500)
  BY DEF DeleteUser
<1>3. Retires(w) /\ answer'.status \in Statuses \cup {0}
  BY <1>2, Finished, StatusesAre
<1>4. Settles /\ \A v \in Workers : work[v].pc = "free" => work'[v] = work[v]
  BY <1>1, <1>3, RetiredSettles
<1>5. u \in Ids
  BY <1>1, Known DEF ForUser
<1>6. SameAccounts /\ SameCodes
  BY <1>1, <1>2, <1>5 DEF SameAccounts, SameCodes, Existing, Typed, TablesOK
<1>7. TokensMove /\ rows' \subseteq rows
  BY <1>2 DEF TokensMove
<1>8. rows' \subseteq Owned /\ tokens' \subseteq Token
  BY <1>2 DEF Typed, TablesOK
<1>9. Typed' /\ Settling
  BY <1>1, <1>3, <1>4, <1>6, <1>7, <1>8, TableStep DEF Typed, TablesOK, CountsOK
<1> QED
  BY <1>6, <1>9

LEMMA ProfileUpsertDoes ==
  ASSUME Typed, NEW w \in Workers, ProfileUpsert(w)
  PROVE  Typed' /\ Settling /\ SameCodes /\ Answered
<1>1. /\ work[w].pc = "upsert"
      /\ ops' = ops /\ secret' = secret /\ now' = now /\ aborts' = aborts
      /\ lastUser' = lastUser /\ lastCode' = lastCode /\ lastRow' = lastRow
      /\ vouches' = vouches /\ users' = users /\ rows' = rows /\ tokens' = tokens
      /\ kept' = kept /\ mailed' = mailed /\ spent' = spent /\ tries' = tries /\ proven' = proven
      /\ requests' = requests /\ alone' = alone
      /\ profiles' = [profiles EXCEPT ![work[w].u] = work[w].profile]
      /\ Finish(w, 200)
  BY DEF ProfileUpsert, At, envVars, idVars, sentVars, observerVars
<1>2. Retires(w) /\ Answered
  BY <1>1, Finished, StatusesAre
<1>3. Settles /\ \A v \in Workers : work[v].pc = "free" => work'[v] = work[v]
  BY <1>1, <1>2, RetiredSettles
<1>4. work[w].profile \in Profile
  BY <1>1, Known DEF TaskOK
<1>5. profiles' \in [Ids -> Profile \cup {NoRow}]
  BY <1>1, <1>4 DEF Typed, TablesOK
<1>6. SameAccounts /\ SameCodes
  BY <1>1, SameUsers DEF SameCodes
<1>7. Typed' /\ Settling
  BY <1>1, <1>2, <1>3, <1>5, <1>6, TableStep DEF Answered, Typed, TablesOK, CountsOK
<1> QED
  BY <1>2, <1>6, <1>7

LEMMA DeleteProfileDoes ==
  ASSUME Typed, NEW u \in Ids, DeleteProfile(u)
  PROVE  Typed' /\ Settling /\ SameCodes /\ Answered
<1>1. /\ ops' = ops /\ secret' = secret /\ now' = now /\ aborts' = aborts
      /\ lastUser' = lastUser /\ lastCode' = lastCode /\ lastRow' = lastRow
      /\ vouches' = vouches /\ users' = users /\ rows' = rows /\ tokens' = tokens
      /\ kept' = kept /\ mailed' = mailed /\ spent' = spent /\ tries' = tries /\ proven' = proven
      /\ requests' = requests + 1 /\ alone' = (alone /\ Busy = {})
      /\ profiles' = [profiles EXCEPT ![u] = NoRow]
      /\ work' = work /\ answer' = [op |-> "erase", u |-> u, status |-> 204]
  BY DEF DeleteProfile, Arrive, Served, envVars, idVars, sentVars, observerVars
<1>2. Answered
  BY <1>1, StatusesAre DEF Answered
<1>3. Settles /\ \A v \in Workers : work[v].pc = "free" => work'[v] = work[v]
  BY <1>1, StillSettles
<1>4. profiles' \in [Ids -> Profile \cup {NoRow}]
  BY <1>1 DEF Typed, TablesOK
<1>5. SameAccounts /\ SameCodes
  BY <1>1, SameUsers DEF SameCodes
<1>6. Typed' /\ Settling
  BY <1>1, <1>2, <1>3, <1>4, <1>5, TableStep DEF Answered, Typed, TablesOK, CountsOK
<1> QED
  BY <1>2, <1>5, <1>6

LEMMA MintInsertDoes ==
  ASSUME Typed, NEW w \in Workers, MintInsert(w)
  PROVE  Typed' /\ Settling /\ SameCodes /\ Answered
<1> DEFINE new == [user |-> work[w].u, device |-> work[w].device, n |-> lastRow + 1,
                   revoked |-> FALSE]
<1>1. /\ work[w].pc = "insert" /\ lastRow < MaxRows
      /\ ops' = ops /\ secret' = secret /\ now' = now /\ aborts' = aborts
      /\ lastUser' = lastUser /\ lastCode' = lastCode
      /\ vouches' = vouches /\ users' = users /\ rows' = rows /\ profiles' = profiles
      /\ mailed' = mailed /\ spent' = spent /\ tries' = tries /\ proven' = proven
      /\ requests' = requests /\ alone' = alone
  BY DEF MintInsert, Room, At, envVars, sentVars
<1>2. \/ tokens' = tokens \cup {new} /\ lastRow' = lastRow + 1 /\ Finish(w, 200)
      \/ tokens' = tokens /\ lastRow' = lastRow /\ Finish(w, 500)
  BY DEF MintInsert
<1>3. Retires(w) /\ Answered
  BY <1>1, <1>2, Finished, StatusesAre
<1>4. Settles /\ \A v \in Workers : work[v].pc = "free" => work'[v] = work[v]
  BY <1>1, <1>3, RetiredSettles
<1>5. work[w].u \in Ids /\ work[w].device \in Devices
  BY <1>1, Known DEF ForUser, TaskOK
<1>6. lastRow \in 0..MaxRows /\ lastRow + 1 \in 0..MaxRows /\ lastRow + 1 \in Nat
  BY <1>1, Constants DEF Typed, CountsOK
<1>7. new \in Token
  BY <1>5, <1>6 DEF Token
<1> HIDE DEF new
<1>8. tokens' \subseteq Token /\ lastRow' \in 0..MaxRows
  BY <1>2, <1>6, <1>7 DEF Typed, TablesOK
<1>9. SameAccounts /\ SameCodes /\ TokensMove
  BY <1>1, SameUsers DEF SameCodes, TokensMove
<1>10. Typed' /\ Settling
  BY <1>1, <1>3, <1>4, <1>8, <1>9, TableStep DEF Answered, Typed, TablesOK, CountsOK
<1> QED
  BY <1>3, <1>9, <1>10

LEMMA RevokedTyped ==
  ASSUME NEW T \in SUBSET Token, NEW R \in SUBSET T
  PROVE  Revoke(T, R) \in SUBSET Token
<1>1. \A x \in Token : [x EXCEPT !.revoked = TRUE] \in Token
  BY DEF Token
<1> QED
  BY <1>1 DEF Revoke

LEMMA RevokeTokenDoes ==
  ASSUME Typed, NEW u \in Ids, NEW y \in tokens, RevokeToken(u, y.n)
  PROVE  Typed' /\ Settling /\ SameCodes /\ Answered
<1>1. /\ ops' = ops /\ secret' = secret /\ now' = now /\ aborts' = aborts
      /\ lastUser' = lastUser /\ lastCode' = lastCode /\ lastRow' = lastRow
      /\ vouches' = vouches /\ users' = users /\ rows' = rows /\ profiles' = profiles
      /\ mailed' = mailed /\ spent' = spent /\ tries' = tries /\ proven' = proven
      /\ requests' = requests + 1 /\ alone' = (alone /\ Busy = {})
      /\ tokens' = Revoke(tokens, {x \in tokens : x.n = y.n /\ x.user = u})
      /\ work' = work /\ answer' = [op |-> "revoke", u |-> u, status |-> 204]
  BY DEF RevokeToken, RevokeTokenByID, Arrive, Served, envVars, idVars, sentVars
<1>2. Answered
  BY <1>1, StatusesAre DEF Answered
<1>3. Settles /\ \A v \in Workers : work[v].pc = "free" => work'[v] = work[v]
  BY <1>1, StillSettles
<1>4. tokens' \subseteq Token
  BY <1>1, RevokedTyped DEF Typed, TablesOK
<1>5. SameAccounts /\ SameCodes /\ TokensMove
  BY <1>1, SameUsers DEF SameCodes, TokensMove
<1>6. Typed' /\ Settling
  BY <1>1, <1>2, <1>3, <1>4, <1>5, TableStep DEF Answered, Typed, TablesOK, CountsOK
<1> QED
  BY <1>2, <1>5, <1>6

LEMMA InsertRowDoes ==
  ASSUME Typed, NEW u \in Ids, NEW table \in Tables, InsertRow(u, table)
  PROVE  Typed' /\ Settling /\ SameCodes /\ Answered
<1> DEFINE new == [table |-> table, user |-> u, n |-> lastRow + 1]
           s == IF u \in Existing(users) THEN 201 ELSE 500
<1>1. /\ lastRow < MaxRows
      /\ ops' = ops /\ secret' = secret /\ now' = now /\ aborts' = aborts
      /\ lastUser' = lastUser /\ lastCode' = lastCode
      /\ vouches' = vouches /\ users' = users /\ tokens' = tokens /\ profiles' = profiles
      /\ kept' = kept /\ mailed' = mailed /\ spent' = spent /\ tries' = tries /\ proven' = proven
      /\ requests' = requests + 1 /\ alone' = (alone /\ Busy = {})
      /\ work' = work /\ answer' = [op |-> table, u |-> u, status |-> s]
  BY DEF InsertRow, Room, Arrive, Served, envVars, sentVars, observerVars
<1>2. \/ rows' = rows \cup {new} /\ lastRow' = lastRow + 1
      \/ rows' = rows /\ lastRow' = lastRow
  BY DEF InsertRow
<1>3. table # "delete" /\ s \in Statuses
  BY StatusesAre DEF Tables, Holding, Yielding
<1>4. Answered
  BY <1>1, <1>3 DEF Answered
<1>5. Settles /\ \A v \in Workers : work[v].pc = "free" => work'[v] = work[v]
  BY <1>1, StillSettles
<1>6. lastRow \in 0..MaxRows /\ lastRow + 1 \in 0..MaxRows /\ lastRow + 1 \in 1..MaxRows
  BY <1>1, Constants DEF Typed, CountsOK
<1>7. new \in Owned
  BY <1>6 DEF Owned
<1> HIDE DEF new
<1>8. rows' \subseteq Owned /\ rows \subseteq rows' /\ lastRow' \in 0..MaxRows
  BY <1>2, <1>6, <1>7 DEF Typed, TablesOK
<1>9. SameAccounts /\ SameCodes
  BY <1>1, SameUsers DEF SameCodes
<1>10. alone' \in BOOLEAN /\ (alone' => alone) /\ requests' \in Nat
  BY <1>1 DEF Typed, CountsOK
<1>13. Busy # {} => ~alone'
  BY <1>1, Zenon
<1>11. UNCHANGED <<tokens, kept>>
  BY <1>1
<1>12. Typed' /\ Settling
  BY <1>1, <1>4, <1>5, <1>8, <1>9, <1>10, <1>11, <1>13, TableStep DEF Answered, Typed, TablesOK, CountsOK
<1> QED
  BY <1>4, <1>9, <1>12

LEMMA TickDoes ==
  ASSUME Typed, Tick
  PROVE  Typed' /\ Settling /\ SameCodes /\ Answered
<1>1. /\ now < MaxTime /\ now' = now + 1
      /\ ops' = ops /\ secret' = secret /\ aborts' = aborts
      /\ lastUser' = lastUser /\ lastCode' = lastCode /\ lastRow' = lastRow
      /\ vouches' = vouches /\ users' = users /\ rows' = rows /\ tokens' = tokens
      /\ profiles' = profiles /\ kept' = kept
      /\ mailed' = mailed /\ spent' = spent /\ tries' = tries /\ proven' = proven
      /\ requests' = requests /\ alone' = alone /\ work' = work /\ answer' = NoAnswer
  BY DEF Tick, Quiet, tableVars, idVars, sentVars, observerVars
<1>2. Answered
  BY <1>1 DEF Answered, NoAnswer
<1>3. Settles /\ \A v \in Workers : work[v].pc = "free" => work'[v] = work[v]
  BY <1>1, StillSettles
<1>4. now' \in 0..MaxTime
  BY <1>1, Constants DEF Typed, CountsOK
<1>5. SameAccounts /\ SameCodes
  BY <1>1, SameUsers DEF SameCodes
<1>6. Typed' /\ Settling
  BY <1>1, <1>2, <1>3, <1>4, <1>5, TableStep DEF Answered, Typed, TablesOK, CountsOK
<1> QED
  BY <1>2, <1>5, <1>6

LEMMA RekeyDoes ==
  ASSUME Typed, NEW k \in Keys, Rekey(k)
  PROVE  Typed' /\ Settling /\ SameCodes /\ Answered
<1>1. /\ secret' = k /\ now' = now
      /\ ops' = ops /\ aborts' = aborts
      /\ lastUser' = lastUser /\ lastCode' = lastCode /\ lastRow' = lastRow
      /\ vouches' = vouches /\ users' = users /\ rows' = rows /\ tokens' = tokens
      /\ profiles' = profiles /\ kept' = kept
      /\ mailed' = mailed /\ spent' = spent /\ tries' = tries /\ proven' = proven
      /\ requests' = requests /\ alone' = alone /\ work' = work /\ answer' = NoAnswer
  BY DEF Rekey, Quiet, tableVars, idVars, sentVars, observerVars
<1>2. Answered
  BY <1>1 DEF Answered, NoAnswer
<1>3. Settles /\ \A v \in Workers : work[v].pc = "free" => work'[v] = work[v]
  BY <1>1, StillSettles
<1>4. SameAccounts /\ SameCodes
  BY <1>1, SameUsers DEF SameCodes
<1>5. Typed' /\ Settling
  BY <1>1, <1>2, <1>3, <1>4, TableStep DEF Answered, Typed, TablesOK, CountsOK
<1> QED
  BY <1>2, <1>4, <1>5

LEMMA AbortDoes ==
  ASSUME Typed, NEW w \in Workers, Abort(w)
  PROVE  Typed' /\ Settling /\ SameCodes /\ Answered
<1>1. /\ aborts' = aborts + 1 /\ Retires(w)
      /\ ops' = ops /\ secret' = secret /\ now' = now
      /\ lastUser' = lastUser /\ lastCode' = lastCode /\ lastRow' = lastRow
      /\ vouches' = vouches /\ users' = users /\ rows' = rows /\ tokens' = tokens
      /\ profiles' = profiles /\ kept' = kept
      /\ mailed' = mailed /\ spent' = spent /\ tries' = tries /\ proven' = proven
      /\ requests' = requests /\ alone' = alone /\ answer' = NoAnswer
  BY DEF Abort, Retires, Quiet, tableVars, idVars, sentVars, observerVars
<1>2. Answered
  BY <1>1 DEF Answered, NoAnswer
<1>3. Settles
  BY <1>1, RetiredSettles
<1>4. aborts' \in Nat /\ aborts' # 0
  BY <1>1 DEF Typed, CountsOK
<1>5. SameAccounts /\ SameCodes
  BY <1>1, SameUsers DEF SameCodes
<1>6. Typed' /\ Settling
  BY <1>1, <1>2, <1>3, <1>4, <1>5, TableStep DEF Answered, Typed, TablesOK, CountsOK
<1> QED
  BY <1>2, <1>5, <1>6

\* A social sign-in finds an account with its address, or none.
Matches(w) ==
  LET who == work[w].who
  IN  /\ work[w].pc = "byEmail"
      /\ UNCHANGED <<users, rows, tokens, kept, lastUser, lastCode, mailed, spent, tries, proven,
                     vouches, alone, aborts>>
      /\ \/ work' = [work EXCEPT ![w] = [work[w] EXCEPT !.pc = "socialCreate", !.op = "socialNew"]]
         \/ \E u \in Existing(users) :
              /\ users[u].email = who.email /\ who.vouched
              /\ work' = [work EXCEPT ![w] = [work[w] EXCEPT !.pc = "link", !.u = u]]

\* It is linked to the account it found, if that is still there.
Links(w) ==
  LET u == work[w].u
      r == LinkSocial(users[u], work[w].who.kind, work[w].who.id)
  IN  /\ work[w].pc = "link"
      /\ UNCHANGED <<rows, tokens, kept, lastUser, lastCode, mailed, spent, tries, alone, aborts>>
      /\ work' = [work EXCEPT ![w] = [work[w] EXCEPT !.pc = "reload"]]
      /\ u \notin Existing(users) \/ Fits(users, u, r)
      /\ Write(u, r) /\ Vouch(w, u)

\* The row of a new account.
NewRow(w) ==
  LET who == work[w].who
  IN  IF work[w].pc = "create"
      THEN CreateUser(work[w].email, work[w].pw, "local", {}, FALSE, work[w].code)
      ELSE CreateUser(who.email, None, who.kind, {<<who.kind, who.id>>}, who.vouched, NoCode)

Founds(w) ==
  LET u == lastUser + 1
  IN  /\ work[w].pc \in {"create", "socialCreate"}
      /\ u \in Ids /\ NewRow(w) \in User /\ Fits(users, u, NewRow(w))
      /\ users' = [users EXCEPT ![u] = NewRow(w)] /\ lastUser' = u
      /\ work' = [work EXCEPT ![w] = [work[w] EXCEPT !.pc = "free", !.u = u]]
      /\ UNCHANGED <<rows, tokens, kept, lastCode, mailed, spent, tries, alone, aborts>>
      /\ IF work[w].pc = "create" THEN UNCHANGED <<proven, vouches>> ELSE Vouch(w, u)

\* The request that made the account gives it the free plan and ends.
Endows(w) ==
  LET u == work[w].u
  IN  /\ work[w].pc = "free" /\ Retires(w)
      /\ UNCHANGED <<users, tokens, kept, lastUser, lastCode, spent, tries, proven, vouches,
                     alone, aborts>>
      /\ rows \subseteq rows'
      /\ u \in Existing(users) => \E x \in rows' : x.user = u /\ x.table = "subscriptions"
      /\ \/ mailed' = mailed
         \/ work[w].op = "register" /\ mailed' = mailed \cup {<<work[w].code.n, u>>}

LEMMA SocialByEmailDoes ==
  ASSUME Typed, NEW w \in Workers, SocialByEmail(w)
  PROVE  Typed' /\ Answered /\ ((Settling /\ SameCodes) \/ Matches(w))
<1> DEFINE who == work[w].who
           t1 == [work[w] EXCEPT !.pc = "socialCreate", !.op = "socialNew"]
           t2(u) == [work[w] EXCEPT !.pc = "link", !.u = u]
<1>1. /\ work[w].pc = "byEmail" /\ users' = users /\ Beside
      /\ UNCHANGED <<mailed, spent, tries, proven>>
      /\ requests' = requests /\ alone' = alone
  BY DEF SocialByEmail, At, Beside, envVars, tableVars, idVars, sentVars, observerVars
<1>2. \/ Goto(w, t1)
      \/ \E u \in Existing(users) : users[u].email = who.email /\ who.vouched /\ Goto(w, t2(u))
      \/ Finish(w, 401)
  BY DEF SocialByEmail, GetAuthUserByEmail
<1>3. /\ TaskOK(work[w]) /\ work[w] \in Task /\ who \in Identities
  BY <1>1, Known DEF TaskOK, Signing
<1>4. CASE Finish(w, 401)
  <2>1. Retires(w) /\ Answered
    BY <1>1, <1>4, Finished, StatusesAre
  <2> QED
    BY <1>1, <2>1, RetiredSettles, Idling DEF Typed, CountsOK
<1>5. ASSUME NEW t, TaskOK(t), t.pc \in {"socialCreate", "link"}, Goto(w, t)
      PROVE  Typed' /\ Answered
  <2>1. work' = [work EXCEPT ![w] = t] /\ answer' = NoAnswer
    BY <1>5 DEF Goto, Quiet
  <2>2. WorkOK'
    BY <1>5, <2>1 DEF Typed, WorkOK, TaskOK
  <2>3. Founders' \subseteq Founders
    BY <1>1, <2>1 DEF Founders, Founding, Typed, WorkOK
  <2>4. lastUser' = lastUser
    BY <1>1 DEF Beside
  <2>5. RoomOK'
    BY <2>3, <2>4, RoomStays
  <2>6. Answered
    BY <2>1 DEF Answered, NoAnswer
  <2>7. TablesOK' /\ EmailsOK'
    BY <1>1, SameUsers, SameEmails DEF Typed, TablesOK, Beside
  <2>8. CountsOK' /\ ObservedOK'
    BY <1>1, <2>6 DEF Typed, CountsOK, ObservedOK, Beside, Answered
  <2> QED
    BY <2>2, <2>5, <2>6, <2>7, <2>8 DEF Typed
<1>6. UNCHANGED <<users, rows, tokens, kept, lastUser, lastCode, mailed, spent, tries, proven,
                  vouches, alone, aborts>>
  BY <1>1 DEF Beside
<1>7. CASE Goto(w, t1)
  <2>1. t1 \in Task
    BY <1>3, Named DEF Task
  <2>2. t1.pc = "socialCreate" /\ t1.op = "socialNew" /\ t1.who = who
    BY <1>3 DEF Task
  <2>3. work' = [work EXCEPT ![w] = t1]
    BY <1>7 DEF Goto
  <2> HIDE DEF t1
  <2>4. TaskOK(t1)
    BY <1>3, <2>1, <2>2 DEF TaskOK, Signing, ForUser
  <2>5. Matches(w)
    BY <1>1, <1>6, <2>3 DEF Matches, t1
  <2> QED
    BY <1>5, <1>7, <2>2, <2>4, <2>5
<1>8. ASSUME NEW u \in Existing(users), users[u].email = who.email, who.vouched, Goto(w, t2(u))
      PROVE  Typed' /\ Answered /\ Matches(w)
  <2>0. u \in Ids
    BY <1>8 DEF Existing
  <2>1. t2(u) \in Task
    BY <1>3, <2>0, Named DEF Task
  <2>2. t2(u).pc = "link" /\ t2(u).op = work[w].op /\ t2(u).who = who /\ t2(u).u = u
    BY <1>3 DEF Task
  <2>3. work' = [work EXCEPT ![w] = t2(u)]
    BY <1>8 DEF Goto
  <2>4. Matches(w)
    BY <1>1, <1>6, <1>8, <2>3 DEF Matches
  <2> HIDE DEF t2
  <2>5. TaskOK(t2(u))
    BY <1>1, <1>3, <2>0, <2>1, <2>2 DEF TaskOK, Signing, ForUser
  <2> QED
    BY <1>5, <1>8, <2>2, <2>4, <2>5
<1> QED
  BY <1>2, <1>4, <1>7, <1>8

LEMMA LinkedRow ==
  ASSUME NEW r \in User, NEW kind \in SocialKinds, NEW id \in SocialIds
  PROVE  /\ LinkSocial(r, kind, id) \in User
         /\ LinkSocial(r, kind, id).email = r.email
         /\ LinkSocial(r, kind, id).provider = r.provider
         /\ LinkSocial(r, kind, id).verified = TRUE
         /\ LinkSocial(r, kind, id).vcode = r.vcode
         /\ LinkSocial(r, kind, id).rcode = r.rcode
         /\ LinkSocial(r, kind, id).attempts = r.attempts
<1> DEFINE S == {s \in r.social : s[1] # kind} \cup {<<kind, id>>}
<1>1. S \in SUBSET (SocialKinds \X SocialIds)
  BY UserFields
<1>2. LinkSocial(r, kind, id) = [r EXCEPT !.social = S, !.verified = TRUE]
  BY DEF LinkSocial
<1> HIDE DEF S
<1> QED
  BY <1>1, <1>2 DEF User

LEMMA LinkedSocial ==
  ASSUME NEW r \in User, NEW kind, NEW id, NEW s
  PROVE  s \in LinkSocial(r, kind, id).social <=>
           (s \in r.social /\ s[1] # kind) \/ s = <<kind, id>>
<1> DEFINE S == {y \in r.social : y[1] # kind} \cup {<<kind, id>>}
<1>1. LinkSocial(r, kind, id) = [r EXCEPT !.social = S, !.verified = TRUE]
  BY DEF LinkSocial
<1>2. s \in S <=> (s \in r.social /\ s[1] # kind) \/ s = <<kind, id>>
  OBVIOUS
<1> HIDE DEF S
<1> QED
  BY <1>1, <1>2 DEF User

LEMMA SocialLinkDoes ==
  ASSUME Typed, NEW w \in Workers, SocialLink(w)
  PROVE  Typed' /\ Answered /\ ((Settling /\ SameCodes) \/ Links(w))
<1> DEFINE u == work[w].u
           who == work[w].who
           r == LinkSocial(users[u], who.kind, who.id)
           t == [work[w] EXCEPT !.pc = "reload"]
<1>1. /\ work[w].pc = "link" /\ requests' = requests /\ alone' = alone
      /\ ops' = ops /\ secret' = secret /\ now' = now /\ aborts' = aborts
      /\ lastUser' = lastUser /\ lastCode' = lastCode /\ lastRow' = lastRow
      /\ rows' = rows /\ tokens' = tokens /\ profiles' = profiles /\ kept' = kept
      /\ mailed' = mailed /\ spent' = spent /\ tries' = tries
  BY DEF SocialLink, At, envVars, idVars, sentVars
<1>2. Update(users[u], [kind |-> who.kind, social |-> who.id]) = r
  BY PatchSocial
<1>3. \/ /\ u \notin Existing(users) \/ Fits(users, u, r)
         /\ Write(u, r) /\ Vouch(w, u) /\ Goto(w, t)
      \/ Finish(w, 500) /\ UNCHANGED <<users, proven, vouches>>
  BY <1>2 DEF SocialLink
<1>4. TaskOK(work[w]) /\ work[w] \in Task /\ u \in Ids /\ who \in Identities
  BY <1>1, Known DEF TaskOK, Signing, ForUser
<1>5. CASE Finish(w, 500) /\ UNCHANGED <<users, proven, vouches>>
  <2>1. Retires(w) /\ Answered
    BY <1>1, <1>5, Finished, StatusesAre
  <2>2. Beside /\ UNCHANGED <<mailed, spent, tries, proven>>
    BY <1>1, <1>5 DEF Beside
  <2> QED
    BY <1>1, <1>5, <2>1, <2>2, RetiredSettles, Idling DEF Typed, CountsOK
<1>6. CASE /\ u \notin Existing(users) \/ Fits(users, u, r)
           /\ Write(u, r) /\ Vouch(w, u) /\ Goto(w, t)
  <2>1. work' = [work EXCEPT ![w] = t] /\ answer' = NoAnswer
    BY <1>6 DEF Goto, Quiet
  <2>2. t \in Task
    BY <1>4, Named DEF Task
  <2>3. t.pc = "reload" /\ t.op = work[w].op /\ t.who = who /\ t.u = u
    BY <1>4 DEF Task
  <2>4. UNCHANGED <<rows, tokens, kept, lastUser, lastCode, mailed, spent, tries, alone, aborts>>
    BY <1>1
  <2>5. Links(w)
    BY <1>1, <1>6, <2>1, <2>4 DEF Links
  <2> HIDE DEF t
  <2>6. TaskOK(t)
    BY <1>1, <1>4, <2>2, <2>3 DEF TaskOK, Signing, ForUser
  <2>7. WorkOK'
    BY <2>1, <2>6 DEF Typed, WorkOK, TaskOK
  <2>8. Founders' \subseteq Founders
    BY <2>1, <2>3 DEF Founders, Founding, Typed, WorkOK
  <2>9. RoomOK'
    BY <1>1, <2>8, RoomStays
  <2>10. Answered
    BY <2>1 DEF Answered, NoAnswer
  <2>11. u \in Existing(users) => r \in User /\ r.email = users[u].email
    <3>1. u \in Existing(users) => users[u] \in User
      BY <1>4 DEF Typed, TablesOK, Existing
    <3>2. who.kind \in SocialKinds /\ who.id \in SocialIds
      BY <1>4, IdentityFields
    <3> QED
      BY <3>1, <3>2, LinkedRow
  <2> HIDE DEF r
  <2>12. users' \in [Ids -> User \cup {NoRow}] /\ EmailsOK'
    BY <1>4, <1>6, <2>11 DEF Typed, TablesOK, EmailsOK, Write, Existing
  <2>13. TablesOK'
    BY <1>1, <2>12 DEF Typed, TablesOK
  <2>14. CountsOK' /\ ObservedOK'
    BY <1>1, <2>10 DEF Typed, CountsOK, ObservedOK, Answered
  <2> QED
    BY <2>5, <2>7, <2>9, <2>10, <2>12, <2>13, <2>14 DEF Typed
<1> QED
  BY <1>3, <1>5, <1>6

LEMMA NewRowTyped ==
  ASSUME Typed, NEW w \in Workers, work[w].pc \in {"create", "socialCreate"}
  PROVE  NewRow(w) \in User
<1>1. /\ TaskOK(work[w]) /\ work[w].pw \in Passwords \cup {None} /\ work[w].code \in Code
      /\ work[w] \in Task
  BY Known
<1>2. CASE work[w].pc = "create"
  <2> DEFINE S == {}
             P == SocialKinds \X SocialIds
  <2>1. S \in SUBSET P
    OBVIOUS
  <2>2. NewRow(w) = CreateUser(work[w].email, work[w].pw, "local", S, FALSE, work[w].code)
    BY <1>2 DEF NewRow
  <2>3. work[w].email \in Addresses /\ "local" \in Providers
    BY <1>1, <1>2 DEF TaskOK, Providers
  <2> HIDE DEF S
  <2> QED
    BY <1>1, <2>1, <2>2, <2>3, NoCodeIsCode DEF CreateUser, User
<1>3. CASE work[w].pc = "socialCreate"
  <2> DEFINE who == work[w].who
             S == {<<who.kind, who.id>>}
  <2>1. /\ who.kind \in SocialKinds /\ who.id \in SocialIds /\ who.email \in Addresses
        /\ who.vouched \in BOOLEAN /\ who.kind \in Providers
    BY <1>1, <1>3, IdentityFields DEF TaskOK, Signing, Providers
  <2>2. S \in SUBSET (SocialKinds \X SocialIds)
    BY <2>1
  <2>3. NewRow(w) = CreateUser(who.email, None, who.kind, S, who.vouched, NoCode)
    BY <1>3 DEF NewRow
  <2> HIDE DEF S, who
  <2> QED
    BY <2>1, <2>2, <2>3, NoCodeIsCode DEF CreateUser, User
<1> QED
  BY <1>2, <1>3

\* The insert is refused by a unique index, or founds an account.
LEMMA InsertDoes ==
  ASSUME Typed, NEW w \in Workers, work[w].pc \in {"create", "socialCreate"},
         Insert(w, NewRow(w), work[w]),
         ops' = ops, secret' = secret, now' = now, aborts' = aborts,
         rows' = rows, tokens' = tokens, profiles' = profiles, kept' = kept,
         lastCode' = lastCode, lastRow' = lastRow, mailed' = mailed,
         spent' = spent, tries' = tries, requests' = requests, alone' = alone,
         IF work[w].pc = "create" \/ ~Fits(users, lastUser + 1, NewRow(w))
         THEN UNCHANGED <<proven, vouches>> ELSE Vouch(w, lastUser + 1)
  PROVE  Typed' /\ Answered /\ ((Settling /\ SameCodes) \/ Founds(w))
<1> DEFINE u == lastUser + 1
           r == NewRow(w)
           t == [work[w] EXCEPT !.pc = "free", !.u = u]
<1>1. CASE ~Fits(users, u, r)
  <2>1. Finish(w, 500) /\ users' = users /\ lastUser' = lastUser /\ vouches' = vouches
        /\ proven' = proven
    BY <1>1 DEF Insert
  <2>2. Retires(w) /\ Answered
    BY <2>1, Finished, StatusesAre
  <2>3. Beside /\ UNCHANGED <<mailed, spent, tries, proven>>
    BY <2>1 DEF Beside
  <2> QED
    BY <2>1, <2>2, <2>3, RetiredSettles, Idling DEF Typed, CountsOK
<1>2. CASE Fits(users, u, r)
  <2>1. users' = [users EXCEPT ![u] = r] /\ lastUser' = u /\ Goto(w, t)
    BY <1>2 DEF Insert
  <2>2. work' = [work EXCEPT ![w] = t] /\ answer' = NoAnswer
    BY <2>1 DEF Goto, Quiet
  <2>3. w \in Founders
    BY DEF Founders, Founding
  <2>4. TaskOK(work[w]) /\ work[w] \in Task
    BY Known
  <2>5. t.pc = "free" /\ t.op = work[w].op
    BY <2>4 DEF Task
  <2>6. Founders' = Founders \ {w}
    BY <2>2, <2>5 DEF Founders, Founding, Typed, WorkOK
  <2>7. RoomOK' /\ u <= MaxUsers
    BY <2>1, <2>3, <2>6, RoomUsed
  <2>8. u \in Ids /\ u \in 0..MaxUsers
    BY <2>7, Constants DEF Typed, CountsOK, Ids
  <2>9. t \in Task
    <3>1. u \in Ids \cup {0}
      BY <2>8
    <3> HIDE DEF u
    <3> QED
      BY <2>4, <3>1, Named DEF Task
  <2>10. t.u = u
    BY <2>4 DEF Task
  <2>11. r \in User
    BY NewRowTyped
  <2>12. UNCHANGED <<rows, tokens, kept, lastCode, mailed, spent, tries, alone, aborts>>
    OBVIOUS
  <2>13. IF work[w].pc = "create" THEN UNCHANGED <<proven, vouches>> ELSE Vouch(w, u)
    BY <1>2
  <2>14. Founds(w)
    BY <1>2, <2>1, <2>2, <2>8, <2>11, <2>12, <2>13 DEF Founds
  <2> HIDE DEF t, r
  <2>15. TaskOK(t)
    BY <2>4, <2>5, <2>8, <2>9, <2>10 DEF TaskOK, Signing, ForUser
  <2>16. WorkOK'
    BY <2>2, <2>9, <2>15 DEF Typed, WorkOK
  <2>17. Answered
    BY <2>2 DEF Answered, NoAnswer
  <2> HIDE DEF u
  <2>18. users' \in [Ids -> User \cup {NoRow}] /\ EmailsOK'
    <3>1. \A v \in Existing(users) \ {u} : users[v].email # r.email
      BY <1>2 DEF Fits
    <3> QED
      BY <2>1, <2>8, <2>11, <3>1 DEF Typed, TablesOK, EmailsOK, Existing
  <2>19. TablesOK'
    BY <2>18 DEF Typed, TablesOK
  <2>20. CountsOK' /\ ObservedOK'
    BY <2>1, <2>8, <2>17 DEF Typed, CountsOK, ObservedOK, Answered
  <2> QED
    BY <2>7, <2>14, <2>16, <2>17, <2>18, <2>19, <2>20 DEF Typed
<1> QED
  BY <1>1, <1>2

LEMMA RegisterCreateDoes ==
  ASSUME Typed, NEW w \in Workers, RegisterCreate(w)
  PROVE  Typed' /\ Answered /\ ((Settling /\ SameCodes) \/ Founds(w))
<1>1. /\ work[w].pc = "create" /\ requests' = requests /\ alone' = alone
      /\ ops' = ops /\ secret' = secret /\ now' = now /\ aborts' = aborts
      /\ lastCode' = lastCode /\ lastRow' = lastRow
      /\ rows' = rows /\ tokens' = tokens /\ profiles' = profiles /\ kept' = kept
      /\ mailed' = mailed /\ spent' = spent /\ tries' = tries
      /\ UNCHANGED <<proven, vouches>>
  BY DEF RegisterCreate, At, envVars, sentVars, observerVars
<1>2. Insert(w, NewRow(w), work[w])
  BY <1>1 DEF RegisterCreate, NewRow
<1> QED
  BY <1>1, <1>2, InsertDoes

LEMMA SocialCreateDoes ==
  ASSUME Typed, NEW w \in Workers, SocialCreate(w)
  PROVE  Typed' /\ Answered /\ ((Settling /\ SameCodes) \/ Founds(w))
<1>1. /\ work[w].pc = "socialCreate" /\ requests' = requests /\ alone' = alone
      /\ ops' = ops /\ secret' = secret /\ now' = now /\ aborts' = aborts
      /\ lastCode' = lastCode /\ lastRow' = lastRow
      /\ rows' = rows /\ tokens' = tokens /\ profiles' = profiles /\ kept' = kept
      /\ mailed' = mailed /\ spent' = spent /\ tries' = tries
  BY DEF SocialCreate, At, envVars, sentVars
<1>2. /\ Insert(w, NewRow(w), work[w])
      /\ IF Fits(users, lastUser + 1, NewRow(w)) THEN Vouch(w, lastUser + 1)
         ELSE UNCHANGED <<proven, vouches>>
  BY <1>1 DEF SocialCreate, NewRow
<1> QED
  BY <1>1, <1>2, InsertDoes

LEMMA CreateFreeDoes ==
  ASSUME Typed, NEW w \in Workers, CreateFree(w)
  PROVE  Typed' /\ Answered /\ Endows(w)
<1> DEFINE u == work[w].u
           new == [table |-> "subscriptions", user |-> u, n |-> lastRow + 1]
<1>1. /\ work[w].pc = "free" /\ lastRow < MaxRows /\ requests' = requests /\ alone' = alone
      /\ ops' = ops /\ secret' = secret /\ now' = now /\ aborts' = aborts
      /\ lastCode' = lastCode /\ lastUser' = lastUser /\ users' = users
      /\ tokens' = tokens /\ profiles' = profiles /\ kept' = kept
      /\ spent' = spent /\ tries' = tries /\ vouches' = vouches /\ proven' = proven
  BY DEF CreateFree, Room, At, envVars, observerVars
<1>2. \/ /\ u \in Existing(users) /\ rows' = rows \cup {new} /\ lastRow' = lastRow + 1
         /\ \/ work[w].op = "register" /\ mailed' = mailed \cup {<<work[w].code.n, u>>}
               /\ Finish(w, 201)
            \/ mailed' = mailed /\ Finish(w, 401)
      \/ u \notin Existing(users) /\ rows' = rows /\ lastRow' = lastRow /\ mailed' = mailed
         /\ Finish(w, 500)
  BY DEF CreateFree, FreeSubscription, Mail, sentVars
<1>3. Retires(w) /\ Answered
  <2>1. PICK s \in Statuses : Finish(w, s)
    BY <1>2, StatusesAre
  <2> QED
    BY <1>1, <2>1, Finished
<1>4. Endows(w)
  <2>1. new.user = u /\ new.table = "subscriptions"
    OBVIOUS
  <2>2. UNCHANGED <<users, tokens, kept, lastUser, lastCode, spent, tries, proven, vouches,
                    alone, aborts>>
    BY <1>1
  <2> HIDE DEF new
  <2> QED
    BY <1>1, <1>2, <1>3, <2>1, <2>2 DEF Endows
<1>5. u \in Ids
  BY <1>1, Known DEF ForUser
<1>6. lastRow \in 0..MaxRows /\ lastRow + 1 \in 0..MaxRows /\ lastRow + 1 \in 1..MaxRows
  BY <1>1, Constants DEF Typed, CountsOK
<1>7. new \in Owned
  BY <1>5, <1>6 DEF Owned, Tables, Holding
<1> HIDE DEF new
<1>8. TablesOK'
  BY <1>1, <1>2, <1>7 DEF Typed, TablesOK
<1>9. CountsOK' /\ ObservedOK'
  BY <1>1, <1>2, <1>3, <1>6 DEF Typed, CountsOK, ObservedOK, Answered
<1>10. EmailsOK'
  BY <1>1, SameUsers, SameEmails
<1>11. WorkOK' /\ RoomOK'
  BY <1>1, <1>3, RetiredSettles, SettledTyped
<1> QED
  BY <1>3, <1>4, <1>8, <1>9, <1>10, <1>11 DEF Typed

LEMMA StartsTyped ==
  ASSUME Typed, Starts, tokens' \subseteq Token
  PROVE  Typed' /\ Answered
<1>1. /\ ops' = ops /\ secret' = secret /\ now' = now /\ aborts' = aborts
      /\ users' = users /\ rows' = rows /\ profiles' = profiles
      /\ lastUser' = lastUser /\ lastRow' = lastRow
      /\ spent' = spent /\ tries' = tries
  BY DEF Starts, envVars
<1>2. TablesOK' /\ EmailsOK'
  BY <1>1, SameUsers, SameEmails DEF Typed, TablesOK
<1>3. CountsOK' /\ ObservedOK'
  BY <1>1 DEF Starts, Typed, CountsOK, ObservedOK
<1>4. WorkOK' /\ RoomOK'
  <2>1. CASE work' = work
    BY <1>1, <2>1, StillSettles, SettledTyped
  <2>2. CASE \E t \in Task : Opening(t) /\ Opens(t)
    <3>1. PICK t \in Task : Opening(t) /\ Opens(t)
      BY <2>2
    <3>2. PICK w \in Workers : work[w] = Idle /\ work' = [work EXCEPT ![w] = t]
      BY <3>1 DEF Opens
    <3>3. WorkOK'
      BY <3>1, <3>2 DEF Opening, Typed, WorkOK
    <3>4. CASE t.pc \in Founding
      <4>1. Space
        BY <3>1, <3>4 DEF Opening
      <4>2. Founders' \subseteq Founders \cup {w}
        BY <3>2 DEF Founders, Typed, WorkOK
      <4> QED
        BY <1>1, <3>3, <4>1, <4>2, RoomTaken
    <3>5. CASE t.pc \notin Founding
      <4>1. Founders' \subseteq Founders
        BY <3>2, <3>5 DEF Founders, Typed, WorkOK
      <4> QED
        BY <1>1, <3>3, <4>1, RoomStays
    <3> QED
      BY <3>4, <3>5
  <2> QED
    BY <2>1, <2>2 DEF Starts
<1>5. Answered
  BY DEF Starts, Answered
<1> QED
  BY <1>2, <1>3, <1>4, <1>5 DEF Typed

(***************************************************************************)
(* What the writes of codes leave in the row they write.                   *)
(***************************************************************************)
OtherRows(w) ==
  \A u \in Existing(users') : u \in Existing(users) /\ (u # work[w].u => users'[u] = users[u])

LEMMA WrittenRow ==
  ASSUME Typed, NEW w \in Workers, NEW r, work[w].u \in Ids, Write(work[w].u, r)
  PROVE  /\ OtherRows(w)
         /\ work[w].u \in Existing(users') =>
              work[w].u \in Existing(users) /\ users'[work[w].u] = r
                /\ users[work[w].u] \in User
  BY DEF Write, Existing, Typed, TablesOK, OtherRows

LEMMA VerifyWriteRow ==
  ASSUME Typed, NEW w \in Workers, VerifyWrite(w)
  PROVE  LET u == work[w].u
         IN  /\ work[w].pc = "verify" /\ Retires(w) /\ OtherRows(w)
             /\ UNCHANGED <<mailed, spent, tries>>
             /\ proven' = IF <<work[w].code.n, u>> \in mailed THEN proven \cup {u} ELSE proven
             /\ u \in Existing(users') =>
                  /\ users'[u].vcode = NoCode /\ users'[u].rcode = users[u].rcode
                  /\ users'[u].attempts = users[u].attempts
<1> DEFINE u == work[w].u
           r == [users[u] EXCEPT !.verified = TRUE, !.vcode = NoCode]
<1>1. Update(users[u], [verified |-> TRUE, vcode |-> NoCode]) = r
  BY DEF Update, UpdateUserVerification
<1>2. /\ work[w].pc = "verify" /\ Write(u, r) /\ UNCHANGED <<mailed, spent, tries>>
      /\ proven' = IF <<work[w].code.n, u>> \in mailed THEN proven \cup {u} ELSE proven
      /\ Retires(w)
  BY <1>1 DEF VerifyWrite, At, Finish, Retires, sentVars
<1>3. u \in Ids
  BY <1>2, Known DEF ForUser
<1>4. users[u] \in User => /\ r.vcode = NoCode /\ r.rcode = users[u].rcode
                           /\ r.attempts = users[u].attempts
  BY DEF User
<1> HIDE DEF r
<1> QED
  BY <1>2, <1>3, <1>4, WrittenRow

LEMMA ResendWriteRow ==
  ASSUME Typed, NEW w \in Workers, ResendWrite(w)
  PROVE  LET u == work[w].u
         IN  /\ work[w].pc = "resend" /\ Retires(w) /\ OtherRows(w)
             /\ UNCHANGED <<spent, tries, proven>>
             /\ mailed' = mailed \cup {<<work[w].code.n, u>>}
             /\ u \in Existing(users') =>
                  /\ users'[u].vcode = work[w].code /\ users'[u].rcode = users[u].rcode
                  /\ users'[u].attempts = users[u].attempts
                  /\ users'[u].verified = users[u].verified
<1> DEFINE u == work[w].u
           r == [users[u] EXCEPT !.vcode = work[w].code]
<1>1. Update(users[u], [vcode |-> work[w].code]) = r
  BY PatchVcode
<1>2. /\ work[w].pc = "resend" /\ Write(u, r) /\ UNCHANGED <<spent, tries, proven>>
      /\ mailed' = mailed \cup {<<work[w].code.n, u>>}
      /\ Retires(w)
  BY <1>1 DEF ResendWrite, At, Finish, Retires, Mail, observerVars
<1>3. u \in Ids
  BY <1>2, Known DEF ForUser
<1>4. users[u] \in User => /\ r.vcode = work[w].code /\ r.rcode = users[u].rcode
                           /\ r.attempts = users[u].attempts /\ r.verified = users[u].verified
  BY DEF User
<1> HIDE DEF r
<1> QED
  BY <1>2, <1>3, <1>4, WrittenRow

LEMMA ForgotWriteRow ==
  ASSUME Typed, NEW w \in Workers, ForgotWrite(w)
  PROVE  LET u == work[w].u
         IN  /\ work[w].pc = "forgot" /\ Retires(w) /\ OtherRows(w)
             /\ UNCHANGED <<spent, tries, proven>>
             /\ mailed' = mailed \cup {<<work[w].code.n, u>>}
             /\ u \in Existing(users') =>
                  /\ users'[u].rcode = work[w].code /\ users'[u].attempts = 0
                  /\ users'[u].vcode = users[u].vcode
                  /\ users'[u].verified = users[u].verified
<1> DEFINE u == work[w].u
           r == [users[u] EXCEPT !.rcode = work[w].code, !.attempts = 0]
<1>1. Update(users[u], [rcode |-> work[w].code, attempts |-> 0]) = r
  BY DEF Update, SetPasswordResetCode
<1>2. /\ work[w].pc = "forgot" /\ Write(u, r) /\ UNCHANGED <<spent, tries, proven>>
      /\ mailed' = mailed \cup {<<work[w].code.n, u>>}
      /\ Retires(w)
  BY <1>1 DEF ForgotWrite, At, Finish, Retires, Mail, observerVars
<1>3. u \in Ids
  BY <1>2, Known DEF ForUser
<1>4. users[u] \in User => /\ r.rcode = work[w].code /\ r.attempts = 0
                           /\ r.vcode = users[u].vcode /\ r.verified = users[u].verified
  BY DEF User
<1> HIDE DEF r
<1> QED
  BY <1>2, <1>3, <1>4, WrittenRow

LEMMA ResetWriteRow ==
  ASSUME Typed, NEW w \in Workers, ResetWrite(w)
  PROVE  LET u == work[w].u
             c == work[w].row.rcode.n
         IN  /\ work[w].pc \in {"bump", "burn", "reset"} /\ Retires(w) /\ OtherRows(w)
             /\ UNCHANGED <<mailed, proven>>
             /\ spent' = IF work[w].pc = "reset" THEN [spent EXCEPT ![c] = @ + 1] ELSE spent
             /\ tries' = IF work[w].pc = "reset" THEN tries ELSE [tries EXCEPT ![c] = @ + 1]
             /\ u \in Existing(users') =>
                  /\ users'[u].vcode = users[u].vcode /\ users'[u].verified = users[u].verified
                  /\ work[w].pc # "bump" => users'[u].rcode = NoCode
                  /\ work[w].pc = "bump" =>
                       /\ users'[u].rcode = users[u].rcode
                       /\ users'[u].attempts = work[w].row.attempts + 1
<1> DEFINE u == work[w].u
           c == work[w].row.rcode.n
           r == AfterReset(w)
<1>1. work[w].pc \in {"bump", "burn", "reset"} /\ Write(u, r) /\ Retires(w)
  BY ResetWriteDoes
<1>2. /\ UNCHANGED <<mailed, proven>>
      /\ spent' = IF work[w].pc = "reset" THEN [spent EXCEPT ![c] = @ + 1] ELSE spent
      /\ tries' = IF work[w].pc = "reset" THEN tries ELSE [tries EXCEPT ![c] = @ + 1]
  BY DEF ResetWrite, sentVars
<1>3. u \in Ids
  BY <1>1, Known DEF ForUser
<1>4. users[u] \in User =>
        /\ r.vcode = users[u].vcode /\ r.verified = users[u].verified
        /\ work[w].pc # "bump" => r.rcode = NoCode
        /\ work[w].pc = "bump" => r.rcode = users[u].rcode
                                    /\ r.attempts = work[w].row.attempts + 1
  <2>1. CASE work[w].pc = "reset"
    BY <2>1 DEF AfterReset, User
  <2>2. CASE work[w].pc = "burn"
    BY <2>2 DEF AfterReset, User
  <2>3. CASE work[w].pc = "bump"
    BY <2>3 DEF AfterReset, User
  <2> QED
    BY <1>1, <2>1, <2>2, <2>3
<1> HIDE DEF r
<1> QED
  BY <1>1, <1>2, <1>3, <1>4, WrittenRow
(***************************************************************************)
(* Where a request is after a step that makes, links or endows an account. *)
(***************************************************************************)
Others(w) == \A v \in Workers \ {w} : work'[v] = work[v]

LEMMA MatchesMove ==
  ASSUME Typed, NEW w \in Workers, Matches(w)
  PROVE  /\ Others(w) /\ work'[w].who = work[w].who
         /\ \/ work'[w].pc = "socialCreate"
            \/ /\ work'[w].pc = "link" /\ work'[w].who.vouched /\ work'[w].u \in Existing(users)
               /\ users[work'[w].u].email = work'[w].who.email
<1> DEFINE t1 == [work[w] EXCEPT !.pc = "socialCreate", !.op = "socialNew"]
           t2(u) == [work[w] EXCEPT !.pc = "link", !.u = u]
<1>0. work[w] \in Task
  BY Known
<1>1. t1.pc = "socialCreate" /\ t1.who = work[w].who
  BY <1>0 DEF Task
<1>2. \A u : t2(u).u = u /\ t2(u).who = work[w].who /\ t2(u).pc = "link"
  BY <1>0 DEF Task
<1>3. \/ work' = [work EXCEPT ![w] = t1]
      \/ \E u \in Existing(users) : /\ users[u].email = work[w].who.email
                                    /\ work[w].who.vouched
                                    /\ work' = [work EXCEPT ![w] = t2(u)]
  BY DEF Matches
<1> HIDE DEF t1, t2
<1>4. CASE work' = [work EXCEPT ![w] = t1]
  BY <1>1, <1>4 DEF Typed, WorkOK, Others
<1>5. CASE ~(work' = [work EXCEPT ![w] = t1])
  <2>1. PICK u \in Existing(users) : /\ users[u].email = work[w].who.email
                                     /\ work[w].who.vouched
                                     /\ work' = [work EXCEPT ![w] = t2(u)]
    BY <1>3, <1>5
  <2>2. work'[w] = t2(u) /\ Others(w)
    BY <2>1 DEF Typed, WorkOK, Others
  <2> QED
    BY <1>2, <2>1, <2>2
<1> QED
  BY <1>4, <1>5

LEMMA LinksMove ==
  ASSUME Typed, NEW w \in Workers, Links(w)
  PROVE  Others(w) /\ work'[w].pc = "reload"
<1>1. work[w] \in Task /\ work' = [work EXCEPT ![w] = [work[w] EXCEPT !.pc = "reload"]]
  BY Known DEF Links
<1> QED
  BY <1>1 DEF Typed, WorkOK, Task, Others

LEMMA FoundsMove ==
  ASSUME Typed, NEW w \in Workers, Founds(w)
  PROVE  Others(w) /\ work'[w].pc = "free"
<1>1. /\ work[w] \in Task
      /\ work' = [work EXCEPT ![w] = [work[w] EXCEPT !.pc = "free", !.u = lastUser + 1]]
  BY Known DEF Founds
<1> QED
  BY <1>1 DEF Typed, WorkOK, Task, Others

LEMMA EndowsMove ==
  ASSUME Typed, NEW w \in Workers, Endows(w)
  PROVE  Others(w) /\ work'[w] = Idle /\ work'[w].pc = "idle"
  BY IdleOK DEF Endows, Retires, Typed, WorkOK, Others
-----------------------------------------------------------------------------
(***************************************************************************)
(* Every step is one of these kinds.                                       *)
(***************************************************************************)
WritesCode(w) == VerifyWrite(w) \/ ResendWrite(w) \/ ForgotWrite(w) \/ ResetWrite(w)

Kind ==
  \/ Starts /\ (UNCHANGED <<tokens, kept>> \/ TokensMove)
  \/ Settling /\ SameCodes
  \/ \E w \in Workers : Settling /\ WritesCode(w)
  \/ \E w \in Workers : Matches(w) \/ Links(w) \/ Founds(w) \/ Endows(w)

\* What is answered to a deletion comes from its last statement.
DeletionAnswers ==
  answer'.op = "delete" => \/ \E w \in Workers : DeleteUser(w)
                           \/ UNCHANGED vars

Explained == Typed' /\ Kind /\ DeletionAnswers

LEMMA MintedTyped ==
  ASSUME Typed, NEW w, NEW u, NEW d, Mint(w, u, d)
  PROVE  tokens' \subseteq Token
<1>1. tokens' = Revoke(tokens, {x \in tokens : x.user = u /\ x.device = d})
  BY DEF Mint, RevokeActiveTokensForDevice
<1> QED
  BY <1>1, RevokedTyped DEF Typed, TablesOK

LEMMA PlainStart ==
  ASSUME Typed, StartsPlainly
  PROVE  Explained
<1>1. tokens' \subseteq Token
  BY DEF StartsPlainly, Typed, TablesOK
<1> QED
  BY <1>1, StartsTyped DEF Explained, Kind, StartsPlainly, DeletionAnswers, Answered

LEMMA SignUpKinds ==
  ASSUME Typed, NEW w \in Workers, SignUp(w)
  PROVE  Explained
<1>1. CASE \E e \in Addresses, pw \in Passwords : Register(w, e, pw)
  BY <1>1, RegisterStarts, PlainStart
<1>2. CASE RegisterCreate(w)
  BY <1>2, RegisterCreateDoes DEF Explained, Kind, DeletionAnswers, Answered
<1>3. CASE CreateFree(w)
  BY <1>3, CreateFreeDoes DEF Explained, Kind, DeletionAnswers, Answered
<1>4. CASE \E u \in Ids, old, new \in Passwords : ChangePassword(w, u, old, new)
  BY <1>4, ChangePasswordStarts, PlainStart
<1>5. CASE ChangeWrite(w)
  BY <1>5, ChangeWriteDoes DEF Explained, Kind, DeletionAnswers, Answered
<1> QED
  BY <1>1, <1>2, <1>3, <1>4, <1>5 DEF SignUp

LEMMA CodesKinds ==
  ASSUME Typed, NEW w \in Workers, Codes(w)
  PROVE  Explained
<1>1. CASE \E e \in Addresses, c \in Guesses : VerifyEmail(w, e, c)
  BY <1>1, VerifyEmailStarts, PlainStart
<1>2. CASE \E e \in Addresses : ResendVerification(w, e)
  BY <1>2, ResendVerificationStarts, PlainStart
<1>3. CASE \E e \in Addresses : ForgotPassword(w, e)
  BY <1>3, ForgotPasswordStarts, PlainStart
<1>4. CASE \E e \in Addresses, c \in Guesses, pw \in Passwords : ResetPassword(w, e, c, pw)
  BY <1>4, ResetPasswordStarts, PlainStart
<1>5. CASE VerifyWrite(w)
  BY <1>5, VerifyWriteDoes DEF Explained, Kind, DeletionAnswers, Answered, WritesCode
<1>6. CASE ResendWrite(w)
  BY <1>6, ResendWriteDoes DEF Explained, Kind, DeletionAnswers, Answered, WritesCode
<1>7. CASE ForgotWrite(w)
  BY <1>7, ForgotWriteDoes DEF Explained, Kind, DeletionAnswers, Answered, WritesCode
<1>8. CASE ResetWrite(w)
  BY <1>8, ResetWriteDoes DEF Explained, Kind, DeletionAnswers, Answered, WritesCode
<1> QED
  BY <1>1, <1>2, <1>3, <1>4, <1>5, <1>6, <1>7, <1>8 DEF Codes

LEMMA SocialSteps ==
  ASSUME Typed, NEW w \in Workers, Social(w)
  PROVE  Explained
<1>1. CASE \E who \in Identities : SocialLogin(w, who)
  BY <1>1, SocialLoginStarts, PlainStart
<1>2. CASE SocialByEmail(w)
  BY <1>2, SocialByEmailDoes DEF Explained, Kind, DeletionAnswers, Answered
<1>3. CASE SocialLink(w)
  BY <1>3, SocialLinkDoes DEF Explained, Kind, DeletionAnswers, Answered
<1>4. CASE SocialReload(w)
  BY <1>4, SocialReloadDoes DEF Explained, Kind, DeletionAnswers, Answered
<1>5. CASE SocialCreate(w)
  BY <1>5, SocialCreateDoes DEF Explained, Kind, DeletionAnswers, Answered
<1> QED
  BY <1>1, <1>2, <1>3, <1>4, <1>5 DEF Social

LEMMA DeletionKinds ==
  ASSUME Typed, NEW w \in Workers, Deletion(w)
  PROVE  Explained
<1>1. CASE \E u \in Ids : DeleteAccount(w, u)
  BY <1>1, DeleteAccountStarts, PlainStart
<1>2. CASE Sweep(w)
  BY <1>2, SweepDoes DEF Explained, Kind, DeletionAnswers, Answered
<1>3. CASE DeleteUser(w)
  BY <1>3, DeleteUserDoes DEF Explained, Kind, DeletionAnswers
<1> QED
  BY <1>1, <1>2, <1>3 DEF Deletion

LEMMA DeviceKinds ==
  ASSUME Typed, NEW w \in Workers, Device(w)
  PROVE  Explained
<1>1. CASE \E u \in Ids, d \in Devices : Mint(w, u, d)
  <2>1. PICK u \in Ids, d \in Devices : Mint(w, u, d)
    BY <1>1
  <2>2. Starts /\ tokens' \subseteq Token
    BY <2>1, MintStarts, MintedTyped
  <2> QED
    BY <2>1, <2>2, StartsTyped DEF Explained, Kind, DeletionAnswers, Answered, TokensMove
<1>2. CASE MintInsert(w)
  BY <1>2, MintInsertDoes DEF Explained, Kind, DeletionAnswers, Answered
<1>3. CASE \E u \in Ids, f \in {"job", "notes"}, t \in Texts : PutProfile(w, u, f, t)
  BY <1>3, PutProfileStarts, PlainStart
<1>4. CASE ProfileUpsert(w)
  BY <1>4, ProfileUpsertDoes DEF Explained, Kind, DeletionAnswers, Answered
<1> QED
  BY <1>1, <1>2, <1>3, <1>4 DEF Device

LEMMA SingleKinds ==
  ASSUME Typed, Single
  PROVE  Explained
<1>1. CASE \E e \in Addresses, pw \in Passwords : Login(e, pw)
  BY <1>1, LoginStarts, PlainStart
<1>2. CASE \E u \in Ids : Refresh(u)
  BY <1>2, RefreshStarts, PlainStart
<1>3. CASE \E u \in Ids : DeleteProfile(u)
  BY <1>3, DeleteProfileDoes DEF Explained, Kind, DeletionAnswers, Answered
<1>4. CASE \E u \in Existing(users), on \in BOOLEAN : AdminUpdate(u, on)
  BY <1>4, AdminUpdateDoes DEF Explained, Kind, DeletionAnswers, Answered
<1>5. CASE \E u \in Ids, t \in Tables : InsertRow(u, t)
  BY <1>5, InsertRowDoes DEF Explained, Kind, DeletionAnswers, Answered
<1>6. CASE \E u \in Ids, x \in tokens : RevokeToken(u, x.n)
  BY <1>6, RevokeTokenDoes DEF Explained, Kind, DeletionAnswers, Answered
<1>7. CASE \E k \in Keys : Rekey(k)
  BY <1>7, RekeyDoes DEF Explained, Kind, DeletionAnswers, Answered
<1>8. CASE Tick
  BY <1>8, TickDoes DEF Explained, Kind, DeletionAnswers, Answered
<1> QED
  BY <1>1, <1>2, <1>3, <1>4, <1>5, <1>6, <1>7, <1>8 DEF Single

LEMMA Stuttering ==
  ASSUME Typed, UNCHANGED vars
  PROVE  Explained
<1>1. /\ work' = work /\ requests' = requests /\ answer' = answer /\ alone' = alone
      /\ UNCHANGED <<envVars, tableVars, idVars, sentVars, observerVars>>
  BY DEF vars
<1>2. /\ users' = users /\ Beside /\ UNCHANGED <<mailed, spent, tries, proven>>
  BY <1>1 DEF envVars, tableVars, idVars, sentVars, observerVars, Beside
<1>3. SameAccounts
  BY <1>2, SameUsers
<1>4. SameCodes
  BY <1>2 DEF SameCodes
<1>5. Settles /\ \A v \in Workers : work[v].pc = "free" => work'[v] = work[v]
  BY <1>1, StillSettles
<1>6. Typed' /\ Settling
  BY <1>1, <1>2, <1>3, <1>5, RowStep DEF Typed, CountsOK, ObservedOK
<1> QED
  BY <1>4, <1>6 DEF Explained, Kind, DeletionAnswers

LEMMA EveryStep ==
  ASSUME Typed, [Next]_vars
  PROVE  Explained
<1>1. CASE Single
  BY <1>1, SingleKinds
<1>2. ASSUME NEW w \in Workers, \/ SignUp(w) \/ Codes(w) \/ Social(w) \/ Deletion(w)
                                \/ Device(w) \/ Abort(w)
      PROVE  Explained
  <2>1. CASE Abort(w)
    BY <2>1, AbortDoes DEF Explained, Kind, DeletionAnswers, Answered
  <2> QED
    BY <1>2, <2>1, SignUpKinds, CodesKinds, SocialSteps, DeletionKinds, DeviceKinds
<1> QED
  BY <1>1, <1>2, Stuttering DEF Next

LEMMA InitTyped == Init => Typed
<1> SUFFICES ASSUME Init PROVE Typed
  OBVIOUS
<1>1. TablesOK /\ EmailsOK
  BY DEF Init, TablesOK, EmailsOK, Existing
<1>2. WorkOK /\ \A w \in Workers : work[w] = Idle
  BY IdleOK DEF Init, WorkOK
<1>3. CountsOK
  BY Constants, TextAssumption DEF Init, CountsOK, NoAnswer
<1>4. ObservedOK
  BY DEF Init, ObservedOK
<1>5. RoomOK
  <2>1. Founders = {}
    BY <1>2, IdleOK DEF Founders, Founding
  <2>2. Cardinality({}) = 0
    BY FS_EmptySet
  <2> QED
    BY <2>1, <2>2, Constants DEF Init, RoomOK
<1> QED
  BY <1>1, <1>2, <1>3, <1>4, <1>5 DEF Typed

THEOREM AccountsTyped == Spec => []Typed
<1>1. Typed /\ [Next]_vars => Typed'
  BY EveryStep DEF Explained
<1> QED
  BY <1>1, InitTyped, PTL DEF Spec

\* The tables, the requests in flight and the counters are well formed,
\* whatever requests come and however they overlap.
THEOREM AccountTypes == Spec => []TypeOK
<1>1. Typed => TypeOK
  <2> SUFFICES ASSUME Typed PROVE TypeOK
    OBVIOUS
  <2>1. \A w \in Workers : /\ DOMAIN work[w] = DOMAIN Idle
                           /\ work[w].pc \in Pc /\ work[w].u \in Ids \cup {0}
                           /\ work[w].row \in User \cup {NoRow}
                           /\ work[w].stage \in 0..8
    BY TaskIs DEF Typed, WorkOK
  <2> QED
    BY <2>1 DEF Typed, TablesOK, CountsOK, TypeOK, Owned
<1> QED
  BY <1>1, AccountsTyped, PTL
-----------------------------------------------------------------------------
(***************************************************************************)
(* Extension tokens.                                                       *)
(***************************************************************************)
LEMMA KeptStays ==
  ASSUME Typed, MintedTokenWorks, Kind
  PROVE  MintedTokenWorks'
<1>0. \A n \in kept : \E x \in tokens : x.n = n /\ ~x.revoked
  BY DEF MintedTokenWorks, Verify, FindActiveTokenByHash
<1>1. \A T, R : Revoke(T, R) = (T \ R) \cup {[x EXCEPT !.revoked = TRUE] : x \in R}
  BY DEF Revoke
<1> SUFFICES \A n \in kept' : \E x \in tokens' : x.n = n /\ ~x.revoked
  BY DEF MintedTokenWorks, Verify, FindActiveTokenByHash
<1>2. CASE UNCHANGED <<tokens, kept>>
  BY <1>0, <1>2
<1>3. CASE \E w \in Workers, u \in Ids, d \in Devices : Mint(w, u, d)
  <2>1. PICK u \in Ids, d \in Devices :
          /\ tokens' = Revoke(tokens, {x \in tokens : x.user = u /\ x.device = d})
          /\ kept' = {n \in kept : \A x \in tokens : x.n = n => x.user # u \/ x.device # d}
    BY <1>3 DEF Mint, RevokeActiveTokensForDevice
  <2> QED
    BY <1>0, <1>1, <2>1
<1>4. CASE \E w \in Workers : MintInsert(w)
  <2>1. PICK w \in Workers : MintInsert(w)
    BY <1>4
  <2> DEFINE new == [user |-> work[w].u, device |-> work[w].device, n |-> lastRow + 1,
                     revoked |-> FALSE]
  <2>2. \/ tokens' = tokens \cup {new} /\ kept' = kept \cup {lastRow + 1}
        \/ tokens' = tokens /\ kept' = kept
    BY <2>1 DEF MintInsert
  <2>3. new.n = lastRow + 1 /\ ~new.revoked
    OBVIOUS
  <2> HIDE DEF new
  <2> QED
    BY <1>0, <2>2, <2>3
<1>5. CASE \E w \in Workers : DeleteUser(w)
  <2>1. PICK w \in Workers : DeleteUser(w)
    BY <1>5
  <2>2. \/ /\ tokens' = {x \in tokens : x.user # work[w].u}
           /\ kept' = {n \in kept : \A x \in tokens : x.n = n => x.user # work[w].u}
        \/ tokens' = tokens /\ kept' = kept
    BY <2>1 DEF DeleteUser
  <2> QED
    BY <1>0, <2>2
<1>6. CASE \E u \in Ids, x \in tokens : RevokeToken(u, x.n)
  <2>1. PICK u \in Ids, y \in tokens : RevokeToken(u, y.n)
    BY <1>6
  <2>2. /\ tokens' = Revoke(tokens, {x \in tokens : x.n = y.n /\ x.user = u})
        /\ kept' = {k \in kept : \A x \in tokens : x.n = k /\ x.user = u => k # y.n}
    BY <2>1 DEF RevokeToken, RevokeTokenByID
  <2> QED
    BY <1>0, <1>1, <2>2
<1>7. UNCHANGED <<tokens, kept>> \/ TokensMove
  BY DEF Kind, Settling, Matches, Links, Founds, Endows, WritesCode
<1> QED
  BY <1>2, <1>3, <1>4, <1>5, <1>6, <1>7 DEF TokensMove

\* A token handed to a device works until the device gets another, it is
\* revoked or the account is deleted, whatever mints and revocations overlap.
THEOREM MintedTokensWork == Spec => []MintedTokenWorks
<1>1. Init => MintedTokenWorks
  BY DEF Init, MintedTokenWorks
<1>2. Typed /\ MintedTokenWorks /\ [Next]_vars => MintedTokenWorks'
  BY EveryStep, KeptStays DEF Explained
<1> QED
  BY <1>1, <1>2, AccountsTyped, PTL DEF Spec
-----------------------------------------------------------------------------
(***************************************************************************)
(* The free plan.                                                          *)
(***************************************************************************)
LEMMA RowsLost ==
  ASSUME Typed, NEW w \in Workers, DeleteUser(w)
  PROVE  \/ rows' = rows /\ tokens' = tokens
         \/ /\ users' = [users EXCEPT ![work[w].u] = NoRow] /\ work[w].u \notin Existing(users')
            /\ rows' = {x \in rows : x.user # work[w].u}
            /\ tokens' = {x \in tokens : x.user # work[w].u}
  BY DEF DeleteUser, Typed, TablesOK, Existing

LEMMA PlanStays ==
  ASSUME Typed, AccountHasPlan, Kind
  PROVE  AccountHasPlan'
<1> SUFFICES ASSUME aborts' = 0, NEW u \in Existing(users')
             PROVE  \/ \E x \in rows' : x.user = u /\ x.table = "subscriptions"
                    \/ \E w \in Workers : work'[w].pc = "free" /\ work'[w].u = u
  BY DEF AccountHasPlan
<1> DEFINE Has(v) == \/ \E x \in rows : x.user = v /\ x.table = "subscriptions"
                     \/ \E w \in Workers : work[w].pc = "free" /\ work[w].u = v
<1>0. u \in Ids /\ (aborts = 0 => \A v \in Existing(users) : Has(v))
  BY DEF AccountHasPlan, Existing
<1>1. CASE Starts
  <2>1. users' = users /\ rows' = rows /\ aborts' = aborts
    BY <1>1 DEF Starts, envVars
  <2>2. \A v \in Workers : work[v].pc = "free" => work'[v] = work[v]
    BY <1>1, IdleOK DEF Starts, Opens, Typed, WorkOK
  <2> QED
    BY <1>0, <2>1, <2>2
<1>2. CASE Settling
  <2>1. u \in Existing(users) /\ aborts = 0
        /\ \A v \in Workers : work[v].pc = "free" => work'[v] = work[v]
    BY <1>2 DEF Settling, SameAccounts
  <2>2. CASE rows \subseteq rows'
    BY <1>0, <2>1, <2>2
  <2>3. CASE \E w \in Workers : DeleteUser(w)
    BY <1>0, <2>1, <2>3, RowsLost
  <2> QED
    BY <1>2, <2>2, <2>3 DEF Settling
<1>3. ASSUME NEW w \in Workers, Matches(w)
      PROVE  \/ \E x \in rows' : x.user = u /\ x.table = "subscriptions"
             \/ \E v \in Workers : work'[v].pc = "free" /\ work'[v].u = u
  <2>1. users' = users /\ rows' = rows /\ aborts' = aborts /\ work[w].pc = "byEmail"
    BY <1>3 DEF Matches
  <2>2. \A v \in Workers : work[v].pc = "free" => work'[v] = work[v]
    BY <1>3, <2>1 DEF Matches, Typed, WorkOK
  <2> QED
    BY <1>0, <2>1, <2>2
<1>4. ASSUME NEW w \in Workers, Links(w)
      PROVE  \/ \E x \in rows' : x.user = u /\ x.table = "subscriptions"
             \/ \E v \in Workers : work'[v].pc = "free" /\ work'[v].u = u
  <2>1. rows' = rows /\ aborts' = aborts /\ work[w].pc = "link"
    BY <1>4 DEF Links
  <2>2. \A v \in Workers : work[v].pc = "free" => work'[v] = work[v]
    BY <1>4, <2>1 DEF Links, Typed, WorkOK
  <2>3. u \in Existing(users)
    BY <1>4 DEF Links, Write, Existing, Typed, TablesOK
  <2> QED
    BY <1>0, <2>1, <2>2, <2>3
<1>5. ASSUME NEW w \in Workers, Founds(w)
      PROVE  \/ \E x \in rows' : x.user = u /\ x.table = "subscriptions"
             \/ \E v \in Workers : work'[v].pc = "free" /\ work'[v].u = u
  <2>1. /\ rows' = rows /\ aborts' = aborts /\ work[w].pc # "free"
        /\ users' = [users EXCEPT ![lastUser + 1] = NewRow(w)]
    BY <1>5 DEF Founds
  <2>2. /\ \A v \in Workers : work[v].pc = "free" => work'[v] = work[v]
        /\ work'[w].pc = "free" /\ work'[w].u = lastUser + 1
    <3>1. work' = [work EXCEPT ![w] = [work[w] EXCEPT !.pc = "free", !.u = lastUser + 1]]
      BY <1>5 DEF Founds
    <3>2. work[w] \in Task
      BY Known
    <3> QED
      BY <2>1, <3>1, <3>2 DEF Typed, WorkOK, Task
  <2>3. u = lastUser + 1 \/ u \in Existing(users)
    BY <2>1 DEF Existing, Typed, TablesOK
  <2> QED
    BY <1>0, <2>1, <2>2, <2>3
<1>6. ASSUME NEW w \in Workers, Endows(w)
      PROVE  \/ \E x \in rows' : x.user = u /\ x.table = "subscriptions"
             \/ \E v \in Workers : work'[v].pc = "free" /\ work'[v].u = u
  <2>1. /\ users' = users /\ rows \subseteq rows' /\ aborts' = aborts
        /\ work[w].u \in Existing(users) =>
             \E x \in rows' : x.user = work[w].u /\ x.table = "subscriptions"
    BY <1>6 DEF Endows
  <2>2. \A v \in Workers \ {w} : work'[v] = work[v]
    BY <1>6 DEF Endows, Retires, Typed, WorkOK
  <2> QED
    BY <1>0, <2>1, <2>2
<1> QED
  BY <1>1, <1>2, <1>3, <1>4, <1>5, <1>6 DEF Kind

\* As long as no request is cut short, every account has a subscription row as
\* soon as the request that made it is over, whatever other requests do to the
\* account and its rows meanwhile.
THEOREM AccountsHavePlans == Spec => []AccountHasPlan
<1>1. Init => AccountHasPlan
  BY DEF Init, AccountHasPlan, Existing
<1>2. Typed /\ AccountHasPlan /\ [Next]_vars => AccountHasPlan'
  BY EveryStep, PlanStays DEF Explained
<1> QED
  BY <1>1, <1>2, AccountsTyped, PTL DEF Spec
-----------------------------------------------------------------------------
(***************************************************************************)
(* Identities and their accounts.                                          *)
(***************************************************************************)

\* A sign-in about to link was vouched for, and an account it found keeps the
\* address it was found by as long as it exists: ids are not used again.
LinkersOK ==
  \A w \in Workers : work[w].pc = "link" =>
    /\ work[w].who.vouched /\ work[w].u <= lastUser
    /\ work[w].u \in Existing(users) => users[work[w].u].email = work[w].who.email

IdsSpent == \A u \in Existing(users) : u <= lastUser

LEMMA LinkersStay ==
  ASSUME Typed, Typed', LinkersOK, IdsSpent, Kind
  PROVE  LinkersOK' /\ IdsSpent'
<1>0. lastUser \in Nat /\ \A w \in Workers : work[w] \in Task
  BY Known DEF Typed, CountsOK
<1>1. CASE Starts
  <2>1. users' = users /\ lastUser' = lastUser
    BY <1>1 DEF Starts
  <2>2. \A v \in Workers : work'[v].pc = "link" => work'[v] = work[v]
    BY <1>1 DEF Starts, Opens, Opening, Typed, WorkOK
  <2> QED
    BY <2>1, <2>2 DEF LinkersOK, IdsSpent
<1>2. CASE Settling
  <2>1. lastUser' = lastUser /\ SameAccounts
    BY <1>2 DEF Settling
  <2>2. \A v \in Workers : work'[v].pc = "link" => work'[v] = work[v]
    BY <1>2, IdleOK DEF Settling, Settles
  <2> QED
    BY <2>1, <2>2 DEF LinkersOK, IdsSpent, SameAccounts
<1>3. ASSUME NEW w \in Workers, Matches(w)
      PROVE  LinkersOK' /\ IdsSpent'
  <2>1. users' = users /\ lastUser' = lastUser
    BY <1>3 DEF Matches
  <2>2. \A v \in Workers \ {w} : work'[v] = work[v]
    BY <1>3, MatchesMove DEF Others
  <2>3. work'[w].pc = "link" =>
          /\ work'[w].who.vouched /\ work'[w].u \in Existing(users)
          /\ users[work'[w].u].email = work'[w].who.email
    BY <1>3, MatchesMove
  <2> QED
    BY <2>1, <2>2, <2>3 DEF LinkersOK, IdsSpent
<1>4. ASSUME NEW w \in Workers, Links(w)
      PROVE  LinkersOK' /\ IdsSpent'
  <2> DEFINE x == work[w].u
             r == LinkSocial(users[x], work[w].who.kind, work[w].who.id)
  <2>1. lastUser' = lastUser /\ Write(x, r) /\ work[w].pc = "link"
    BY <1>4 DEF Links
  <2>2. work'[w].pc = "reload" /\ \A v \in Workers \ {w} : work'[v] = work[v]
    BY <1>4, LinksMove DEF Others
  <2>3. x \in Ids /\ work[w].who \in Identities
    BY <2>1, Known DEF ForUser, TaskOK, Signing
  <2>4. x \in Existing(users) => r.email = users[x].email
    <3>1. x \in Existing(users) => users[x] \in User
      BY <2>3 DEF Typed, TablesOK, Existing
    <3> QED
      BY <2>3, <3>1, IdentityFields, LinkedRow
  <2> HIDE DEF r
  <2>5. \A u \in Existing(users') : u \in Existing(users) /\ users'[u].email = users[u].email
    BY <2>1, <2>3, <2>4 DEF Write, Existing, Typed, TablesOK
  <2> QED
    BY <2>1, <2>2, <2>5 DEF LinkersOK, IdsSpent
<1>5. ASSUME NEW w \in Workers, Founds(w)
      PROVE  LinkersOK' /\ IdsSpent'
  <2>1. lastUser' = lastUser + 1 /\ users' = [users EXCEPT ![lastUser + 1] = NewRow(w)]
    BY <1>5 DEF Founds
  <2>2. work'[w].pc = "free" /\ \A v \in Workers \ {w} : work'[v] = work[v]
    BY <1>5, FoundsMove DEF Others
  <2>3. \A u \in Ids : u # lastUser + 1 => users'[u] = users[u]
    BY <2>1 DEF Typed, TablesOK
  <2>4. \A v \in Workers : work[v].pc = "link" => work[v].u \in Nat
    BY Known, Constants DEF ForUser
  <2>5. \A u \in Ids : u \in Nat
    BY Constants
  <2> QED
    BY <1>0, <2>1, <2>2, <2>3, <2>4, <2>5 DEF LinkersOK, IdsSpent, Existing
<1>6. ASSUME NEW w \in Workers, Endows(w)
      PROVE  LinkersOK' /\ IdsSpent'
  <2>1. users' = users /\ lastUser' = lastUser
    BY <1>6 DEF Endows
  <2>2. \A v \in Workers : work'[v].pc = "link" => work'[v] = work[v]
    BY <1>6, IdleOK DEF Endows, Retires, Typed, WorkOK
  <2> QED
    BY <2>1, <2>2 DEF LinkersOK, IdsSpent
<1> QED
  BY <1>1, <1>2, <1>3, <1>4, <1>5, <1>6 DEF Kind

\* What vouches for identity s on account u whose row is r.
Vouched(V, u, r, s) ==
  \E v \in V : /\ v[1] = u /\ v[2].kind = s[1] /\ v[2].id = s[2] /\ v[2].email = r.email
               /\ v[2].vouched \/ r.provider = v[2].kind

LEMMA VouchedStays ==
  ASSUME Typed, LinkersOK, LinkIsVouched, Kind
  PROVE  LinkIsVouched'
<1>0. \A u \in Existing(users) : \A s \in users[u].social : Vouched(vouches, u, users[u], s)
  BY DEF LinkIsVouched, Vouched
<1> SUFFICES ASSUME NEW u \in Existing(users'), NEW s \in users'[u].social
             PROVE  Vouched(vouches', u, users'[u], s)
  BY DEF LinkIsVouched, Vouched
<1>1. CASE Starts
  BY <1>0, <1>1 DEF Starts
<1>2. CASE Settling
  <2>1. /\ u \in Existing(users) /\ s \in users[u].social /\ vouches' = vouches
        /\ users'[u].email = users[u].email /\ users'[u].provider = users[u].provider
    BY <1>2 DEF Settling, SameAccounts
  <2> QED
    BY <1>0, <2>1 DEF Vouched
<1>3. ASSUME NEW w \in Workers, Matches(w)
      PROVE  Vouched(vouches', u, users'[u], s)
  BY <1>0, <1>3 DEF Matches
<1>4. ASSUME NEW w \in Workers, Links(w)
      PROVE  Vouched(vouches', u, users'[u], s)
  <2> DEFINE x == work[w].u
             who == work[w].who
             r == LinkSocial(users[x], who.kind, who.id)
  <2>1. Write(x, r) /\ work[w].pc = "link" /\ vouches' = vouches \cup {<<x, who>>}
    BY <1>4 DEF Links, Vouch
  <2>2. x \in Ids /\ who \in Identities
    BY <2>1, Known DEF ForUser, TaskOK, Signing
  <2>3. who.vouched /\ (x \in Existing(users) => users[x].email = who.email)
    BY <2>1 DEF LinkersOK
  <2>4. x \in Existing(users) =>
          /\ r.email = users[x].email /\ r.provider = users[x].provider
          /\ \A y \in r.social : y \in users[x].social \/ y = <<who.kind, who.id>>
    <3>1. x \in Existing(users) => users[x] \in User
      BY <2>2 DEF Typed, TablesOK, Existing
    <3>2. who.kind \in SocialKinds /\ who.id \in SocialIds
      BY <2>2, IdentityFields
    <3>3. SUFFICES ASSUME x \in Existing(users)
                   PROVE  /\ r.email = users[x].email /\ r.provider = users[x].provider
                          /\ \A y \in r.social :
                               y \in users[x].social \/ y = <<who.kind, who.id>>
      OBVIOUS
    <3>4. users[x] \in User
      BY <3>1, <3>3
    <3>5. r.email = users[x].email /\ r.provider = users[x].provider
      BY <3>2, <3>4, LinkedRow
    <3>6. ASSUME NEW y \in r.social
          PROVE  y \in users[x].social \/ y = <<who.kind, who.id>>
      BY <3>4, <3>6, LinkedSocial
    <3> HIDE DEF x, who, r
    <3> QED
      BY <3>5, <3>6
  <2> HIDE DEF r
  <2>5. CASE u = x /\ x \in Existing(users)
    <3>1. users'[u] = r
      BY <2>1, <2>2, <2>5 DEF Write, Typed, TablesOK
    <3>2. CASE s \in users[u].social
      <4>1. Vouched(vouches, u, users[u], s)
        BY <1>0, <2>5, <3>2
      <4> QED
        BY <2>1, <2>4, <2>5, <3>1, <4>1 DEF Vouched
    <3>3. CASE s = <<who.kind, who.id>>
      <4>1. <<x, who>> \in vouches'
        BY <2>1
      <4> QED
        BY <2>3, <2>4, <2>5, <3>1, <3>3, <4>1 DEF Vouched
    <3> QED
      BY <2>4, <2>5, <3>1, <3>2, <3>3
  <2>6. CASE ~(u = x /\ x \in Existing(users))
    <3>1. u \in Existing(users) /\ users'[u] = users[u]
      BY <2>1, <2>2, <2>6 DEF Write, Existing, Typed, TablesOK
    <3>2. Vouched(vouches, u, users[u], s)
      BY <1>0, <3>1
    <3> QED
      BY <2>1, <3>1, <3>2 DEF Vouched
  <2> QED
    BY <2>5, <2>6
<1>5. ASSUME NEW w \in Workers, Founds(w)
      PROVE  Vouched(vouches', u, users'[u], s)
  <2> DEFINE who == work[w].who
             r == NewRow(w)
  <2>1. /\ users' = [users EXCEPT ![lastUser + 1] = r] /\ lastUser + 1 \in Ids
        /\ work[w].pc \in {"create", "socialCreate"}
        /\ IF work[w].pc = "create" THEN vouches' = vouches
           ELSE vouches' = vouches \cup {<<lastUser + 1, who>>}
    BY <1>5 DEF Founds, Vouch
  <2>2. CASE u = lastUser + 1
    <3>1. users'[u] = r
      BY <2>1, <2>2 DEF Typed, TablesOK
    <3>2. work[w].pc = "create" => r.social = {}
      BY DEF NewRow, CreateUser
    <3>3. work[w].pc = "socialCreate" =>
            /\ r.social = {<<who.kind, who.id>>} /\ r.email = who.email /\ r.provider = who.kind
      BY DEF NewRow, CreateUser
    <3> HIDE DEF r
    <3>4. work[w].pc = "socialCreate"
      BY <2>1, <3>1, <3>2
    <3>5. <<u, who>> \in vouches' /\ s = <<who.kind, who.id>>
      BY <2>1, <2>2, <3>1, <3>3, <3>4
    <3> QED
      BY <3>1, <3>3, <3>4, <3>5 DEF Vouched
  <2>3. CASE u # lastUser + 1
    <3>1. u \in Existing(users) /\ users'[u] = users[u]
      BY <2>1, <2>3 DEF Existing, Typed, TablesOK
    <3>2. Vouched(vouches, u, users[u], s)
      BY <1>0, <3>1
    <3> QED
      BY <2>1, <3>1, <3>2 DEF Vouched
  <2> QED
    BY <2>2, <2>3
<1>6. ASSUME NEW w \in Workers, Endows(w)
      PROVE  Vouched(vouches', u, users'[u], s)
  BY <1>0, <1>6 DEF Endows
<1> QED
  BY <1>1, <1>2, <1>3, <1>4, <1>5, <1>6 DEF Kind

LEMMA LinksInvariant == Spec => [](LinkersOK /\ IdsSpent)
<1>1. Init => LinkersOK /\ IdsSpent
  BY IdleOK DEF Init, LinkersOK, IdsSpent, Existing
<1>2. Typed /\ LinkersOK /\ IdsSpent /\ [Next]_vars => LinkersOK' /\ IdsSpent'
  BY EveryStep, LinkersStay DEF Explained
<1> QED
  BY <1>1, <1>2, AccountsTyped, PTL DEF Spec

\* An identity sits on an account only because the account was created by it,
\* or its provider vouched for the address of the account; also when accounts
\* come, go and are linked between the look-up and the write.
THEOREM LinksAreVouched == Spec => []LinkIsVouched
<1>1. Init => LinkIsVouched
  BY DEF Init, LinkIsVouched, Existing
<1>2. Typed /\ LinkersOK /\ LinkIsVouched /\ [Next]_vars => LinkIsVouched'
  BY EveryStep, VouchedStays DEF Explained
<1> QED
  BY <1>1, <1>2, AccountsTyped, LinksInvariant, PTL DEF Spec
-----------------------------------------------------------------------------
(***************************************************************************)
(* Verification codes.                                                     *)
(***************************************************************************)

\* A request holds a code that nobody was mailed yet.
Drawn(t) == t.pc \in {"create", "resend", "forgot"} \/ (t.pc = "free" /\ t.op = "register")

\* A code is mailed for one account, the one whose row has it; a code not yet
\* mailed is in one request, and in no row but the one that request inserted.
MailedOK == mailed \subseteq (1..lastCode) \X Ids
StoredOK ==
  \A u \in Existing(users) : /\ users[u].vcode.n <= lastCode
                             /\ \A m \in mailed : users[u].vcode.n = m[1] => m[2] = u
DrawnOK ==
  \A w \in Workers : Drawn(work[w]) =>
    /\ work[w].code.n \in 1..lastCode
    /\ \A m \in mailed : m[1] # work[w].code.n
    /\ \A v \in Workers : Drawn(work[v]) /\ work[v].code.n = work[w].code.n => v = w
    /\ \A u \in Existing(users) :
         users[u].vcode.n = work[w].code.n => work[w].pc = "free" /\ work[w].u = u

CodesOK == MailedOK /\ StoredOK /\ DrawnOK

\* Nothing is drawn or mailed, no row gets a code, and requests that hold one keep it or end.
LEMMA CodesKept ==
  ASSUME Typed, CodesOK, mailed' = mailed, lastCode' = lastCode,
         \A u \in Existing(users') :
           /\ u \in Existing(users)
           /\ users'[u].vcode = users[u].vcode \/ users'[u].vcode = NoCode,
         \A v \in Workers : Drawn(work'[v]) => work'[v] = work[v]
  PROVE  CodesOK'
<1> USE DEF CodesOK
<1>1. MailedOK'
  BY DEF MailedOK
<1>2. \A m \in mailed : m[1] >= 1 /\ m[1] \in Nat
  <2>1. \A m \in mailed : m[1] \in 1..lastCode
    BY DEF MailedOK
  <2> QED
    BY <2>1
<1>3. StoredOK'
  <2> SUFFICES ASSUME NEW u \in Existing(users')
               PROVE  /\ users'[u].vcode.n <= lastCode
                      /\ \A m \in mailed : users'[u].vcode.n = m[1] => m[2] = u
    BY DEF StoredOK
  <2>1. CASE users'[u].vcode = users[u].vcode
    BY <2>1 DEF StoredOK
  <2>2. CASE users'[u].vcode = NoCode
    <3>1. lastCode >= 0
      BY DEF Typed, CountsOK
    <3> QED
      BY <1>2, <2>2, <3>1, NoCodeIsCode
  <2> QED
    BY <2>1, <2>2
<1>4. DrawnOK'
  BY NoCodeIsCode DEF DrawnOK
<1> QED
  BY <1>1, <1>3, <1>4

LEMMA CodesStayStarts ==
  ASSUME Typed, Typed', CodesOK, Starts
  PROVE  CodesOK'
<1>1. /\ mailed' = mailed /\ users' = users /\ lastCode \in Nat /\ lastCode' \in Nat
      /\ lastCode <= lastCode'
  BY DEF Starts, Typed, CountsOK
<1>2. CASE work' = work
  <2>1. MailedOK' /\ StoredOK'
    <3>1. \A u \in Existing(users) : users[u].vcode.n \in Nat
      BY UserFields, CodeFields DEF Typed, TablesOK, Existing
    <3> QED
      BY <1>1, <3>1 DEF CodesOK, MailedOK, StoredOK
  <2>2. DrawnOK'
    BY <1>1, <1>2 DEF CodesOK, DrawnOK
  <2> QED
    BY <2>1, <2>2 DEF CodesOK
<1>3. CASE \E t \in Task : Opening(t) /\ Opens(t)
  <2>1. PICK t \in Task : Opening(t) /\ Opens(t)
    BY <1>3
  <2>2. PICK w \in Workers : work[w] = Idle /\ work' = [work EXCEPT ![w] = t]
    BY <2>1 DEF Opens
  <2>3. MailedOK' /\ StoredOK'
    <3>1. \A u \in Existing(users) : users[u].vcode.n \in Nat
      BY UserFields, CodeFields DEF Typed, TablesOK, Existing
    <3> QED
      BY <1>1, <3>1 DEF CodesOK, MailedOK, StoredOK
  <2>4. work'[w] = t /\ \A v \in Workers \ {w} : work'[v] = work[v]
    BY <2>2 DEF Typed, WorkOK
  <2>5. Drawn(t) => t.code.n = lastCode + 1 /\ lastCode' = lastCode + 1
    BY <2>1 DEF Opening, Drawn
  <2>6. \A m \in mailed : m[1] \in Nat /\ m[1] <= lastCode
    BY <1>1 DEF CodesOK, MailedOK
  <2>7. \A u \in Existing(users) : users[u].vcode.n \in Nat /\ users[u].vcode.n <= lastCode
    BY UserFields, CodeFields DEF Typed, TablesOK, Existing, CodesOK, StoredOK
  <2>8. \A v \in Workers : Drawn(work[v]) => work[v].code.n \in Nat /\ work[v].code.n <= lastCode
                                               /\ work[v].code.n >= 1
    BY <1>1 DEF CodesOK, DrawnOK
  <2>9. DrawnOK'
    <3> SUFFICES ASSUME NEW v \in Workers, Drawn(work'[v])
                 PROVE  /\ work'[v].code.n \in 1..lastCode'
                        /\ \A m \in mailed : m[1] # work'[v].code.n
                        /\ \A x \in Workers : Drawn(work'[x]) /\ work'[x].code.n = work'[v].code.n
                                                => x = v
                        /\ \A u \in Existing(users) :
                             users[u].vcode.n = work'[v].code.n
                               => work'[v].pc = "free" /\ work'[v].u = u
      BY <1>1 DEF DrawnOK
    <3>1. CASE v = w
      BY <1>1, <2>4, <2>5, <2>6, <2>7, <2>8, <3>1
    <3>2. CASE v # w
      BY <1>1, <2>4, <2>5, <2>8, <3>2 DEF CodesOK, DrawnOK
    <3> QED
      BY <3>1, <3>2
  <2> QED
    BY <2>3, <2>9 DEF CodesOK
<1> QED
  BY <1>2, <1>3 DEF Starts

\* Request w mails its code for account u, whose row may have got it now.
LEMMA CodesMailed ==
  ASSUME Typed, CodesOK, NEW w \in Workers, Drawn(work[w]), Retires(w), lastCode' = lastCode,
         NEW u \in Ids, mailed' = mailed \cup {<<work[w].code.n, u>>},
         work[w].pc = "free" => u = work[w].u,
         \A v \in Existing(users') :
           /\ v \in Existing(users)
           /\ users'[v].vcode = users[v].vcode \/ (v = u /\ users'[v].vcode = work[w].code)
  PROVE  CodesOK'
<1> DEFINE c == work[w].code.n
<1>1. c \in 1..lastCode /\ lastCode \in Nat
  BY DEF CodesOK, DrawnOK, Typed, CountsOK
<1>2. MailedOK'
  BY <1>1 DEF CodesOK, MailedOK
<1>3. \A v \in Existing(users) : users[v].vcode.n = c => work[w].pc = "free" /\ work[w].u = v
  BY DEF CodesOK, DrawnOK
<1>4. \A m \in mailed : m[1] # c
  BY DEF CodesOK, DrawnOK
<1>5. StoredOK'
  <2> SUFFICES ASSUME NEW v \in Existing(users')
               PROVE  /\ users'[v].vcode.n <= lastCode
                      /\ \A m \in mailed' : users'[v].vcode.n = m[1] => m[2] = v
    BY DEF StoredOK
  <2>1. CASE users'[v].vcode = users[v].vcode
    BY <1>3, <2>1 DEF CodesOK, StoredOK
  <2>2. CASE v = u /\ users'[v].vcode = work[w].code
    BY <1>1, <1>4, <2>2
  <2> QED
    BY <2>1, <2>2
<1>6. work'[w] = Idle /\ ~Drawn(work'[w]) /\ \A v \in Workers \ {w} : work'[v] = work[v]
  BY IdleOK DEF Retires, Typed, WorkOK, Drawn
<1>7. DrawnOK'
  <2> SUFFICES ASSUME NEW v \in Workers, Drawn(work'[v])
               PROVE  /\ work'[v].code.n \in 1..lastCode
                      /\ \A m \in mailed' : m[1] # work'[v].code.n
                      /\ \A x \in Workers : Drawn(work'[x]) /\ work'[x].code.n = work'[v].code.n
                                              => x = v
                      /\ \A y \in Existing(users') :
                           users'[y].vcode.n = work'[v].code.n
                             => work'[v].pc = "free" /\ work'[v].u = y
    BY DEF DrawnOK
  <2>1. v # w /\ work'[v] = work[v] /\ Drawn(work[v])
    BY <1>6
  <2>2. work[v].code.n # c
    BY <2>1 DEF CodesOK, DrawnOK
  <2>3. /\ work[v].code.n \in 1..lastCode
        /\ \A m \in mailed : m[1] # work[v].code.n
        /\ \A x \in Workers : Drawn(work[x]) /\ work[x].code.n = work[v].code.n => x = v
        /\ \A y \in Existing(users) :
             users[y].vcode.n = work[v].code.n => work[v].pc = "free" /\ work[v].u = y
    BY <2>1 DEF CodesOK, DrawnOK
  <2> QED
    BY <1>6, <2>1, <2>2, <2>3
<1> QED
  BY <1>2, <1>5, <1>7 DEF CodesOK

LEMMA CodesFounded ==
  ASSUME Typed, CodesOK, NEW w \in Workers, Founds(w)
  PROVE  CodesOK'
<1> DEFINE u == lastUser + 1
           c == work[w].code.n
<1>1. /\ mailed' = mailed /\ lastCode' = lastCode /\ u \in Ids
      /\ work[w].pc \in {"create", "socialCreate"}
      /\ users' = [users EXCEPT ![u] = NewRow(w)]
      /\ work' = [work EXCEPT ![w] = [work[w] EXCEPT !.pc = "free", !.u = u]]
  BY DEF Founds
<1>2. work[w] \in Task /\ TaskOK(work[w]) /\ lastCode \in Nat
  BY Known DEF Typed, CountsOK
<1>3. /\ work'[w].pc = "free" /\ work'[w].op = work[w].op /\ work'[w].u = u
      /\ work'[w].code = work[w].code
      /\ \A v \in Workers \ {w} : work'[v] = work[v]
  BY <1>1, <1>2 DEF Typed, WorkOK, Task
<1>4. /\ work[w].pc = "create" => Drawn(work[w]) /\ NewRow(w).vcode = work[w].code
      /\ work[w].pc = "socialCreate" =>
           ~Drawn(work[w]) /\ ~Drawn(work'[w]) /\ NewRow(w).vcode = NoCode
  BY <1>2, <1>3 DEF TaskOK, Signing, Drawn, NewRow, CreateUser
<1>5. \A v \in Existing(users') : (v # u /\ v \in Existing(users) /\ users'[v] = users[v])
                                    \/ (v = u /\ users'[v].vcode = NewRow(w).vcode)
  BY <1>1 DEF Existing, Typed, TablesOK
<1> HIDE DEF u
<1>6. MailedOK' /\ \A m \in mailed : m[1] \in Nat /\ m[1] >= 1
  <2>1. \A m \in mailed : m[1] \in 1..lastCode
    BY DEF CodesOK, MailedOK
  <2> QED
    BY <1>1, <2>1 DEF CodesOK, MailedOK
<1>7. /\ NewRow(w).vcode.n <= lastCode
      /\ \A m \in mailed : NewRow(w).vcode.n # m[1]
      /\ \A v \in Workers : Drawn(work[v]) /\ work[v].code.n = NewRow(w).vcode.n
                              => v = w /\ Drawn(work[w]) /\ work[w].pc = "create"
  <2>1. CASE work[w].pc = "create"
    BY <1>2, <1>4, <2>1 DEF CodesOK, DrawnOK
  <2>2. CASE work[w].pc = "socialCreate"
    <3>1. NewRow(w).vcode.n = 0
      BY <1>4, <2>2, NoCodeIsCode
    <3>2. \A v \in Workers : Drawn(work[v]) => work[v].code.n >= 1 /\ work[v].code.n \in Nat
      BY <1>2 DEF CodesOK, DrawnOK
    <3> QED
      BY <1>2, <1>6, <3>1, <3>2
  <2> QED
    BY <1>1, <2>1, <2>2
<1>8. StoredOK'
  BY <1>1, <1>5, <1>7 DEF CodesOK, StoredOK
<1>9. DrawnOK'
  <2> SUFFICES ASSUME NEW v \in Workers, Drawn(work'[v])
               PROVE  /\ work'[v].code.n \in 1..lastCode
                      /\ \A m \in mailed : m[1] # work'[v].code.n
                      /\ \A x \in Workers : Drawn(work'[x]) /\ work'[x].code.n = work'[v].code.n
                                              => x = v
                      /\ \A y \in Existing(users') :
                           users'[y].vcode.n = work'[v].code.n
                             => work'[v].pc = "free" /\ work'[v].u = y
    BY <1>1 DEF DrawnOK
  <2>1. Drawn(work[v]) /\ work'[v].code = work[v].code /\ (v = w => work[w].pc = "create")
    BY <1>1, <1>3, <1>4
  <2>2. \A x \in Workers : Drawn(work'[x]) => Drawn(work[x]) /\ work'[x].code = work[x].code
    BY <1>1, <1>3, <1>4
  <2>3. /\ work[v].code.n \in 1..lastCode
        /\ \A m \in mailed : m[1] # work[v].code.n
        /\ \A x \in Workers : Drawn(work[x]) /\ work[x].code.n = work[v].code.n => x = v
        /\ \A y \in Existing(users) :
             users[y].vcode.n = work[v].code.n => work[v].pc = "free" /\ work[v].u = y
    BY <2>1 DEF CodesOK, DrawnOK
  <2>4. ASSUME NEW y \in Existing(users'), users'[y].vcode.n = work[v].code.n
        PROVE  work'[v].pc = "free" /\ work'[v].u = y
    <3>1. CASE y = u /\ users'[y].vcode = NewRow(w).vcode
      BY <1>3, <1>7, <2>1, <2>4, <3>1
    <3>2. CASE y # u /\ y \in Existing(users) /\ users'[y] = users[y]
      <4>1. work[v].pc = "free" /\ work[v].u = y
        BY <2>3, <2>4, <3>2
      <4>2. v # w
        BY <1>1, <4>1
      <4> QED
        BY <1>3, <4>1, <4>2
    <3> QED
      BY <1>5, <2>4, <3>1, <3>2
  <2> QED
    BY <2>1, <2>2, <2>3, <2>4
<1> QED
  BY <1>6, <1>8, <1>9 DEF CodesOK

LEMMA CodesStay ==
  ASSUME Typed, Typed', CodesOK, Kind
  PROVE  CodesOK'
<1>0. \A w \in Workers : work[w] \in Task
  BY Known
<1>1. CASE Starts
  BY <1>1, CodesStayStarts
<1>2. CASE Settling /\ SameCodes
  <2>1. \A v \in Workers : Drawn(work'[v]) => work'[v] = work[v]
    BY <1>2, IdleOK DEF Settling, Settles, Drawn
  <2>2. /\ mailed' = mailed /\ lastCode' = lastCode
        /\ \A u \in Existing(users') : u \in Existing(users) /\ users'[u].vcode = users[u].vcode
    BY <1>2 DEF Settling, SameAccounts, SameCodes
  <2> QED
    BY <2>1, <2>2, CodesKept
<1>3. ASSUME NEW w \in Workers, Settling, WritesCode(w)
      PROVE  CodesOK'
  <2>1. lastCode' = lastCode
    BY <1>3 DEF Settling
  <2>2. \A v \in Workers : Drawn(work'[v]) => work'[v] = work[v]
    BY <1>3, IdleOK DEF Settling, Settles, Drawn
  <2>3. CASE VerifyWrite(w)
    <3>1. mailed' = mailed /\ OtherRows(w)
          /\ (work[w].u \in Existing(users') => users'[work[w].u].vcode = NoCode)
      BY <2>3, VerifyWriteRow
    <3> QED
      BY <2>1, <2>2, <3>1, CodesKept DEF OtherRows
  <2>4. CASE ResendWrite(w)
    <3>1. /\ work[w].pc = "resend" /\ Retires(w) /\ OtherRows(w)
          /\ mailed' = mailed \cup {<<work[w].code.n, work[w].u>>}
          /\ work[w].u \in Existing(users') => users'[work[w].u].vcode = work[w].code
      BY <2>4, ResendWriteRow
    <3>2. work[w].u \in Ids /\ Drawn(work[w])
      BY <3>1, Known DEF ForUser, Drawn
    <3> QED
      BY <2>1, <3>1, <3>2, CodesMailed DEF OtherRows
  <2>5. CASE ForgotWrite(w)
    <3>1. /\ work[w].pc = "forgot" /\ Retires(w) /\ OtherRows(w)
          /\ mailed' = mailed \cup {<<work[w].code.n, work[w].u>>}
          /\ work[w].u \in Existing(users') => users'[work[w].u].vcode = users[work[w].u].vcode
      BY <2>5, ForgotWriteRow
    <3>2. work[w].u \in Ids /\ Drawn(work[w])
      BY <3>1, Known DEF ForUser, Drawn
    <3> QED
      BY <2>1, <3>1, <3>2, CodesMailed DEF OtherRows
  <2>6. CASE ResetWrite(w)
    <3>1. mailed' = mailed /\ OtherRows(w)
          /\ (work[w].u \in Existing(users') =>
                users'[work[w].u].vcode = users[work[w].u].vcode)
      BY <2>6, ResetWriteRow
    <3> QED
      BY <2>1, <2>2, <3>1, CodesKept DEF OtherRows
  <2> QED
    BY <1>3, <2>3, <2>4, <2>5, <2>6 DEF WritesCode
<1>4. ASSUME NEW w \in Workers, Matches(w)
      PROVE  CodesOK'
  <2>1. mailed' = mailed /\ lastCode' = lastCode /\ users' = users
    BY <1>4 DEF Matches
  <2>2. \A v \in Workers : Drawn(work'[v]) => work'[v] = work[v]
    <3>1. \A v \in Workers \ {w} : work'[v] = work[v]
      BY <1>4, MatchesMove DEF Others
    <3>2. work'[w].pc \in {"socialCreate", "link"}
      BY <1>4, MatchesMove
    <3> QED
      BY <3>1, <3>2 DEF Drawn
  <2> QED
    BY <2>1, <2>2, CodesKept
<1>5. ASSUME NEW w \in Workers, Links(w)
      PROVE  CodesOK'
  <2> DEFINE u == work[w].u
             r == LinkSocial(users[u], work[w].who.kind, work[w].who.id)
  <2>1. /\ mailed' = mailed /\ lastCode' = lastCode /\ work[w].pc = "link" /\ Write(u, r)
        /\ work' = [work EXCEPT ![w] = [work[w] EXCEPT !.pc = "reload"]]
    BY <1>5 DEF Links
  <2>2. \A v \in Workers : Drawn(work'[v]) => work'[v] = work[v]
    BY <1>0, <2>1 DEF Drawn, Typed, WorkOK, Task
  <2>3. u \in Ids /\ work[w].who \in Identities
    BY <2>1, Known DEF ForUser, TaskOK, Signing
  <2>4. users[u] \in User => r.vcode = users[u].vcode
    BY <2>3, IdentityFields, LinkedRow, ZenonT(60)
  <2> HIDE DEF r
  <2>5. \A v \in Existing(users') : v \in Existing(users) /\ users'[v].vcode = users[v].vcode
    BY <2>1, <2>3, <2>4, WrittenRow DEF OtherRows
  <2> QED
    BY <2>1, <2>2, <2>5, CodesKept
<1>6. ASSUME NEW w \in Workers, Founds(w)
      PROVE  CodesOK'
  BY <1>6, CodesFounded
<1>7. ASSUME NEW w \in Workers, Endows(w)
      PROVE  CodesOK'
  <2>1. /\ work[w].pc = "free" /\ Retires(w) /\ users' = users /\ lastCode' = lastCode
        /\ \/ mailed' = mailed
           \/ work[w].op = "register" /\ mailed' = mailed \cup {<<work[w].code.n, work[w].u>>}
    BY <1>7 DEF Endows
  <2>2. CASE mailed' = mailed
    <3>1. \A v \in Workers : Drawn(work'[v]) => work'[v] = work[v]
      BY <2>1, IdleOK DEF Retires, Drawn, Typed, WorkOK
    <3> QED
      BY <2>1, <2>2, <3>1, CodesKept
  <2>3. CASE work[w].op = "register" /\ mailed' = mailed \cup {<<work[w].code.n, work[w].u>>}
    <3>1. Drawn(work[w]) /\ work[w].u \in Ids
      BY <2>1, <2>3, Known DEF Drawn, ForUser
    <3> QED
      BY <2>1, <2>3, <3>1, CodesMailed
  <2> QED
    BY <2>1, <2>2, <2>3
<1> QED
  BY <1>1, <1>2, <1>3, <1>4, <1>5, <1>6, <1>7 DEF Kind

\* Whoever is about to mark an account verified presented a code mailed for it.
Presenting ==
  \A w \in Workers : work[w].pc = "verify" => <<work[w].code.n, work[w].u>> \in mailed

LEMMA PresentingStays ==
  ASSUME Typed, CodesOK, Presenting, Kind
  PROVE  Presenting'
<1>0. \A w \in Workers : work[w] \in Task
  BY Known
<1>1. CASE Starts
  <2>1. mailed' = mailed
    BY <1>1 DEF Starts
  <2>2. CASE work' = work
    BY <2>1, <2>2 DEF Presenting
  <2>3. CASE \E t \in Task : Opening(t) /\ Opens(t)
    <3>1. PICK t \in Task : Opening(t) /\ Opens(t)
      BY <2>3
    <3>2. PICK w \in Workers : work[w] = Idle /\ work' = [work EXCEPT ![w] = t]
      BY <3>1 DEF Opens
    <3>3. work'[w] = t /\ \A v \in Workers \ {w} : work'[v] = work[v]
      BY <3>2 DEF Typed, WorkOK
    <3>4. t.pc = "verify" => <<t.code.n, t.u>> \in mailed
      <4> SUFFICES ASSUME t.pc = "verify" PROVE <<t.code.n, t.u>> \in mailed
        OBVIOUS
      <4>1. /\ t.u \in Existing(users) /\ AcceptsCode(users[t.u], t.code.n)
            /\ t.code.n \in Guesses
        BY <3>1 DEF Opening
      <4>2. users[t.u].vcode.n = t.code.n /\ t.code.n # 0
        BY <4>1 DEF AcceptsCode
      <4>3. PICK m \in mailed : m[1] = t.code.n
        BY <4>1, <4>2 DEF Guesses
      <4>4. m[2] = t.u
        BY <4>1, <4>2, <4>3 DEF CodesOK, StoredOK
      <4>5. m = <<m[1], m[2]>>
        BY <4>3 DEF CodesOK, MailedOK
      <4> QED
        BY <4>3, <4>4, <4>5
    <3> QED
      BY <2>1, <3>3, <3>4 DEF Presenting
  <2> QED
    BY <1>1, <2>2, <2>3 DEF Starts
<1>2. CASE Settling /\ (SameCodes \/ \E w \in Workers : WritesCode(w))
  <2>1. mailed \subseteq mailed'
    BY <1>2, VerifyWriteRow, ResendWriteRow, ForgotWriteRow, ResetWriteRow
       DEF SameCodes, WritesCode
  <2>2. \A v \in Workers : work'[v].pc = "verify" => work'[v] = work[v]
    BY <1>2, IdleOK DEF Settling, Settles
  <2> QED
    BY <2>1, <2>2 DEF Presenting
<1>3. ASSUME NEW w \in Workers, Matches(w) \/ Links(w) \/ Founds(w) \/ Endows(w)
      PROVE  Presenting'
  <2>1. mailed \subseteq mailed'
    BY <1>3 DEF Matches, Links, Founds, Endows
  <2>2. Others(w) /\ work'[w].pc # "verify"
    BY <1>3, MatchesMove, LinksMove, FoundsMove, EndowsMove
  <2> QED
    BY <2>1, <2>2 DEF Presenting, Others
<1> QED
  BY <1>1, <1>2, <1>3 DEF Kind

LEMMA ProvenStays ==
  ASSUME Typed, LinkersOK, Presenting, VerifiedIsProven, Kind
  PROVE  VerifiedIsProven'
<1> SUFFICES ASSUME NEW u \in Existing(users'), users'[u].verified
             PROVE  u \in proven'
  BY DEF VerifiedIsProven
<1>0. \A v \in Existing(users) : users[v].verified => v \in proven
  BY DEF VerifiedIsProven
<1>1. CASE Starts
  BY <1>0, <1>1 DEF Starts
<1>2. CASE Settling /\ SameCodes
  <2>1. u \in Existing(users) /\ users[u].verified /\ proven' = proven
    BY <1>2 DEF Settling, SameAccounts, SameCodes
  <2> QED
    BY <1>0, <2>1
<1>3. ASSUME NEW w \in Workers, WritesCode(w)
      PROVE  u \in proven'
  <2>1. CASE VerifyWrite(w)
    <3>1. /\ OtherRows(w) /\ work[w].pc = "verify"
          /\ proven' = IF <<work[w].code.n, work[w].u>> \in mailed THEN proven \cup {work[w].u}
                       ELSE proven
      BY <2>1, VerifyWriteRow
    <3>2. proven' = proven \cup {work[w].u}
      BY <3>1 DEF Presenting
    <3> QED
      BY <1>0, <3>1, <3>2 DEF OtherRows
  <2>2. CASE ResendWrite(w) \/ ForgotWrite(w) \/ ResetWrite(w)
    <3>1. /\ OtherRows(w) /\ proven' = proven
          /\ work[w].u \in Existing(users') =>
               users'[work[w].u].verified = users[work[w].u].verified
      BY <2>2, ResendWriteRow, ForgotWriteRow, ResetWriteRow
    <3> QED
      BY <1>0, <3>1 DEF OtherRows
  <2> QED
    BY <1>3, <2>1, <2>2 DEF WritesCode
<1>4. ASSUME NEW w \in Workers, Matches(w) \/ Endows(w)
      PROVE  u \in proven'
  BY <1>0, <1>4 DEF Matches, Endows
<1>5. ASSUME NEW w \in Workers, Links(w)
      PROVE  u \in proven'
  <2> DEFINE r == LinkSocial(users[work[w].u], work[w].who.kind, work[w].who.id)
  <2>1. work[w].pc = "link" /\ Write(work[w].u, r) /\ Vouch(w, work[w].u)
    BY <1>5 DEF Links
  <2>2. proven' = proven \cup {work[w].u}
    BY <2>1 DEF Vouch, LinkersOK
  <2>3. work[w].u \in Ids
    BY <2>1, Known DEF ForUser
  <2>4. OtherRows(w)
    BY <2>1, <2>3, WrittenRow
  <2> QED
    BY <1>0, <2>2, <2>4 DEF OtherRows
<1>6. ASSUME NEW w \in Workers, Founds(w)
      PROVE  u \in proven'
  <2>1. /\ users' = [users EXCEPT ![lastUser + 1] = NewRow(w)] /\ lastUser + 1 \in Ids
        /\ IF work[w].pc = "create" THEN proven' = proven
           ELSE proven' = IF work[w].who.vouched THEN proven \cup {lastUser + 1} ELSE proven
    BY <1>6 DEF Founds, Vouch
  <2>2. NewRow(w).verified = IF work[w].pc = "create" THEN FALSE ELSE work[w].who.vouched
    BY DEF NewRow, CreateUser
  <2>3. CASE u = lastUser + 1
    <3>1. users'[u] = NewRow(w)
      BY <2>1, <2>3 DEF Typed, TablesOK
    <3> QED
      BY <2>1, <2>2, <2>3, <3>1
  <2>4. CASE u # lastUser + 1
    <3>1. u \in Existing(users) /\ users'[u] = users[u]
      BY <2>1, <2>4 DEF Existing, Typed, TablesOK
    <3> QED
      BY <1>0, <2>1, <3>1
  <2> QED
    BY <2>3, <2>4
<1> QED
  BY <1>1, <1>2, <1>3, <1>4, <1>5, <1>6 DEF Kind

LEMMA CodesInvariant == Spec => [](CodesOK /\ Presenting)
<1>1. Init => CodesOK /\ Presenting
  BY IdleOK DEF Init, CodesOK, MailedOK, StoredOK, DrawnOK, Drawn, Existing, Presenting
<1>2. Typed /\ CodesOK /\ Presenting /\ [Next]_vars => CodesOK' /\ Presenting'
  BY EveryStep, CodesStay, PresentingStays DEF Explained
<1> QED
  BY <1>1, <1>2, AccountsTyped, PTL DEF Spec

\* An account is marked verified only after someone presented a code mailed to
\* its address, or a provider vouched for the address: the row verified is the
\* row whose code was presented, though it is written by id a step later.
THEOREM VerifiedMeansProven == Spec => []VerifiedIsProven
<1>1. Init => VerifiedIsProven
  BY DEF Init, VerifiedIsProven, Existing
<1>2. Typed /\ LinkersOK /\ Presenting /\ VerifiedIsProven /\ [Next]_vars => VerifiedIsProven'
  BY EveryStep, ProvenStays DEF Explained
<1> QED
  BY <1>1, <1>2, AccountsTyped, LinksInvariant, CodesInvariant, PTL DEF Spec
-----------------------------------------------------------------------------
(***************************************************************************)
(* One account for an identity.                                            *)
(***************************************************************************)

\* As long as none have overlapped, at most one request is in flight.
SoloOK == alone => \A v, w \in Workers : work[v] # Idle /\ work[w] # Idle => v = w

LEMMA SoloStays ==
  ASSUME Typed, SoloOK, Kind
  PROVE  SoloOK'
<1>1. CASE Starts
  <2> SUFFICES ASSUME alone', NEW v \in Workers, NEW w \in Workers,
                      work'[v] # Idle, work'[w] # Idle
               PROVE  v = w
    BY DEF SoloOK
  <2>1. \A x \in Workers : work[x] = Idle
    BY <1>1 DEF Starts, Busy
  <2> QED
    BY <1>1, <2>1 DEF Starts, Opens, Typed, WorkOK
<1>2. CASE Settling
  <2>1. alone' => alone
    BY <1>2 DEF Settling
  <2>2. \A v \in Workers : work'[v] # Idle => work[v] # Idle
    BY <1>2, IdleOK DEF Settling, Settles, Sweep, At
  <2> QED
    BY <2>1, <2>2 DEF SoloOK
<1>3. ASSUME NEW w \in Workers, Matches(w) \/ Links(w) \/ Founds(w) \/ Endows(w)
      PROVE  SoloOK'
  <2>1. Others(w) /\ work[w] # Idle /\ alone' = alone
    BY <1>3, IdleOK, MatchesMove, LinksMove, FoundsMove, EndowsMove
       DEF Matches, Links, Founds, Endows
  <2> QED
    BY <2>1 DEF SoloOK, Others
<1> QED
  BY <1>1, <1>2, <1>3 DEF Kind

\* Of two requests one of which is at work, the other waits for its first.
LEMMA Alone ==
  ASSUME Typed, SoloOK, alone, NEW w \in Workers, work[w].pc # "idle", NEW v \in Workers, v # w
  PROVE  work[v] = Idle /\ work[v].pc = "idle"
  BY IdleOK DEF SoloOK

\* The identity of a sign-in that looks for its account is nobody's.
Seeking == {"byEmail", "link", "socialCreate"}
FreshOK ==
  alone => \A w \in Workers : work[w].pc \in Seeking =>
             \A u \in Existing(users) :
               <<work[w].who.kind, work[w].who.id>> \notin users[u].social

LEMMA FreshStays ==
  ASSUME Typed, SoloOK, FreshOK, Kind
  PROVE  FreshOK'
<1> SUFFICES ASSUME alone', NEW v \in Workers, work'[v].pc \in Seeking, NEW u \in Existing(users')
             PROVE  <<work'[v].who.kind, work'[v].who.id>> \notin users'[u].social
  BY DEF FreshOK
<1>1. CASE Starts
  <2>1. users' = users /\ \A x \in Workers : work[x] = Idle /\ work[x].pc = "idle"
    BY <1>1, IdleOK DEF Starts, Busy
  <2>2. PICK t \in Task : Opening(t) /\ Opens(t)
    BY <1>1, <2>1 DEF Starts, Seeking
  <2>3. work'[v] = t
    BY <2>1, <2>2 DEF Opens, Seeking, Typed, WorkOK
  <2>4. FindBySocialId(users, t.who.kind, t.who.id) = {}
    BY <2>2, <2>3 DEF Opening, Seeking
  <2> QED
    BY <2>1, <2>3, <2>4 DEF FindBySocialId
<1>2. CASE Settling
  <2>1. alone /\ work'[v] = work[v]
    BY <1>2, IdleOK DEF Settling, Settles, Seeking
  <2>2. u \in Existing(users) /\ users'[u].social = users[u].social
    BY <1>2 DEF Settling, SameAccounts
  <2> QED
    BY <2>1, <2>2 DEF FreshOK
<1>3. ASSUME NEW w \in Workers, Matches(w)
      PROVE  <<work'[v].who.kind, work'[v].who.id>> \notin users'[u].social
  <2>1. users' = users /\ alone /\ work[w].pc = "byEmail"
    BY <1>3 DEF Matches
  <2>2. Others(w) /\ work'[w].who = work[w].who
    BY <1>3, MatchesMove
  <2> QED
    BY <2>1, <2>2 DEF FreshOK, Others, Seeking
<1>4. ASSUME NEW w \in Workers, Links(w) \/ Founds(w) \/ Endows(w)
      PROVE  FALSE
  <2>1. /\ Others(w) /\ work'[w].pc \notin Seeking
        /\ alone /\ work[w].pc # "idle"
    BY <1>4, LinksMove, FoundsMove, EndowsMove DEF Links, Founds, Endows, Seeking
  <2> QED
    BY <2>1, Alone DEF Others, Seeking
<1> QED
  BY <1>1, <1>2, <1>3, <1>4 DEF Kind

\* The unique indexes, and for Apple's ids what requests one at a time ensure.
UniqueOK ==
  \A u, v \in Existing(users) : \A s \in users[u].social \cap users[v].social :
    alone \/ s[1] # "apple" => u = v

LEMMA UniqueStays ==
  ASSUME Typed, FreshOK, UniqueOK, Kind
  PROVE  UniqueOK'
<1>1. CASE Starts \/ \E w \in Workers : Matches(w) \/ Endows(w)
  <2>1. CASE Starts
    <3>1. users' = users /\ (alone' => alone)
      BY <2>1 DEF Starts
    <3> QED
      BY <3>1 DEF UniqueOK
  <2>2. ASSUME NEW w \in Workers, Matches(w) \/ Endows(w)
        PROVE  UniqueOK'
    <3>1. users' = users /\ alone' = alone
      BY <2>2 DEF Matches, Endows
    <3> QED
      BY <3>1 DEF UniqueOK
  <2> QED
    BY <1>1, <2>1, <2>2
<1>2. CASE Settling
  <2>1. alone' => alone
    BY <1>2 DEF Settling
  <2>2. \A u \in Existing(users') : u \in Existing(users) /\ users'[u].social = users[u].social
    BY <1>2 DEF Settling, SameAccounts
  <2> QED
    BY <2>1, <2>2 DEF UniqueOK
<1>3. ASSUME NEW x \in Ids, NEW r, alone' = alone,
             \A u \in Existing(users') : \/ u = x /\ users'[u] = r /\ Fits(users, x, r)
                                         \/ u # x /\ u \in Existing(users) /\ users'[u] = users[u],
             alone => \A u \in Existing(users) \ {x} : r.social \cap users[u].social = {}
      PROVE  UniqueOK'
  <2>1. ASSUME NEW u \in Existing(users'), u # x, x \in Existing(users'),
               NEW s \in users'[u].social, s \in users'[x].social, alone \/ s[1] # "apple"
        PROVE  FALSE
    <3>1. u \in Existing(users) \ {x} /\ users'[u] = users[u] /\ users'[x] = r /\ Fits(users, x, r)
      BY <1>3, <2>1
    <3> QED
      BY <1>3, <2>1, <3>1 DEF Fits
  <2> QED
    BY <1>3, <2>1 DEF UniqueOK
<1>4. ASSUME NEW w \in Workers, Links(w)
      PROVE  UniqueOK'
  <2> DEFINE x == work[w].u
             who == work[w].who
             r == LinkSocial(users[x], who.kind, who.id)
  <2>1. /\ work[w].pc = "link" /\ alone' = alone /\ Write(x, r)
        /\ x \notin Existing(users) \/ Fits(users, x, r)
    BY <1>4 DEF Links
  <2>2. x \in Ids
    BY <2>1, Known DEF ForUser
  <2>3. alone => \A u \in Existing(users) : <<who.kind, who.id>> \notin users[u].social
    BY <2>1 DEF FreshOK, Seeking
  <2>4. ASSUME x \in Existing(users), NEW s \in r.social
        PROVE  s \in users[x].social \/ s = <<who.kind, who.id>>
    <3>1. users[x] \in User
      BY <2>2, <2>4 DEF Typed, TablesOK, Existing
    <3> QED
      BY <2>4, <3>1, LinkedSocial
  <2> HIDE DEF r
  <2>5. CASE x \in Existing(users)
    <3>1. ASSUME alone, NEW u \in Existing(users) \ {x}
          PROVE  r.social \cap users[u].social = {}
      <4>1. ASSUME NEW s \in r.social, s \in users[u].social
            PROVE  FALSE
        <5>1. s \in users[x].social
          BY <2>3, <2>4, <2>5, <3>1, <4>1
        <5> QED
          BY <2>5, <3>1, <4>1, <5>1 DEF UniqueOK
      <4> QED
        BY <4>1
    <3>2. \A u \in Existing(users') : \/ u = x /\ users'[u] = r /\ Fits(users, x, r)
                                      \/ u # x /\ u \in Existing(users) /\ users'[u] = users[u]
      BY <2>1, <2>2, <2>5 DEF Write, Existing, Typed, TablesOK
    <3> QED
      BY <1>3, <2>1, <2>2, <3>1, <3>2
  <2>6. CASE x \notin Existing(users)
    BY <2>1, <2>6 DEF Write, UniqueOK
  <2> QED
    BY <2>5, <2>6
<1>5. ASSUME NEW w \in Workers, Founds(w)
      PROVE  UniqueOK'
  <2> DEFINE x == lastUser + 1
             who == work[w].who
             r == NewRow(w)
  <2>1. /\ work[w].pc \in {"create", "socialCreate"} /\ alone' = alone
        /\ x \in Ids /\ Fits(users, x, r) /\ users' = [users EXCEPT ![x] = r]
    BY <1>5 DEF Founds
  <2>2. IF work[w].pc = "create" THEN r.social = {} ELSE r.social = {<<who.kind, who.id>>}
    BY DEF NewRow, CreateUser
  <2> HIDE DEF r
  <2>3. alone => \A u \in Existing(users) \ {x} : r.social \cap users[u].social = {}
    BY <2>1, <2>2 DEF FreshOK, Seeking
  <2>4. \A u \in Existing(users') : \/ u = x /\ users'[u] = r /\ Fits(users, x, r)
                                    \/ u # x /\ u \in Existing(users) /\ users'[u] = users[u]
    BY <2>1 DEF Existing, Typed, TablesOK
  <2> QED
    BY <1>3, <2>1, <2>3, <2>4
<1> QED
  BY <1>1, <1>2, <1>4, <1>5 DEF Kind

LEMMA AtMostOne ==
  ASSUME NEW S, \A x, y \in S : x = y
  PROVE  Cardinality(S) <= 1
<1>1. CASE S = {}
  BY <1>1, FS_EmptySet
<1>2. CASE S # {}
  <2>1. PICK x \in S : TRUE
    BY <1>2
  <2>2. S = {x}
    BY <2>1
  <2> QED
    BY <2>2, FS_Singleton
<1> QED
  BY <1>1, <1>2

LEMMA UniqueInvariant == Spec => [](SoloOK /\ FreshOK /\ UniqueOK)
<1>1. Init => SoloOK /\ FreshOK /\ UniqueOK
  BY DEF Init, SoloOK, FreshOK, UniqueOK, Existing
<1>2. Typed /\ SoloOK /\ FreshOK /\ UniqueOK /\ [Next]_vars => SoloOK' /\ FreshOK' /\ UniqueOK'
  BY EveryStep, SoloStays, FreshStays, UniqueStays DEF Explained
<1> QED
  BY <1>1, <1>2, AccountsTyped, PTL DEF Spec

\* A social identity belongs to one account: by the unique index, whatever
\* sign-ins overlap, and for Apple's ids, which have none, as long as a sign-in
\* that looked for the account writes before the next one looks.
THEOREM IdentitiesUnique == Spec => []OneAccountPerIdentity
<1>1. UniqueOK => OneAccountPerIdentity
  <2> SUFFICES ASSUME UniqueOK, NEW who \in Identities, alone \/ who.kind # "apple"
               PROVE  Cardinality({u \in Existing(users) :
                                     <<who.kind, who.id>> \in users[u].social}) <= 1
    BY DEF OneAccountPerIdentity
  <2> DEFINE S == {u \in Existing(users) : <<who.kind, who.id>> \in users[u].social}
  <2>1. \A x, y \in S : x = y
    BY DEF UniqueOK
  <2> HIDE DEF S
  <2> QED
    BY <2>1, AtMostOne DEF S
<1> QED
  BY <1>1, UniqueInvariant, PTL
-----------------------------------------------------------------------------
(***************************************************************************)
(* Reset codes, as long as no two requests have overlapped.                *)
(***************************************************************************)

\* No code is used before it is drawn, and none resets two passwords.
SpentOnce == \A c \in 1..MaxCodes : spent[c] <= 1
Unused    == \A c \in 1..MaxCodes : c > lastCode => spent[c] = 0 /\ tries[c] = 0

\* What is known of code c, of which n attempts have failed: whoever has it
\* may still try.
Working(c, n) == c \in 1..lastCode /\ spent[c] = 0 /\ tries[c] = n /\ n < maxResetAttempts

Standing ==
  \A u \in Existing(users) : users[u].rcode.n # 0 =>
    /\ Working(users[u].rcode.n, users[u].attempts)
    /\ \A v \in Existing(users) : users[v].rcode.n = users[u].rcode.n => v = u

\* A request about to store a new code, or to write what a code it read led to.
Issuing(w) ==
  work[w].pc = "forgot" =>
    /\ Working(work[w].code.n, 0)
    /\ \A u \in Existing(users) : users[u].rcode.n # work[w].code.n

Redeeming(w) ==
  work[w].pc \in {"bump", "burn", "reset"} =>
    LET r == work[w].row
    IN  /\ Working(r.rcode.n, r.attempts)
        /\ work[w].pc = "bump" => r.attempts + 1 < maxResetAttempts
        /\ \A v \in Existing(users) : users[v].rcode.n = r.rcode.n => v = work[w].u
        /\ work[w].u \in Existing(users) => users[work[w].u].rcode = r.rcode

ResetOK ==
  alone => /\ SpentOnce /\ Unused /\ Standing
           /\ \A w \in Workers : Issuing(w) /\ Redeeming(w)

Pending == {"forgot", "bump", "burn", "reset"}

LEMMA CodeNumbers ==
  ASSUME Typed
  PROVE  /\ lastCode \in Nat /\ lastCode <= MaxCodes /\ MaxCodes \in Nat
         /\ \A u \in Existing(users) : users[u].rcode.n \in Nat /\ users[u].attempts \in Nat
         /\ \A c \in 1..MaxCodes : spent[c] \in Nat /\ tries[c] \in Nat
<1>1. lastCode \in Nat /\ lastCode <= MaxCodes /\ MaxCodes \in Nat
  BY Constants DEF Typed, CountsOK
<1>2. \A u \in Existing(users) : users[u].rcode.n \in Nat /\ users[u].attempts \in Nat
  BY UserFields, CodeFields DEF Typed, TablesOK, Existing
<1>3. \A c \in 1..MaxCodes : c \in 0..MaxCodes
  BY <1>1
<1> QED
  BY <1>1, <1>2, <1>3 DEF Typed, ObservedOK

LEMMA ResetsStart ==
  ASSUME Typed, Typed', ResetOK, Starts
  PROVE  ResetOK'
<1> SUFFICES ASSUME alone'
             PROVE  /\ SpentOnce' /\ Unused' /\ Standing'
                    /\ \A w \in Workers : Issuing(w)' /\ Redeeming(w)'
  BY DEF ResetOK
<1>1. /\ users' = users /\ spent' = spent /\ tries' = tries
      /\ lastCode' \in {lastCode, lastCode + 1}
  BY DEF Starts
<1>2. alone /\ \A w \in Workers : work[w] = Idle /\ work[w].pc = "idle"
  BY IdleOK DEF Starts, Busy
<1>3. SpentOnce /\ Unused /\ Standing
  BY <1>2 DEF ResetOK
<1>4. /\ lastCode \in Nat /\ lastCode' \in Nat /\ lastCode' <= MaxCodes /\ MaxCodes \in Nat
      /\ lastCode <= lastCode'
  BY <1>1, Constants DEF Typed, CountsOK
<1>5. \A c, n : Working(c, n) => Working(c, n)'
  BY <1>1, <1>4 DEF Working
<1>6. SpentOnce' /\ Unused'
  BY <1>1, <1>3, <1>4 DEF SpentOnce, Unused
<1>7. Standing'
  BY <1>1, <1>3, <1>5 DEF Standing
<1>8. ASSUME NEW w \in Workers
      PROVE  Issuing(w)' /\ Redeeming(w)'
  <2>1. CASE work'[w].pc \notin Pending
    BY <2>1 DEF Issuing, Redeeming, Pending
  <2>2. CASE work'[w].pc \in Pending
    <3>1. PICK t \in Task : Opening(t) /\ Opens(t)
      BY <1>2, <2>2 DEF Starts, Pending
    <3>2. work'[w] = t
      BY <1>2, <2>2, <3>1 DEF Opens, Pending, Typed, WorkOK
    <3>3. Issuing(w)'
      <4> SUFFICES ASSUME t.pc = "forgot"
                   PROVE  /\ Working(t.code.n, 0)'
                          /\ \A u \in Existing(users) : users[u].rcode.n # t.code.n
        BY <1>1, <3>2 DEF Issuing
      <4>1. t.code.n = lastCode + 1 /\ lastCode' = lastCode + 1
        BY <3>1 DEF Opening
      <4>2. spent[t.code.n] = 0 /\ tries[t.code.n] = 0
        BY <1>3, <1>4, <4>1 DEF Unused
      <4>3. Working(t.code.n, 0)'
        BY <1>1, <1>4, <4>1, <4>2, Constants DEF Working
      <4>4. \A u \in Existing(users) : users[u].rcode.n # t.code.n
        BY <1>3, <1>4, <4>1 DEF Standing, Working
      <4> QED
        BY <4>3, <4>4
    <3>4. Redeeming(w)'
      <4> SUFFICES ASSUME t.pc \in {"bump", "burn", "reset"}
                   PROVE  /\ Working(t.row.rcode.n, t.row.attempts)'
                          /\ t.pc = "bump" => t.row.attempts + 1 < maxResetAttempts
                          /\ \A v \in Existing(users) : users[v].rcode.n = t.row.rcode.n => v = t.u
                          /\ t.u \in Existing(users) => users[t.u].rcode = t.row.rcode
        BY <1>1, <3>2 DEF Redeeming
      <4>1. /\ t.u \in Existing(users) /\ t.row = users[t.u] /\ t.row.rcode.n # 0
            /\ t.pc = "bump" => t.row.attempts + 1 < maxResetAttempts
        BY <3>1 DEF Opening
      <4>2. /\ Working(t.row.rcode.n, t.row.attempts)
            /\ \A v \in Existing(users) : users[v].rcode.n = t.row.rcode.n => v = t.u
        BY <1>3, <4>1 DEF Standing
      <4> QED
        BY <1>5, <4>1, <4>2
    <3> QED
      BY <3>3, <3>4
  <2> QED
    BY <2>1, <2>2
<1> QED
  BY <1>6, <1>7, <1>8

\* Nothing is drawn, spent or tried, and rows keep their code or have none.
LEMMA ResetRowsKept ==
  ASSUME Standing, SpentOnce, Unused, spent' = spent, tries' = tries, lastCode' = lastCode,
         \A u \in Existing(users') :
           \/ users'[u].rcode.n = 0
           \/ /\ u \in Existing(users) /\ users'[u].rcode = users[u].rcode
              /\ users'[u].attempts = users[u].attempts
  PROVE  Standing' /\ SpentOnce' /\ Unused' /\ \A c, n : Working(c, n) => Working(c, n)'
<1>1. \A c, n : Working(c, n) => Working(c, n)'
  BY DEF Working
<1>2. Standing'
  BY <1>1 DEF Standing
<1> QED
  BY <1>1, <1>2 DEF SpentOnce, Unused

LEMMA ResetsSettle ==
  ASSUME Typed, ResetOK, Settling, SameCodes
  PROVE  ResetOK'
<1> SUFFICES ASSUME alone'
             PROVE  /\ SpentOnce' /\ Unused' /\ Standing'
                    /\ \A w \in Workers : Issuing(w)' /\ Redeeming(w)'
  BY DEF ResetOK
<1>1. /\ lastCode' = lastCode /\ spent' = spent /\ tries' = tries
      /\ SpentOnce /\ Unused /\ Standing /\ \A w \in Workers : Issuing(w) /\ Redeeming(w)
  BY DEF Settling, SameCodes, ResetOK
<1>2. \A u \in Existing(users') :
        /\ u \in Existing(users) /\ users'[u].rcode = users[u].rcode
        /\ users'[u].attempts = users[u].attempts
  BY DEF Settling, SameAccounts, SameCodes
<1>3. SpentOnce' /\ Unused' /\ Standing' /\ \A c, n : Working(c, n) => Working(c, n)'
  BY <1>1, <1>2, ResetRowsKept
<1>4. ASSUME NEW w \in Workers
      PROVE  Issuing(w)' /\ Redeeming(w)'
  <2>1. work'[w].pc \in Pending => work'[w] = work[w]
    BY IdleOK DEF Settling, Settles, Pending
  <2>2. Issuing(w) /\ Redeeming(w)
    BY <1>1
  <2>3. Issuing(w)'
    BY <1>2, <1>3, <2>1, <2>2 DEF Issuing, Pending
  <2>4. Redeeming(w)'
    BY <1>2, <1>3, <2>1, <2>2 DEF Redeeming, Pending
  <2> QED
    BY <2>3, <2>4
<1> QED
  BY <1>3, <1>4

\* The only request at work has written, and nothing is pending any more.
LEMMA NonePending ==
  ASSUME Typed, SoloOK, alone, NEW w \in Workers, work[w].pc # "idle", Others(w),
         work'[w].pc \notin Pending
  PROVE  \A v \in Workers : Issuing(v)' /\ Redeeming(v)'
<1>1. \A v \in Workers : work'[v].pc \notin Pending
  BY Alone DEF Others, Pending
<1> QED
  BY <1>1 DEF Issuing, Redeeming, Pending

LEMMA ResetsForgot ==
  ASSUME Typed, ResetOK, alone, lastCode' = lastCode, NEW w \in Workers, ForgotWrite(w)
  PROVE  SpentOnce' /\ Unused' /\ Standing'
<1> DEFINE u == work[w].u
           c == work[w].code.n
<1>1. /\ work[w].pc = "forgot" /\ OtherRows(w) /\ spent' = spent /\ tries' = tries
      /\ u \in Existing(users') => users'[u].rcode = work[w].code /\ users'[u].attempts = 0
  BY ForgotWriteRow
<1>2. SpentOnce /\ Unused /\ Standing /\ Working(c, 0)
      /\ \A v \in Existing(users) : users[v].rcode.n # c
  BY <1>1 DEF ResetOK, Issuing
<1>3. \A x, n : Working(x, n) => Working(x, n)'
  BY <1>1 DEF Working
<1>4. \A v \in Existing(users') : \/ v = u /\ users'[v].rcode.n = c /\ users'[v].attempts = 0
                                  \/ v # u /\ v \in Existing(users) /\ users'[v] = users[v]
  BY <1>1 DEF OtherRows
<1> HIDE DEF u, c
<1>5. Standing'
  BY <1>2, <1>3, <1>4 DEF Standing
<1> QED
  BY <1>1, <1>2, <1>5 DEF SpentOnce, Unused

LEMMA ResetsTried ==
  ASSUME Typed, ResetOK, alone, lastCode' = lastCode, NEW w \in Workers, ResetWrite(w)
  PROVE  SpentOnce' /\ Unused' /\ Standing'
<1> DEFINE u == work[w].u
           r == work[w].row
           c == r.rcode.n
<1>1. /\ work[w].pc \in {"bump", "burn", "reset"} /\ OtherRows(w)
      /\ spent' = IF work[w].pc = "reset" THEN [spent EXCEPT ![c] = @ + 1] ELSE spent
      /\ tries' = IF work[w].pc = "reset" THEN tries ELSE [tries EXCEPT ![c] = @ + 1]
      /\ u \in Existing(users') =>
           /\ work[w].pc # "bump" => users'[u].rcode = NoCode
           /\ work[w].pc = "bump" => /\ users'[u].rcode = users[u].rcode
                                     /\ users'[u].attempts = r.attempts + 1
  BY ResetWriteRow
<1>2. /\ SpentOnce /\ Unused /\ Standing /\ Working(c, r.attempts)
      /\ work[w].pc = "bump" => r.attempts + 1 < maxResetAttempts
      /\ \A v \in Existing(users) : users[v].rcode.n = c => v = u
      /\ u \in Existing(users) => users[u].rcode = r.rcode
  BY <1>1 DEF ResetOK, Redeeming
<1>3. c \in 1..MaxCodes /\ c <= lastCode /\ spent[c] = 0 /\ tries[c] = r.attempts /\ r.attempts \in Nat
  BY <1>2, CodeNumbers DEF Working
<1>4. /\ \A x \in 1..MaxCodes : x # c => spent'[x] = spent[x] /\ tries'[x] = tries[x]
      /\ work[w].pc = "reset" => spent'[c] = 1
      /\ work[w].pc # "reset" => spent'[c] = 0 /\ tries'[c] = r.attempts + 1
  BY <1>1, <1>3, SMTT(30) DEF Typed, ObservedOK
<1>5. SpentOnce' /\ Unused'
  BY <1>1, <1>2, <1>3, <1>4, CodeNumbers, SMTT(30) DEF SpentOnce, Unused
<1>6. \A x, n : Working(x, n) /\ x # c => Working(x, n)'
  BY <1>4, CodeNumbers DEF Working
<1>7. \A v \in Existing(users') : v # u => /\ v \in Existing(users) /\ users'[v] = users[v]
                                           /\ users[v].rcode.n # c
  BY <1>1, <1>2 DEF OtherRows
<1>8. CASE work[w].pc \in {"burn", "reset"}
  <2>1. u \in Existing(users') => users'[u].rcode.n = 0
    BY <1>1, <1>8, NoCodeIsCode
  <2> HIDE DEF u, r, c
  <2>2. Standing'
    BY <1>2, <1>6, <1>7, <2>1 DEF Standing
  <2> QED
    BY <1>5, <2>2
<1>9. CASE work[w].pc = "bump"
  <2>1. u \in Existing(users') => users'[u].rcode.n = c /\ users'[u].attempts = r.attempts + 1
    BY <1>1, <1>2, <1>9 DEF OtherRows
  <2>2. \A x, n : x = c /\ n = r.attempts + 1 => Working(x, n)'
    BY <1>2, <1>3, <1>4, <1>9, CodeNumbers DEF Working
  <2> HIDE DEF u, r, c
  <2>3. Standing'
    BY <1>2, <1>6, <1>7, <2>1, <2>2 DEF Standing
  <2> QED
    BY <1>5, <2>3
<1> QED
  BY <1>1, <1>5, <1>8, <1>9

LEMMA ResetsStay ==
  ASSUME Typed, Typed', SoloOK, ResetOK, Kind
  PROVE  ResetOK'
<1>1. CASE Starts
  BY <1>1, ResetsStart
<1>2. CASE Settling /\ SameCodes
  BY <1>2, ResetsSettle
<1> DEFINE Goal == /\ SpentOnce' /\ Unused' /\ Standing'
                   /\ \A w \in Workers : Issuing(w)' /\ Redeeming(w)'
<1>3. ASSUME NEW w \in Workers, Settling, WritesCode(w), alone'
      PROVE  Goal
  <2>1. alone /\ lastCode' = lastCode /\ SpentOnce /\ Unused /\ Standing
    BY <1>3 DEF Settling, ResetOK
  <2>2. /\ Retires(w) /\ OtherRows(w) /\ work[w].pc # "idle"
    BY <1>3, VerifyWriteRow, ResendWriteRow, ForgotWriteRow, ResetWriteRow DEF WritesCode
  <2>3. Others(w) /\ work'[w].pc \notin Pending
    BY <2>2, IdleOK DEF Retires, Others, Pending, Typed, WorkOK
  <2>4. \A v \in Workers : Issuing(v)' /\ Redeeming(v)'
    BY <2>1, <2>2, <2>3, NonePending
  <2>5. CASE VerifyWrite(w) \/ ResendWrite(w)
    <3>1. /\ spent' = spent /\ tries' = tries
          /\ work[w].u \in Existing(users') =>
               /\ users'[work[w].u].rcode = users[work[w].u].rcode
               /\ users'[work[w].u].attempts = users[work[w].u].attempts
      BY <2>5, VerifyWriteRow, ResendWriteRow
    <3>2. \A u \in Existing(users') :
            /\ u \in Existing(users) /\ users'[u].rcode = users[u].rcode
            /\ users'[u].attempts = users[u].attempts
      BY <2>2, <3>1 DEF OtherRows
    <3> QED
      BY <2>1, <2>4, <3>1, <3>2, ResetRowsKept
  <2>6. CASE ForgotWrite(w)
    BY <2>1, <2>4, <2>6, ResetsForgot
  <2>7. CASE ResetWrite(w)
    BY <2>1, <2>4, <2>7, ResetsTried
  <2> QED
    BY <1>3, <2>5, <2>6, <2>7 DEF WritesCode
<1>4. ASSUME NEW w \in Workers, Matches(w) \/ Links(w) \/ Founds(w) \/ Endows(w), alone'
      PROVE  Goal
  <2>1. /\ alone /\ lastCode' = lastCode /\ spent' = spent /\ tries' = tries
        /\ SpentOnce /\ Unused /\ Standing /\ work[w].pc # "idle"
    BY <1>4 DEF Matches, Links, Founds, Endows, ResetOK
  <2>2. Others(w) /\ work'[w].pc \notin Pending
    BY <1>4, MatchesMove, LinksMove, FoundsMove, EndowsMove DEF Pending
  <2>3. \A v \in Workers : Issuing(v)' /\ Redeeming(v)'
    BY <2>1, <2>2, NonePending
  <2>4. \A u \in Existing(users') :
          \/ users'[u].rcode.n = 0
          \/ /\ u \in Existing(users) /\ users'[u].rcode = users[u].rcode
             /\ users'[u].attempts = users[u].attempts
    <3>1. CASE Matches(w) \/ Endows(w)
      BY <3>1 DEF Matches, Endows
    <3>2. CASE Links(w)
      <4> DEFINE x == work[w].u
                 r == LinkSocial(users[x], work[w].who.kind, work[w].who.id)
      <4>1. work[w].pc = "link" /\ Write(x, r)
        BY <3>2 DEF Links
      <4>2. x \in Ids /\ work[w].who \in Identities
        BY <4>1, Known DEF ForUser, TaskOK, Signing
      <4>3. users[x] \in User => r.rcode = users[x].rcode /\ r.attempts = users[x].attempts
        BY <4>2, IdentityFields, LinkedRow, ZenonT(60)
      <4> HIDE DEF r
      <4> QED
        BY <4>1, <4>2, <4>3, WrittenRow, ZenonT(60) DEF OtherRows
    <3>3. CASE Founds(w)
      <4>1. users' = [users EXCEPT ![lastUser + 1] = NewRow(w)] /\ lastUser + 1 \in Ids
        BY <3>3 DEF Founds
      <4>2. NewRow(w).rcode.n = 0
        BY NoCodeIsCode DEF NewRow, CreateUser
      <4> QED
        BY <4>1, <4>2 DEF Existing, Typed, TablesOK
    <3> QED
      BY <1>4, <3>1, <3>2, <3>3
  <2> QED
    BY <2>1, <2>3, <2>4, ResetRowsKept
<1> QED
  BY <1>1, <1>2, <1>3, <1>4 DEF Kind, ResetOK

\* A reset code resets one password and, while it works, has failed fewer than
\* maxResetAttempts times, as long as no two requests have overlapped: between
\* reading the code and writing what came of it nothing else writes the row.
THEOREM ResetCodesHold == Spec => []ResetCodeHolds
<1>1. Init => ResetOK
  <2> SUFFICES ASSUME Init PROVE ResetOK
    OBVIOUS
  <2>1. \A c \in 1..MaxCodes : spent[c] = 0 /\ tries[c] = 0
    BY Constants DEF Init
  <2>2. Existing(users) = {} /\ \A w \in Workers : work[w].pc = "idle"
    BY IdleOK DEF Init, Existing
  <2> QED
    BY <2>1, <2>2 DEF ResetOK, SpentOnce, Unused, Standing, Issuing, Redeeming
<1>2. Typed /\ SoloOK /\ ResetOK /\ [Next]_vars => ResetOK'
  BY EveryStep, ResetsStay DEF Explained
<1>3. ResetOK => ResetCodeHolds
  BY DEF ResetOK, ResetCodeHolds, SpentOnce, Standing, Working
<1> QED
  BY <1>1, <1>2, <1>3, AccountsTyped, UniqueInvariant, PTL DEF Spec
-----------------------------------------------------------------------------
(***************************************************************************)
(* Deletion.                                                               *)
(***************************************************************************)

\* What the tables a deletion went through still hold of the user, it swept.
SweptOK ==
  alone => \A w \in Workers : work[w].pc = "sweep" =>
    \A x \in rows : \A i \in 1..(work[w].stage - 1) :
      x.user = work[w].u /\ x.table = Sweeps[i] => x \in work[w].swept

LEMMA SweptStays ==
  ASSUME Typed, SoloOK, SweptOK, Kind
  PROVE  SweptOK'
<1> SUFFICES ASSUME alone', NEW v \in Workers, work'[v].pc = "sweep", NEW x \in rows',
                    NEW i \in 1..(work'[v].stage - 1),
                    x.user = work'[v].u, x.table = Sweeps[i]
             PROVE  x \in work'[v].swept
  BY DEF SweptOK
<1>1. CASE Starts
  <2>1. \A w \in Workers : work[w] = Idle /\ work[w].pc = "idle"
    BY <1>1, IdleOK DEF Starts, Busy
  <2>2. PICK t \in Task : Opening(t) /\ Opens(t)
    BY <1>1, <2>1 DEF Starts
  <2>3. work'[v] = t
    BY <2>1, <2>2 DEF Opens, Typed, WorkOK
  <2>4. t.stage = 1
    BY <2>2, <2>3 DEF Opening
  <2> QED
    BY <2>3, <2>4
<1>2. CASE Settling
  <2>1. alone /\ (Busy # {} => rows' \subseteq rows)
    BY <1>2 DEF Settling
  <2>2. CASE work'[v] = work[v]
    <3>1. v \in Busy
      BY <2>2, IdleOK DEF Busy
    <3>2. x \in rows
      BY <2>1, <3>1
    <3> QED
      BY <2>1, <2>2, <3>2 DEF SweptOK
  <2>3. CASE Sweep(v)
    <3> DEFINE gone == {y \in rows : y.user = work[v].u /\ y.table = Sweeps[work[v].stage]}
    <3>1. /\ work[v].pc = "sweep" /\ rows' = rows
          /\ work' = [work EXCEPT ![v] = [work[v] EXCEPT !.stage = @ + 1, !.swept = @ \cup gone]]
      BY <2>3 DEF Sweep, At, Goto, tableVars
    <3>2. work[v] \in Task /\ work[v].stage \in 1..8
      BY <3>1, Known DEF TaskOK
    <3> HIDE DEF gone
    <3>3. /\ work'[v].stage = work[v].stage + 1 /\ work'[v].u = work[v].u
          /\ work'[v].swept = work[v].swept \cup gone
      BY <3>1, <3>2 DEF Typed, WorkOK, Task
    <3>4. x.user = work[v].u
      BY <3>3
    <3>5. CASE i = work[v].stage
      <4>1. x \in gone
        BY <3>1, <3>4, <3>5 DEF gone
      <4> QED
        BY <3>3, <4>1
    <3>6. CASE i # work[v].stage
      <4>1. i \in 1..(work[v].stage - 1)
        BY <3>2, <3>3, <3>6
      <4> QED
        BY <2>1, <3>1, <3>3, <3>4, <4>1 DEF SweptOK
    <3> QED
      BY <3>5, <3>6
  <2> QED
    BY <1>2, <2>2, <2>3, IdleOK DEF Settling, Settles
<1>3. ASSUME NEW w \in Workers, Matches(w) \/ Links(w) \/ Founds(w) \/ Endows(w)
      PROVE  FALSE
  <2>1. /\ Others(w) /\ alone /\ work[w].pc # "idle" /\ work'[w].pc # "sweep"
    BY <1>3, MatchesMove, LinksMove, FoundsMove, EndowsMove DEF Matches, Links, Founds, Endows
  <2> QED
    BY <2>1, Alone DEF Others
<1> QED
  BY <1>1, <1>2, <1>3 DEF Kind

\* A deletion nothing overlapped finds nothing that holds the user.
LEMMA NothingHolds ==
  ASSUME Typed, SweptOK, alone, NEW w \in Workers, DeleteUser(w)
  PROVE  answer'.status = 200
<1>1. work[w].pc = "sweep" /\ work[w].stage \notin DOMAIN Sweeps
  BY DEF DeleteUser, At
<1>2. work[w].stage = 8
  BY <1>1, Known, SweepsAre DEF TaskOK
<1>3. ASSUME NEW x \in rows, x.user = work[w].u
      PROVE  x \in work[w].swept
  <2>1. PICK i \in 1..7 : x.table = Sweeps[i]
    BY SweepsAre DEF Typed, TablesOK, Owned
  <2> QED
    BY <1>1, <1>2, <1>3, <2>1 DEF SweptOK
<1>4. Holders(w) = {}
  BY <1>3 DEF Holders
<1> QED
  BY <1>4 DEF DeleteUser, Finish

LEMMA RowsStay ==
  ASSUME Typed, Kind, NEW u \in Ids, NEW x \in rows, x.user = u, x \notin rows'
  PROVE  /\ u \notin Existing(users')
         /\ {y \in rows' : y.user = u} = {} /\ {y \in tokens' : y.user = u} = {}
<1>1. rows \subseteq rows' \/ \E w \in Workers : DeleteUser(w)
  BY DEF Kind, Starts, Settling, Matches, Links, Founds, Endows
<1>2. PICK w \in Workers : DeleteUser(w)
  BY <1>1
<1> QED
  BY <1>2, RowsLost

LEMMA SweptInvariant == Spec => []SweptOK
<1>1. Init => SweptOK
  BY DEF Init, SweptOK
<1>2. Typed /\ SoloOK /\ SweptOK /\ [Next]_vars => SweptOK'
  BY EveryStep, SweptStays DEF Explained
<1> QED
  BY <1>1, <1>2, AccountsTyped, UniqueInvariant, PTL DEF Spec

\* Nothing a user owns goes before the account does, all of it goes with the
\* account, and a deletion that no other request overlaps succeeds: the seven
\* statements before the last cover every table that could refuse it.
THEOREM DeletionsAllOrNothing == Spec => DeletionAllOrNothing
<1> DEFINE Whole == \A u \in Ids : \A x \in {y \in rows : y.user = u} : x \in rows' \/
                      (u \notin Existing(users') /\ {y \in rows' : y.user = u} = {}
                                                 /\ {y \in tokens' : y.user = u} = {})
           Done == answer'.op = "delete" /\ alone' => answer'.status = 200
<1>1. Typed /\ SweptOK /\ [Next]_vars => [Whole /\ Done]_vars
  <2> SUFFICES ASSUME Typed, SweptOK, [Next]_vars, ~UNCHANGED vars
               PROVE  Whole /\ Done
    OBVIOUS
  <2>1. Kind /\ DeletionAnswers
    BY EveryStep DEF Explained
  <2>2. Whole
    BY <2>1, RowsStay
  <2>3. Done
    <3> SUFFICES ASSUME answer'.op = "delete", alone'
                 PROVE  answer'.status = 200
      OBVIOUS
    <3>1. PICK w \in Workers : DeleteUser(w)
      BY <2>1 DEF DeletionAnswers
    <3>2. alone
      BY <3>1 DEF DeleteUser, At
    <3> QED
      BY <3>1, <3>2, NothingHolds
  <2> QED
    BY <2>2, <2>3
<1>2. Spec => [][Whole /\ Done]_vars
  BY <1>1, AccountsTyped, SweptInvariant, PTL DEF Spec
<1> QED
  BY <1>2, PTL DEF DeletionAllOrNothing
================================================================================
