-------------------------------- MODULE Accounts --------------------------------
(***************************************************************************)
(* Accounts of the Go backend: registration, e-mail verification, password *)
(* reset, social sign-in, account deletion, extension tokens and writing   *)
(* profiles, over the tables of AccountTables.                             *)
(*                                                                         *)
(* A request is a worker; every statement it runs is a step, and between   *)
(* two of them it keeps the row it read.  Only account deletion runs in a  *)
(* database transaction.  Tokens are signed and not stored, so a session   *)
(* outlives the account it was opened for.                                 *)
(*                                                                         *)
(* Each initial state admits one of Scenes, a set of operations, so that   *)
(* one check covers several mixes of requests.                             *)
(***************************************************************************)
EXTENDS AccountTables

CONSTANTS
  Workers,           \* requests the server can be serving at one time
  Scenes,            \* the mixes of operations an instance admits
  Identities,        \* what the providers vouch for, as the server sees it
  emailCodeTTL, maxResetAttempts,
  MaxRequests, MaxCodes, MaxRows, MaxTime, MaxAborts     \* bounds

Identity == [kind : SocialKinds, id : SocialIds, email : Addresses, vouched : BOOLEAN]

ASSUME WorkerAssumption == IsFiniteSet(Workers)
ASSUME IdentityAssumption == Identities \subseteq Identity
ASSUME LimitAssumption ==
  /\ {emailCodeTTL, maxResetAttempts} \subseteq Nat \ {0}
  /\ {MaxRequests, MaxCodes, MaxRows, MaxTime, MaxAborts} \subseteq Nat

VARIABLES
  ops,           \* the operations of this behaviour
  users, rows, tokens, profiles,                        \* the tables
  work,          \* what each worker is executing
  secret,        \* the key in the environment of the process
  now,           \* the clock, in units of which a code lives emailCodeTTL
  lastUser, lastCode, lastRow, requests, aborts,        \* counters
  sessions,      \* accounts for which a token pair was handed out
  mailed,        \* codes mailed, with the account they were mailed for
  answer,        \* the response of the step just taken, if it sent one
  alone,         \* observer: no two requests have overlapped yet
  proven,        \* observer: accounts whose address was proven
  vouches,       \* observer: identities linked or created with an account
  spent, tries,  \* observer: resets and failed resets per code
  kept           \* observer: tokens their device was told to use

tableVars    == <<users, rows, tokens, profiles>>
envVars      == <<ops, secret, now, aborts>>
idVars       == <<lastUser, lastCode, lastRow>>
sentVars     == <<sessions, mailed>>
observerVars == <<proven, vouches, spent, tries, kept>>
vars == <<envVars, tableVars, idVars, sentVars, work, requests, answer, alone,
          observerVars>>

Tables == Holding \cup Yielding
\* The statements of deleteAccountStmts before the last, in their order.
Sweeps == <<"extension_tokens", "payments", "usage_logs", "subscriptions",
            "feature_votes", "bug_reports", "error_reports">>

Pc == {"idle", "create", "free", "verify", "resend", "forgot", "bump", "burn", "reset",
       "change", "byEmail", "link", "reload", "socialCreate", "sweep", "insert", "upsert"}

Ops == {"none", "register", "verify", "resend", "forgot", "reset", "change", "social",
        "socialNew", "delete", "mint", "job", "notes"}

Task == [pc : Pc, op : Ops, u : Ids \cup {0}, email : Addresses \cup {None},
         pw : Passwords \cup {None}, code : Code, who : Identities \cup {None},
         row : User \cup {NoRow}, swept : SUBSET (Row \cup Token), stage : 0..8,
         profile : Profile \cup {NoRow}, device : Devices \cup {None}]

Idle == [pc |-> "idle", op |-> "none", u |-> 0, email |-> None, pw |-> None,
         code |-> NoCode, who |-> None, row |-> NoRow, swept |-> {}, stage |-> 0,
         profile |-> NoRow, device |-> None]

NoAnswer == [op |-> "none", u |-> 0, status |-> 0]
Statuses == {200, 201, 204, 400, 401, 409, 500}

-----------------------------------------------------------------------------
(***************************************************************************)
(* Requests.                                                               *)
(***************************************************************************)
Busy == {w \in Workers : work[w] # Idle}

\* A request of kind op arrives.
Arrive(op) ==
  /\ op \in ops /\ requests < MaxRequests
  /\ requests' = requests + 1
  /\ alone' = (alone /\ Busy = {})

\* A signed token is looked at, not the account it names.
Authenticated(u) == u \in sessions

Quiet == answer' = NoAnswer

\* The request is answered by its first statement.
Served(op, u, status) ==
  /\ answer' = [op |-> op, u |-> u, status |-> status]
  /\ UNCHANGED work

\* Worker w goes on with what it read.
Begin(w, task) == work[w] = Idle /\ work' = [work EXCEPT ![w] = task] /\ Quiet
Goto(w, task)  == work' = [work EXCEPT ![w] = task] /\ Quiet
At(w, pc)      == work[w].pc = pc /\ UNCHANGED <<requests, alone>>

Finish(w, status) ==
  /\ work' = [work EXCEPT ![w] = Idle]
  /\ answer' = [op |-> work[w].op, u |-> work[w].u, status |-> status]

\* An UPDATE by id changes the row if it is still there.
Write(u, r) == users' = IF u \in Existing(users) THEN [users EXCEPT ![u] = r] ELSE users

\* A six-digit code and the time it is good until.
NewCode == [n |-> lastCode + 1, until |-> now + emailCodeTTL]
DrawCode == lastCode < MaxCodes /\ lastCode' = lastCode + 1

Expired(code) == code.until < now
\* A client presents a code it was mailed, or a wrong one; a lucky guess is
\* not modelled.
Guesses == {m[1] : m \in mailed} \cup {0}

Mail(code, u) == mailed' = mailed \cup {<<code.n, u>>}
SignIn(u) == sessions' = sessions \cup {u}
Room == lastRow < MaxRows

\* A request in flight creates at most one account: none meets the bound.
Space == lastUser + Cardinality({w \in Workers :
           work[w].pc \in {"create", "byEmail", "socialCreate"}}) < MaxUsers
-----------------------------------------------------------------------------
(***************************************************************************)
(* Sign-up, sign-in and sessions (auth/usecase.go).                        *)
(***************************************************************************)

Register(w, e, pw) ==
  /\ Arrive("register") /\ Space
  /\ IF GetAuthUserByEmail(users, Normal[e]) # {}
     THEN Served("register", 0, 409) /\ UNCHANGED lastCode
     ELSE DrawCode /\ Begin(w, [Idle EXCEPT !.pc = "create", !.op = "register",
                                  !.email = Normal[e], !.pw = pw, !.code = NewCode])
  /\ UNCHANGED <<envVars, tableVars, sentVars, observerVars, lastUser, lastRow>>

\* The insert; the unique index refuses what another request inserted first.
Insert(w, r, rest) ==
  LET u == lastUser + 1
  IN  IF Fits(users, u, r)
      THEN /\ users' = [users EXCEPT ![u] = r]
           /\ lastUser' = u
           /\ Goto(w, [rest EXCEPT !.pc = "free", !.u = u])
      ELSE Finish(w, 500) /\ UNCHANGED <<users, lastUser>>

RegisterCreate(w) ==
  /\ At(w, "create")
  /\ Insert(w, CreateUser(work[w].email, work[w].pw, "local", {}, FALSE, work[w].code), work[w])
  /\ UNCHANGED <<envVars, sentVars, observerVars, rows, tokens, profiles, lastCode, lastRow>>

\* Faulty variant: an account made by a social sign-in gets none.
LocalSubscription(u) ==
  {[table |-> "subscriptions", user |-> u, n |-> lastRow + 1] : v \in
     {v \in {u} : users[v].provider = "local"}}

FreeSubscription(u) == {[table |-> "subscriptions", user |-> u, n |-> lastRow + 1]}

\* The free subscription of a new account, and what follows it: the mail and
\* the tokens.  The row Create returned has no is_active, so to the sign-in
\* that created an account it is disabled.
CreateFree(w) ==
  /\ At(w, "free") /\ Room
  /\ LET u == work[w].u
         local == work[w].op = "register"
     IN  IF u \in Existing(users)
         THEN /\ rows' = rows \cup FreeSubscription(u)
              /\ lastRow' = lastRow + 1
              /\ IF local THEN Mail(work[w].code, u) /\ SignIn(u) /\ Finish(w, 201)
                 ELSE Finish(w, 401) /\ UNCHANGED <<sentVars>>
         ELSE Finish(w, 500) /\ UNCHANGED <<sentVars, rows, lastRow>>
  /\ UNCHANGED <<envVars, observerVars, users, tokens, profiles, lastUser, lastCode>>

LoginStatus(e, pw) ==
  IF \E u \in GetAuthUserByEmail(users, e) : users[u].pw = pw /\ users[u].active
  THEN 201 ELSE 401

Login(e, pw) ==
  /\ Arrive("login")
  /\ \E u \in GetAuthUserByEmail(users, e) \cup {0} :
       /\ u = 0 => GetAuthUserByEmail(users, e) = {}
       /\ Served("login", u, LoginStatus(e, pw))
       /\ IF LoginStatus(e, pw) = 201 THEN SignIn(u) ELSE UNCHANGED sessions
  /\ UNCHANGED <<envVars, tableVars, idVars, observerVars, mailed>>

\* The refresh token of a disabled or deleted account is refused.
Live(u) == \E v \in GetAuthUserByID(users, u) : users[v].active

Refresh(u) ==
  /\ Arrive("refresh") /\ Authenticated(u)
  /\ Served("refresh", u, IF Live(u) THEN 200 ELSE 401)
  /\ UNCHANGED <<envVars, tableVars, idVars, sentVars, observerVars>>

ChangePassword(w, u, old, new) ==
  /\ Arrive("change") /\ Authenticated(u)
  /\ IF u \in Existing(users) /\ users[u].pw = old
     THEN Begin(w, [Idle EXCEPT !.pc = "change", !.op = "change", !.u = u, !.pw = new])
     ELSE Served("change", u, 401)
  /\ UNCHANGED <<envVars, tableVars, idVars, sentVars, observerVars>>

ChangeWrite(w) ==
  /\ At(w, "change")
  /\ Write(work[w].u, UpdateUserPasswordHash(users[work[w].u], work[w].pw))
  /\ Finish(w, 201)
  /\ UNCHANGED <<envVars, idVars, sentVars, observerVars, rows, tokens, profiles>>

\* The console can disable an account and enable it again.
AdminUpdate(u, on) ==
  /\ Arrive("admin")
  /\ Write(u, [users[u] EXCEPT !.active = on])
  /\ Served("admin", u, IF u \in Existing(users) THEN 200 ELSE 500)
  /\ UNCHANGED <<envVars, idVars, sentVars, observerVars, rows, tokens, profiles>>

-----------------------------------------------------------------------------
(***************************************************************************)
(* Mailed codes.                                                           *)
(***************************************************************************)

\* Faulty variant: any code of an account that waits for one will do.
AcceptsAnyCode(r, c) == r.vcode.n # 0 /\ ~Expired(r.vcode)

AcceptsCode(r, c) == r.vcode.n # 0 /\ r.vcode.n = c /\ ~Expired(r.vcode)

VerifyEmail(w, e, c) ==
  /\ Arrive("verify")
  /\ IF \E u \in GetUserAuthState(users, e) : AcceptsCode(users[u], c)
     THEN \E u \in GetUserAuthState(users, e) :
            Begin(w, [Idle EXCEPT !.pc = "verify", !.op = "verify", !.u = u,
                                  !.row = users[u], !.code = [n |-> c, until |-> 0]])
     ELSE Served("verify", 0, 400)
  /\ UNCHANGED <<envVars, tableVars, idVars, sentVars, observerVars>>

VerifyWrite(w) ==
  /\ At(w, "verify")
  /\ LET u == work[w].u
     IN  /\ Write(u, Update(users[u], [verified |-> TRUE, vcode |-> NoCode]))
         /\ proven' = IF <<work[w].code.n, u>> \in mailed THEN proven \cup {u} ELSE proven
  /\ Finish(w, 200)
  /\ UNCHANGED <<envVars, idVars, sentVars, rows, tokens,
                 profiles, vouches, spent, tries, kept>>

\* Silent for an address that is unknown or verified.
ResendVerification(w, e) ==
  /\ Arrive("resend")
  /\ IF \E u \in GetUserAuthState(users, e) : ~users[u].verified
     THEN DrawCode /\ \E u \in GetUserAuthState(users, e) :
            Begin(w, [Idle EXCEPT !.pc = "resend", !.op = "resend", !.u = u, !.code = NewCode])
     ELSE Served("resend", 0, 200) /\ UNCHANGED lastCode
  /\ UNCHANGED <<envVars, tableVars, sentVars, observerVars, lastUser, lastRow>>

ResendWrite(w) ==
  /\ At(w, "resend")
  /\ Write(work[w].u, Update(users[work[w].u], [vcode |-> work[w].code]))
  /\ Mail(work[w].code, work[w].u)
  /\ Finish(w, 200)
  /\ UNCHANGED <<envVars, idVars, observerVars, rows, tokens, profiles, sessions>>

\* Silent for an address that is unknown or has no password of its own.
ForgotPassword(w, e) ==
  /\ Arrive("forgot")
  /\ IF \E u \in GetUserAuthState(users, e) :
          users[u].provider = "local" /\ users[u].pw # None
     THEN DrawCode /\ \E u \in GetUserAuthState(users, e) :
            Begin(w, [Idle EXCEPT !.pc = "forgot", !.op = "forgot", !.u = u, !.code = NewCode])
     ELSE Served("forgot", 0, 200) /\ UNCHANGED lastCode
  /\ UNCHANGED <<envVars, tableVars, sentVars, observerVars, lastUser, lastRow>>

ForgotWrite(w) ==
  /\ At(w, "forgot")
  /\ Write(work[w].u, Update(users[work[w].u], [rcode |-> work[w].code, attempts |-> 0]))
  /\ Mail(work[w].code, work[w].u)
  /\ Finish(w, 200)
  /\ UNCHANGED <<envVars, idVars, observerVars, rows, tokens, profiles, sessions>>

\* Faulty variant: one more failed attempt than the limit.
ResetVerdictLate(r, c) ==
  IF r.rcode.n = 0 THEN "refuse"
  ELSE IF r.rcode.n = c /\ ~Expired(r.rcode) THEN "reset"
  ELSE IF r.attempts + 1 > maxResetAttempts THEN "burn" ELSE "bump"

\* What a code does to the account whose row is r: reset the password, count
\* as a failed attempt, or burn the code because there were too many.
ResetVerdict(r, c) ==
  IF r.rcode.n = 0 THEN "refuse"
  ELSE IF r.rcode.n = c /\ ~Expired(r.rcode) THEN "reset"
  ELSE IF r.attempts + 1 >= maxResetAttempts THEN "burn" ELSE "bump"

ResetPassword(w, e, c, pw) ==
  /\ Arrive("reset")
  /\ IF \E u \in GetUserAuthState(users, e) : ResetVerdict(users[u], c) # "refuse"
     THEN \E u \in GetUserAuthState(users, e) :
            Begin(w, [Idle EXCEPT !.pc = ResetVerdict(users[u], c), !.op = "reset", !.u = u,
                                  !.row = users[u], !.pw = pw])
     ELSE Served("reset", 0, 400)
  /\ UNCHANGED <<envVars, tableVars, idVars, sentVars, observerVars>>

ResetPatch(w) ==
  CASE work[w].pc = "reset" -> [pw |-> work[w].pw]
    [] work[w].pc = "burn"  -> [rcode |-> NoCode, attempts |-> 0]
    [] work[w].pc = "bump"  -> [attempts |-> work[w].row.attempts + 1]

ResetWrite(w) ==
  /\ \E pc \in {"reset", "burn", "bump"} : At(w, pc)
  /\ LET u == work[w].u
         code == work[w].row.rcode.n
         hit == work[w].pc = "reset"
     IN  /\ Write(u, Update(users[u], ResetPatch(w)))
         /\ spent' = IF hit THEN [spent EXCEPT ![code] = @ + 1] ELSE spent
         /\ tries' = IF hit THEN tries ELSE [tries EXCEPT ![code] = @ + 1]
         /\ Finish(w, IF hit THEN 200 ELSE 400)
  /\ UNCHANGED <<envVars, idVars, sentVars, rows, tokens, profiles, proven, vouches, kept>>

-----------------------------------------------------------------------------
(***************************************************************************)
(* Social sign-in (SocialLogin).  The provider's answer comes first and is *)
(* a member of Identities; an answer without an address is refused.        *)
(***************************************************************************)
Admit(w, u, active) ==
  /\ Finish(w, IF active THEN 201 ELSE 401)
  /\ IF active THEN SignIn(u) ELSE UNCHANGED sessions

SocialLogin(w, who) ==
  /\ Arrive("social") /\ Space
  /\ LET found == FindBySocialId(users, who.kind, who.id)
     IN  IF found = {}
         THEN /\ Begin(w, [Idle EXCEPT !.pc = "byEmail", !.op = "social", !.who = who])
              /\ UNCHANGED sessions
         ELSE \E u \in found :
                /\ Served("social", u, IF users[u].active THEN 201 ELSE 401)
                /\ IF users[u].active THEN SignIn(u) ELSE UNCHANGED sessions
  /\ UNCHANGED <<envVars, tableVars, idVars, observerVars, mailed>>

\* Faulty variant: linked although the provider does not vouch for the address.
SocialByEmailTrusting(w) ==
  /\ At(w, "byEmail")
  /\ LET found == GetAuthUserByEmail(users, work[w].who.email)
     IN  IF found = {} THEN Goto(w, [work[w] EXCEPT !.pc = "socialCreate", !.op = "socialNew"])
         ELSE \E u \in found : Goto(w, [work[w] EXCEPT !.pc = "link", !.u = u])
  /\ UNCHANGED <<envVars, tableVars, idVars, sentVars, observerVars>>

\* An account with that address is linked if the provider vouches for it.
SocialByEmail(w) ==
  /\ At(w, "byEmail")
  /\ LET found == GetAuthUserByEmail(users, work[w].who.email)
     IN  IF found = {} THEN Goto(w, [work[w] EXCEPT !.pc = "socialCreate", !.op = "socialNew"])
         ELSE IF work[w].who.vouched
         THEN \E u \in found : Goto(w, [work[w] EXCEPT !.pc = "link", !.u = u])
         ELSE Finish(w, 401)
  /\ UNCHANGED <<envVars, tableVars, idVars, sentVars, observerVars>>

Vouch(w, u) ==
  /\ proven'  = IF work[w].who.vouched THEN proven \cup {u} ELSE proven
  /\ vouches' = vouches \cup {<<u, work[w].who>>}

SocialLink(w) ==
  /\ At(w, "link")
  /\ LET u == work[w].u
         row == Update(users[u], [kind |-> work[w].who.kind, social |-> work[w].who.id])
     IN  IF u \notin Existing(users) \/ Fits(users, u, row)
         THEN Write(u, row) /\ Vouch(w, u) /\ Goto(w, [work[w] EXCEPT !.pc = "reload"])
         ELSE Finish(w, 500) /\ UNCHANGED <<users, proven, vouches>>
  /\ UNCHANGED <<envVars, idVars, sentVars, rows, tokens, profiles, spent, tries, kept>>

SocialReload(w) ==
  /\ At(w, "reload")
  /\ LET u == work[w].u
     IN  IF u \in Existing(users) THEN Admit(w, u, users[u].active)
         ELSE Finish(w, 500) /\ UNCHANGED sessions
  /\ UNCHANGED <<envVars, tableVars, idVars, observerVars, mailed>>

SocialCreate(w) ==
  /\ At(w, "socialCreate")
  /\ LET who == work[w].who
         row == CreateUser(who.email, None, who.kind, {<<who.kind, who.id>>}, who.vouched, NoCode)
     IN  /\ Insert(w, row, work[w])
         /\ IF Fits(users, lastUser + 1, row) THEN Vouch(w, lastUser + 1)
            ELSE UNCHANGED <<proven, vouches>>
  /\ UNCHANGED <<envVars, sentVars, rows, tokens, profiles,
                 lastCode, lastRow, spent, tries, kept>>

-----------------------------------------------------------------------------
(***************************************************************************)
(* Account deletion (user/repo_delete.go): one transaction, one statement  *)
(* a step.  Other requests see nothing of it before it commits; rows they  *)
(* insert meanwhile are not in what it swept.                              *)
(***************************************************************************)
DeleteAccount(w, u) ==
  /\ Arrive("delete") /\ Authenticated(u)
  /\ Begin(w, [Idle EXCEPT !.pc = "sweep", !.op = "delete", !.u = u, !.stage = 1])
  /\ UNCHANGED <<envVars, tableVars, idVars, sentVars, observerVars>>

\* Faulty variant: the statements take effect one by one.
SweepAtOnce(w) ==
  /\ At(w, "sweep") /\ work[w].stage \in DOMAIN Sweeps
  /\ LET gone == {x \in rows : x.user = work[w].u /\ x.table = Sweeps[work[w].stage]}
     IN  /\ Goto(w, [work[w] EXCEPT !.stage = @ + 1, !.swept = @ \cup gone])
         /\ rows' = rows \ gone
  /\ UNCHANGED <<envVars, idVars, sentVars, observerVars, users, tokens, profiles>>

Sweep(w) ==
  /\ At(w, "sweep") /\ work[w].stage \in DOMAIN Sweeps
  /\ LET table == Sweeps[work[w].stage]
     IN  Goto(w, [work[w] EXCEPT !.stage = @ + 1, !.swept = @ \cup
                    {x \in rows : x.user = work[w].u /\ x.table = table}])
  /\ UNCHANGED <<envVars, tableVars, idVars, sentVars, observerVars>>

\* Rows that stay and keep the user: inserted since their table was swept.
Holders(w) == {x \in rows \ work[w].swept : x.user = work[w].u /\ x.table \in Holding}

\* The last statement and the commit.  The profile row has no foreign key.
DeleteUser(w) ==
  /\ At(w, "sweep") /\ work[w].stage \notin DOMAIN Sweeps
  /\ LET u == work[w].u
     IN  IF Holders(w) = {}
         THEN /\ users'  = [users EXCEPT ![u] = NoRow]
              /\ rows'   = {x \in rows : x.user # u}
              /\ tokens' = {x \in tokens : x.user # u}
              /\ kept'   = {n \in kept : \A x \in tokens : x.n = n => x.user # u}
              /\ Finish(w, 200)
         ELSE Finish(w, 500) /\ UNCHANGED <<users, rows, tokens, kept>>
  /\ UNCHANGED <<envVars, idVars, sentVars, profiles, proven, vouches, spent, tries>>

\* Another handler stores a row for the user; the foreign key wants the user.
InsertRow(u, table) ==
  /\ Arrive(table) /\ Authenticated(u) /\ Room
  /\ Served(table, u, IF u \in Existing(users) THEN 201 ELSE 500)
  /\ IF u \in Existing(users)
     THEN /\ rows' = rows \cup {[table |-> table, user |-> u, n |-> lastRow + 1]}
          /\ lastRow' = lastRow + 1
     ELSE UNCHANGED <<rows, lastRow>>
  /\ UNCHANGED <<envVars, sentVars, observerVars, users,
                 tokens, profiles, lastUser, lastCode>>

-----------------------------------------------------------------------------
(***************************************************************************)
(* Extension tokens (exttoken).                                            *)
(***************************************************************************)
Mint(w, u, d) ==
  /\ Arrive("mint") /\ Authenticated(u)
  /\ tokens' = RevokeActiveTokensForDevice(tokens, u, d)
  /\ kept' = {n \in kept : \A x \in tokens : x.n = n => x.user # u \/ x.device # d}
  /\ Begin(w, [Idle EXCEPT !.pc = "insert", !.op = "mint", !.u = u, !.device = d])
  /\ UNCHANGED <<envVars, idVars, sentVars, users, rows,
                 profiles, proven, vouches, spent, tries>>

MintInsert(w) ==
  /\ At(w, "insert") /\ Room
  /\ LET u == work[w].u
         d == work[w].device
     IN  IF u \in Existing(users) /\ TokenFits(tokens, u, d)
         THEN /\ tokens' = tokens \cup {[user |-> u, device |-> d, n |-> lastRow + 1, revoked |-> FALSE]}
              /\ kept' = kept \cup {lastRow + 1}
              /\ lastRow' = lastRow + 1
              /\ Finish(w, 200)
         ELSE Finish(w, 500) /\ UNCHANGED <<tokens, kept, lastRow>>
  /\ UNCHANGED <<envVars, sentVars, users, rows, profiles,
                 lastUser, lastCode, proven, vouches, spent, tries>>

RevokeToken(u, n) ==
  /\ Arrive("revoke") /\ Authenticated(u)
  /\ tokens' = RevokeTokenByID(tokens, n, u)
  /\ kept' = {k \in kept : \A x \in tokens : x.n = k /\ x.user = u => k # n}
  /\ Served("revoke", u, 204)
  /\ UNCHANGED <<envVars, idVars, sentVars, users, rows,
                 profiles, proven, vouches, spent, tries>>

\* Whom a presented token speaks for; every token has the rewrite scope.
Verify(n) == {x.user : x \in FindActiveTokenByHash(tokens, [n |-> n])}

-----------------------------------------------------------------------------
(***************************************************************************)
(* Writing profiles (usercontext).                                         *)
(***************************************************************************)
\* What GET shows, and what PUT starts from.
View(u) ==
  IF profiles[u] = NoRow THEN [job |-> Blank, notes |-> Blank]
  ELSE [job |-> profiles[u].job, notes |-> Decrypt(profiles[u].notes, secret)]

Merged(u, field, text) == [View(u) EXCEPT ![field] = text]

PutProfile(w, u, field, text) ==
  /\ Arrive("put") /\ Authenticated(u)
  /\ LET new == Merged(u, field, text)
     IN  Begin(w, [Idle EXCEPT !.pc = "upsert", !.op = field, !.u = u,
            !.profile = [job |-> new.job, notes |-> Encrypt(new.notes, secret)]])
  /\ UNCHANGED <<envVars, tableVars, idVars, sentVars, observerVars>>

ProfileUpsert(w) ==
  /\ At(w, "upsert")
  /\ profiles' = [profiles EXCEPT ![work[w].u] = work[w].profile]
  /\ Finish(w, 200)
  /\ UNCHANGED <<envVars, idVars, sentVars, observerVars, users, rows, tokens>>

DeleteProfile(u) ==
  /\ Arrive("erase") /\ Authenticated(u)
  /\ profiles' = [profiles EXCEPT ![u] = NoRow]
  /\ Served("erase", u, 204)
  /\ UNCHANGED <<envVars, idVars, sentVars, observerVars, users, rows, tokens>>

-----------------------------------------------------------------------------
Tick ==
  /\ "tick" \in ops /\ now < MaxTime
  /\ now' = now + 1
  /\ Quiet
  /\ UNCHANGED <<tableVars, idVars, sentVars, observerVars, ops,
                 work, secret, requests, aborts, alone>>

\* The process is started again with another key.
Rekey(k) ==
  /\ "rekey" \in ops /\ secret # k /\ Busy = {}
  /\ secret' = k
  /\ Quiet
  /\ UNCHANGED <<tableVars, idVars, sentVars, observerVars, ops,
                 work, now, requests, aborts, alone>>

\* A request is cut short; the database rolls a transaction back.
Abort(w) ==
  /\ work[w] # Idle /\ aborts < MaxAborts
  /\ work' = [work EXCEPT ![w] = Idle]
  /\ aborts' = aborts + 1
  /\ Quiet
  /\ UNCHANGED <<tableVars, idVars, sentVars, observerVars,
                 ops, secret, now, requests, alone>>

-----------------------------------------------------------------------------
Init ==
  /\ ops \in Scenes
  /\ users = [u \in Ids |-> NoRow]
  /\ rows = {} /\ tokens = {}
  /\ profiles = [u \in Ids |-> NoRow]
  /\ work = [w \in Workers |-> Idle]
  /\ secret = NoKey /\ now = 0
  /\ lastUser = 0 /\ lastCode = 0 /\ lastRow = 0 /\ requests = 0 /\ aborts = 0
  /\ sessions = {} /\ mailed = {} /\ answer = NoAnswer
  /\ alone = TRUE /\ proven = {} /\ vouches = {} /\ kept = {}
  /\ spent = [c \in 0..MaxCodes |-> 0] /\ tries = [c \in 0..MaxCodes |-> 0]

Codes(w) ==
  \/ \E e \in Addresses, c \in Guesses : VerifyEmail(w, e, c)
  \/ \E e \in Addresses : ResendVerification(w, e) \/ ForgotPassword(w, e)
  \/ \E e \in Addresses, c \in Guesses, pw \in Passwords : ResetPassword(w, e, c, pw)
  \/ VerifyWrite(w) \/ ResendWrite(w) \/ ForgotWrite(w) \/ ResetWrite(w)

SignUp(w) ==
  \/ \E e \in Addresses, pw \in Passwords : Register(w, e, pw)
  \/ RegisterCreate(w) \/ CreateFree(w)
  \/ \E u \in Ids, old, new \in Passwords : ChangePassword(w, u, old, new)
  \/ ChangeWrite(w)

Social(w) ==
  \/ \E who \in Identities : SocialLogin(w, who)
  \/ SocialByEmail(w) \/ SocialLink(w) \/ SocialReload(w) \/ SocialCreate(w)

Deletion(w) == (\E u \in Ids : DeleteAccount(w, u)) \/ Sweep(w) \/ DeleteUser(w)

Device(w) ==
  \/ \E u \in Ids, d \in Devices : Mint(w, u, d)
  \/ MintInsert(w)
  \/ \E u \in Ids, f \in {"job", "notes"}, t \in Texts : PutProfile(w, u, f, t)
  \/ ProfileUpsert(w)

Single ==
  \/ \E e \in Addresses, pw \in Passwords : Login(e, pw)
  \/ \E u \in Ids : Refresh(u) \/ DeleteProfile(u)
  \/ \E u \in Existing(users), on \in BOOLEAN : AdminUpdate(u, on)
  \/ \E u \in Ids, t \in Tables : InsertRow(u, t)
  \/ \E u \in Ids, x \in tokens : RevokeToken(u, x.n)
  \/ \E k \in Keys : Rekey(k)
  \/ Tick

Next == \/ Single
        \/ \E w \in Workers : SignUp(w) \/ Codes(w) \/ Social(w) \/ Deletion(w) \/ Device(w) \/ Abort(w)

Spec == Init /\ [][Next]_vars
=============================================================================
