-------------------------------- MODULE Console --------------------------------
(***************************************************************************)
(* What the admin console keeps: the admins themselves (adminauth), the AI *)
(* providers and who answers a prompt (aiprovider), the settings row       *)
(* (appsettings), and the releases offered to the clients (updates).       *)
(*                                                                         *)
(* No handler runs in a transaction, except the removal of an admin.       *)
(***************************************************************************)
EXTENDS Serving, Sequences, SequencesExt

CONSTANTS
  Staff, Models, Releases,         \* rows when the model starts
  AdminEdits, ProviderBodies, SettingBodies, ReleaseBodies   \* inputs of the handlers

\* Rows of admin_users, of ai_providers and of app_releases; "" is no key.
AdminRow    == [email : STRING, password : {"first", "second"}, active : BOOLEAN]
ProviderRow == [dflt : BOOLEAN, active : BOOLEAN, key : STRING \cup {""}]
ReleaseRow  == [version : STRING, sha : STRING \cup {""}, enabled : BOOLEAN]

ASSUME ConsoleAssumption ==
  /\ NoRow \notin Nat \cup DOMAIN Staff \cup AdminRow \cup ProviderRow \cup {"direct", "store"}
  /\ Staff \in [DOMAIN Staff -> AdminRow \cup {NoRow}]
  /\ Models \in Seq(ProviderRow \cup {NoRow})
  /\ Releases \in [{"direct", "store"} -> ReleaseRow \cup {NoRow}]
  /\ \A p \in ProviderBodies : /\ "dflt" \in DOMAIN p => p.dflt \in BOOLEAN
                               /\ "active" \in DOMAIN p => p.active \in BOOLEAN
                               /\ "key" \in DOMAIN p => p.key \in STRING
  /\ \A p \in AdminEdits : /\ DOMAIN p \subseteq {"email", "active"}
                           /\ "email" \in DOMAIN p => p.email \in STRING
                           /\ "active" \in DOMAIN p => p.active \in BOOLEAN
  /\ \A p \in SettingBodies : \A c \in {"key", "methods"} : c \in DOMAIN p => p[c] \in STRING

\* E-mails are unique and nobody was removed; one provider is the default at
\* most, and no secret is the mask; a hash sent is that of the version sent.
ASSUME RowsAssumption ==
  /\ \A a \in Existing(Staff) : /\ Staff[a].active
                               /\ \A b \in Existing(Staff) : Staff[a].email = Staff[b].email => a = b
  /\ \A p \in Existing(Models) : /\ Models[p].key # "masked"
                                /\ \A q \in Existing(Models) : Models[p].dflt /\ Models[q].dflt => p = q
  /\ \A b \in ReleaseBodies \cup {Releases[c] : c \in Existing(Releases)} : b.sha \in {"", b.version}

AdminIds    == DOMAIN Staff
ProviderIds == DOMAIN Models      \* 1..n, in the order of created_at
Channels    == DOMAIN Releases

VARIABLES
  admins,     \* admin_users, [email, password, active]
  audit,      \* admin_user_audit, pairs of actor and target
  sessions,   \* admins who hold a token: it outlives the row's is_active
  providers,  \* ai_providers, [dflt, active, key]
  settings,   \* app_settings, oldest updated_at first: [key, methods]
  releases,   \* app_releases of one platform, by channel: [version, sha, enabled]
  policy,     \* app_release_policies of that platform: the channel it prefers
  unguarded,  \* observer: admins were removed side by side, or by PATCH
  rivals,     \* observer: two promotions of a provider overlapped
  wanted,     \* observer: the secret the console asked for last
  steady      \* observer: what was on offer ever since the worker's first read

adminVars    == <<admins, audit, sessions, unguarded>>
providerVars == <<providers, rivals>>
settingVars  == <<settings, wanted>>
releaseVars  == <<releases, policy>>
consoleVars  == <<adminVars, providerVars, settingVars, releaseVars, steady>>

\* Of a list of candidates the worker goes on to the next one, or has none left.
PassOver(w) ==
  /\ Goto(w, [work[w] EXCEPT !.tried = @ \cup {Head(work[w].todo)}, !.todo = Tail(@),
                            !.pc = IF Len(work[w].todo) = 1 THEN "nothing" ELSE @])
  /\ UNCHANGED steady

Leave(w) == Finish(w) /\ steady' = [steady EXCEPT ![w] = {}]

\* A body names the columns it wants written.
Patched(row, p) == [c \in DOMAIN row |-> IF c \in DOMAIN p THEN p[c] ELSE row[c]]

-----------------------------------------------------------------------------
(***************************************************************************)
(* Admins.  A token is checked by its signature alone.                     *)
(***************************************************************************)
ActiveAdmins == {a \in Existing(admins) : admins[a].active}

\* The column is unique.
EmailsBeside(a) == {admins[b].email : b \in Existing(admins) \ {a}}
EmailExists(e)  == e \in EmailsBeside(NoRow)

LoginAdmin(a, password) ==
  /\ Served("login")
  /\ sessions' = IF a \in ActiveAdmins /\ admins[a].password = password
                 THEN sessions \cup {a} ELSE sessions
  /\ UNCHANGED <<admins, audit, unguarded, providerVars, settingVars, releaseVars, steady>>

\* The hash read is compared, which takes a while, and the new one stored.
ChangePassword(w, a, current, next) ==
  /\ a \in sessions
  /\ IF a \in Existing(admins) /\ admins[a].password = current
     THEN Begin(w, "login", [pc |-> "rehash", id |-> a, password |-> next])
     ELSE Served("login")
  /\ UNCHANGED consoleVars

UpdatePasswordHash(w) ==
  /\ At(w, "rehash")
  /\ admins' = [admins EXCEPT ![work[w].id].password = work[w].password]
  /\ Finish(w)
  /\ UNCHANGED <<audit, sessions, unguarded, providerVars, settingVars, releaseVars, steady>>

CreateAdmin(w, e) ==
  /\ IF EmailExists(e) THEN Served("staff") ELSE Begin(w, "staff", [pc |-> "hire", email |-> e])
  /\ UNCHANGED consoleVars

InsertAdmin(w) ==
  /\ At(w, "hire")
  /\ IF EmailExists(work[w].email) THEN UNCHANGED admins
     ELSE \E a \in AdminIds \ Existing(admins) :
            admins' = [admins EXCEPT ![a] = [email |-> work[w].email, password |-> "first",
                                             active |-> TRUE]]
  /\ Finish(w)
  /\ UNCHANGED <<audit, sessions, unguarded, providerVars, settingVars, releaseVars, steady>>

\* PATCH writes what it is given, is_active too, and leaves no trail.
UpdateAdmin(a, p) ==
  /\ Served("staff")
  /\ IF a \in Existing(admins) /\ ("email" \in DOMAIN p => p.email \notin EmailsBeside(a))
     THEN /\ admins' = [admins EXCEPT ![a] = Patched(@, p)]
          /\ unguarded' = (unguarded \/ ("active" \in DOMAIN p /\ ~p.active))
     ELSE UNCHANGED <<admins, unguarded>>
  /\ UNCHANGED <<audit, sessions, providerVars, settingVars, releaseVars, steady>>

\* DELETE, which clears is_active: not on oneself; an active admin only when
\* another is left, by a count read after.
DeleteAdmin(w, actor, target) ==
  /\ actor \in sessions
  /\ IF actor = target THEN Served("staff")
     ELSE Begin(w, "staff", [pc |-> IF target \in ActiveAdmins THEN "count" ELSE "retire",
                             actor |-> actor, id |-> target, counted |-> FALSE])
  /\ UNCHANGED consoleVars

\* Faulty variant: everybody is counted.
CountAllAdmins == Cardinality(Existing(admins))

CountActiveAdmins == Cardinality(ActiveAdmins)

GuardLastAdmin(w) ==
  /\ At(w, "count")
  /\ IF CountActiveAdmins <= 1 THEN Finish(w) /\ UNCHANGED unguarded
     ELSE /\ Goto(w, [work[w] EXCEPT !.pc = "retire", !.counted = TRUE])
          /\ unguarded' = (unguarded \/ \E x \in Workers \ {w} : work[x].pc = "retire")
  /\ UNCHANGED <<admins, audit, sessions, providerVars, settingVars, releaseVars, steady>>

\* One transaction: is_active cleared and the audit row written, or neither.
SoftDeleteWithAudit(w) ==
  /\ At(w, "retire")
  /\ LET t == work[w].id
     IN  IF t \in Existing(admins)
         THEN /\ admins' = [admins EXCEPT ![t].active = FALSE]
              /\ audit' = audit \cup {<<work[w].actor, t>>}
              /\ unguarded' = (unguarded \/ (t \in ActiveAdmins /\ ~work[w].counted))
         ELSE UNCHANGED <<admins, audit, unguarded>>
  /\ Finish(w)
  /\ UNCHANGED <<sessions, providerVars, settingVars, releaseVars, steady>>

-----------------------------------------------------------------------------
(***************************************************************************)
(* AI providers.  A promotion demotes the others first.                    *)
(***************************************************************************)
Defaults == {p \in Existing(providers) : providers[p].dflt}
ActiveProviders == {p \in Existing(providers) : providers[p].active}

\* What is switched off, or gone, is not steady for those who look for it.
Still(pcs, offered) ==
  [w \in Workers |-> IF work[w].pc \in pcs THEN steady[w] \cap offered ELSE steady[w]]

Prompts == {"list", "try"}

\* Faulty variant: what the console shows in place of a key is taken for one.
UnmaskedAlways(p) == p

\* The mask the console was shown, echoed back, names no key.
Unmasked(p) == IF "key" \in DOMAIN p /\ p.key = "masked"
               THEN [c \in DOMAIN p \ {"key"} |-> p[c]] ELSE p

Promotes(p) == "dflt" \in DOMAIN p /\ p.dflt
Writing(x) == work[x].pc = "provider" /\ Promotes(work[x].body)

\* POST (p = NoRow) or PATCH: that a row is missing is found out after the
\* others were demoted.
SaveProvider(w, p, b) ==
  /\ Begin(w, "provider", [pc |-> IF Promotes(b) THEN "demote" ELSE "provider",
                           id |-> p, body |-> Unmasked(b)])
  /\ UNCHANGED consoleVars

Demoted(t) == [p \in ProviderIds |-> IF p \in Existing(t) THEN [t[p] EXCEPT !.dflt = FALSE] ELSE NoRow]

DemoteDefaults(w) ==
  /\ At(w, "demote")
  /\ providers' = Demoted(providers)
  /\ rivals' = \E x \in Workers \ {w} : Writing(x)
  /\ Goto(w, [work[w] EXCEPT !.pc = "provider"])
  /\ UNCHANGED <<adminVars, settingVars, releaseVars, steady>>

WriteProvider(w) ==
  /\ At(w, "provider")
  /\ LET new == work[w].id = NoRow
         p   == IF new THEN Cardinality(Existing(providers)) + 1 ELSE work[w].id
         old == IF new THEN [dflt |-> FALSE, active |-> TRUE, key |-> ""] ELSE providers[p]
     IN  /\ p \in ProviderIds
         /\ providers' = IF new \/ p \in Existing(providers)
                         THEN [providers EXCEPT ![p] = Patched(old, work[w].body)] ELSE providers
  /\ steady' = Still(Prompts, ActiveProviders')
  /\ Finish(w)
  /\ UNCHANGED <<adminVars, rivals, settingVars, releaseVars>>

SoftDeleteProvider(p) ==
  /\ Served("provider") /\ p \in Existing(providers)
  /\ providers' = [providers EXCEPT ![p].dflt = FALSE, ![p].active = FALSE]
  /\ steady' = Still(Prompts, ActiveProviders \ {p})
  /\ UNCHANGED <<adminVars, rivals, settingVars, releaseVars>>

\* A prompt.  The active default, whichever row comes first, or a 400.
DefaultComplete(w) ==
  /\ IF Defaults \cap ActiveProviders = {} THEN Served("prompt") /\ UNCHANGED steady
     ELSE \E p \in Defaults \cap ActiveProviders :
            /\ Begin(w, "prompt", [pc |-> "list", id |-> p, tried |-> {}, todo |-> <<>>])
            /\ steady' = [steady EXCEPT ![w] = ActiveProviders]
  /\ UNCHANGED <<adminVars, providerVars, settingVars, releaseVars>>

\* Faulty variant: only those made after the default come after it.
FallbacksLater(p) == {q \in ActiveProviders : q > p}

Fallbacks(p) == ActiveProviders \ {p}

\* By created_at.
ByAge(S) == CHOOSE s \in [1..Cardinality(S) -> S] : \A i, j \in DOMAIN s : i < j => s[i] < s[j]

\* The default first, then the others that are active.
FailoverList(p) == <<p>> \o ByAge(Fallbacks(p))

\* When the list cannot be read the default alone is asked.
FailoverOrder(w) ==
  /\ At(w, "list")
  /\ LET p == work[w].id
     IN  \/ /\ Goto(w, [work[w] EXCEPT !.pc = "try",
                          !.todo = FailoverList(p)])
            /\ UNCHANGED steady
         \/ /\ Goto(w, [work[w] EXCEPT !.pc = "try", !.todo = <<p>>])
            /\ steady' = [steady EXCEPT ![w] = @ \cap {p}]
  /\ UNCHANGED <<adminVars, providerVars, settingVars, releaseVars>>

\* A key that cannot be decrypted, or a failed call, is followed by the next.
TryProvider(w) ==
  /\ At(w, "try")
  /\ Leave(w) \/ PassOver(w)
  /\ UNCHANGED <<adminVars, providerVars, settingVars, releaseVars>>

\* The client is told that there is nothing.
AnswerNothing(w) ==
  /\ At(w, "nothing")
  /\ Leave(w)
  /\ UNCHANGED <<adminVars, providerVars, settingVars, releaseVars>>

-----------------------------------------------------------------------------
(***************************************************************************)
(* Settings: one row, made by the first request that finds none.  Readers  *)
(* and writers take the one with the oldest updated_at.                    *)
(***************************************************************************)
GetSettings(w) ==
  /\ IF settings = <<>> THEN Begin(w, "settings", [pc |-> "fill"]) ELSE Served("settings")
  /\ UNCHANGED consoleVars

InsertDefaultSettings(w) ==
  /\ At(w, "fill")
  /\ settings' = Append(settings, [key |-> "", methods |-> "default"])
  /\ Finish(w)
  /\ UNCHANGED <<adminVars, providerVars, wanted, releaseVars, steady>>

\* A payment method the registry does not know is refused before the write.
PatchSettings(p) ==
  /\ Served("settings")
  /\ IF settings = <<>> \/ ("methods" \in DOMAIN p /\ p.methods = "unknown")
     THEN UNCHANGED <<settings, wanted>>
     ELSE /\ settings' = Append(Tail(settings), Patched(Head(settings), Unmasked(p)))
          /\ wanted' = IF "key" \in DOMAIN p /\ p.key # "masked" THEN p.key ELSE wanted
  /\ UNCHANGED <<adminVars, providerVars, releaseVars, steady>>

-----------------------------------------------------------------------------
(***************************************************************************)
(* Releases of one platform.  An upsert loads the row, merges and writes   *)
(* the whole row back.  A hash is named by the version it was taken of.    *)
(***************************************************************************)
OtherChannel(c) == IF c = "direct" THEN "store" ELSE "direct"
Enabled == {c \in Existing(releases) : releases[c].enabled}

\* Faulty variant: without a hash in the body the old one is kept.
MergedKeepsHash(row, b) ==
  [version |-> b.version,
   sha |-> IF b.sha # "" \/ row = NoRow THEN b.sha ELSE row.sha,
   enabled |-> IF "enabled" \in DOMAIN b THEN b.enabled ELSE row = NoRow \/ row.enabled]

MergedRelease(row, b) ==
  [version |-> b.version, sha |-> b.sha,
   enabled |-> IF "enabled" \in DOMAIN b THEN b.enabled ELSE row = NoRow \/ row.enabled]

UpsertChannel(w, c, b) ==
  /\ Begin(w, "release", [pc |-> "save", channel |-> c, new |-> releases[c] = NoRow,
                          row |-> MergedRelease(releases[c], b)])
  /\ UNCHANGED consoleVars

\* The primary key refuses a second insert; an update of a row that is gone fails.
SaveRelease(w) ==
  /\ At(w, "save")
  /\ LET c == work[w].channel
     IN  releases' = IF (releases[c] = NoRow) = work[w].new
                     THEN [releases EXCEPT ![c] = work[w].row] ELSE releases
  /\ steady' = Still({"probe"}, Enabled')
  /\ Finish(w)
  /\ UNCHANGED <<adminVars, providerVars, settingVars, policy>>

DeleteChannel(c) ==
  /\ Served("release") /\ c \in Existing(releases)
  /\ releases' = [releases EXCEPT ![c] = NoRow]
  /\ steady' = Still({"probe"}, Enabled \ {c})
  /\ UNCHANGED <<adminVars, providerVars, settingVars, policy>>

\* The policy is loaded and written back as well; its other columns are texts
\* for the console, and a body may name those alone.
PreferredChannel == IF policy = NoRow THEN "direct" ELSE policy

UpsertPolicy(w, c) ==
  /\ Begin(w, "release", [pc |-> "policy", new |-> policy = NoRow,
                          channel |-> IF c \in Channels THEN c ELSE PreferredChannel])
  /\ UNCHANGED consoleVars

SavePolicy(w) ==
  /\ At(w, "policy")
  /\ policy' = IF (policy = NoRow) = work[w].new THEN work[w].channel ELSE policy
  /\ Finish(w)
  /\ UNCHANGED <<adminVars, providerVars, settingVars, releases, steady>>

\* Faulty variant: a client that names a channel is offered that one alone.
ProbedNamedOnly(override) ==
  IF override \in Channels THEN <<override>> ELSE <<PreferredChannel, OtherChannel(PreferredChannel)>>

\* The channel the client names, or the policy's; then the other.
Probed(override) ==
  LET desired == IF override \in Channels THEN override ELSE PreferredChannel
  IN  <<desired, OtherChannel(desired)>>

\* GET /updates/latest, for one platform.
GetEffective(w, override) ==
  /\ Begin(w, "latest", [pc |-> "probe", tried |-> {}, todo |-> Probed(override)])
  /\ steady' = [steady EXCEPT ![w] = Enabled]
  /\ UNCHANGED <<adminVars, providerVars, settingVars, releaseVars>>

EnabledRelease(w) ==
  /\ At(w, "probe")
  /\ IF Head(work[w].todo) \in Enabled THEN Leave(w) ELSE PassOver(w)
  /\ UNCHANGED <<adminVars, providerVars, settingVars, releaseVars>>

-----------------------------------------------------------------------------
ConsoleAbort(w) == Abort(w) /\ steady' = [steady EXCEPT ![w] = {}]
                   /\ UNCHANGED <<adminVars, providerVars, settingVars, releaseVars>>

ConsoleInit ==
  /\ admins = Staff /\ audit = {} /\ sessions = {}
  /\ providers = Models /\ releases = Releases /\ policy = NoRow
  /\ settings = <<>> /\ wanted = ""
  /\ unguarded = FALSE /\ rivals = FALSE
  /\ steady = [w \in Workers |-> {}]

Staffing(w) ==
  \/ \E e \in {p.email : p \in {q \in AdminEdits : "email" \in DOMAIN q}} : CreateAdmin(w, e)
  \/ \E a, b \in AdminIds : DeleteAdmin(w, a, b)
  \/ \E a \in AdminIds : ChangePassword(w, a, "first", "second")
  \/ InsertAdmin(w) \/ GuardLastAdmin(w) \/ SoftDeleteWithAudit(w) \/ UpdatePasswordHash(w)

Prompting(w) ==
  \/ \E p \in ProviderIds \cup {NoRow}, b \in ProviderBodies : SaveProvider(w, p, b)
  \/ DemoteDefaults(w) \/ WriteProvider(w)
  \/ DefaultComplete(w) \/ FailoverOrder(w) \/ TryProvider(w) \/ AnswerNothing(w)

Publishing(w) ==
  \/ \E c \in Channels, b \in ReleaseBodies : UpsertChannel(w, c, b)
  \/ \E c \in Channels \cup {"none"} : GetEffective(w, c) \/ UpsertPolicy(w, c)
  \/ SaveRelease(w) \/ SavePolicy(w) \/ EnabledRelease(w)

ConsoleNext ==
  \/ \E w \in Workers :
       \/ Staffing(w) \/ Prompting(w) \/ Publishing(w)
       \/ GetSettings(w) \/ InsertDefaultSettings(w) \/ ConsoleAbort(w)
  \/ \E a \in AdminIds : \/ \E password \in {"first", "second"} : LoginAdmin(a, password)
                         \/ \E p \in AdminEdits : UpdateAdmin(a, p)
  \/ \E p \in SettingBodies : PatchSettings(p)
  \/ \E p \in ProviderIds : SoftDeleteProvider(p)
  \/ \E c \in Channels : DeleteChannel(c)
=============================================================================
