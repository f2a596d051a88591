-------------------------------- MODULE Quotas --------------------------------
(***************************************************************************)
(* Who may ask for how many rewrites: the rate limiter and the daily quota *)
(* before a stream (rewrite/usecase), the quota of POST /rewrite and the   *)
(* trial limit (rewrite/parity), the plans the limits come from (plans,    *)
(* subscription), the profile a rewrite is personalised with               *)
(* (usercontext), and the rows kept for training (rewritelog).             *)
(*                                                                         *)
(* The stream itself is RewriteStream; what moves a subscription, Billing. *)
(***************************************************************************)
EXTENDS Serving, FiniteSetsExt

CONSTANTS
  Callers, Addresses,           \* accounts, and addresses of trial users
  Rate, TrialLimit,             \* rewrites a minute; trial rewrites a day
  Catalogue,                    \* plans when the model starts, by id
  Subscribed,                   \* and who has an active row of which of them
  PlanBodies, ProfileBodies,    \* inputs of the handlers
  MaxSamples                    \* bound on training rows

PlanIds == DOMAIN Catalogue
PlanRow == [limit : Int, period : STRING, active : BOOLEAN]

ASSUME QuotasAssumption ==
  /\ {Rate, TrialLimit} \subseteq Nat \ {0} /\ MaxSamples \in Nat
  /\ IsFiniteSet(Workers) /\ Workers # {}
  /\ Catalogue \in [PlanIds -> PlanRow \cup {NoRow}] /\ PlanBodies \subseteq PlanRow /\ NoRow \notin PlanRow
  /\ \A u \in DOMAIN Subscribed : Subscribed[u] \in PlanIds /\ Catalogue[Subscribed[u]] \in PlanRow

FreeDailyLimit == 10

VARIABLES
  plans,         \* [limit, period, active]
  subs,          \* the active row of a user: [plan, over]; over: past expires_at
  logged,        \* usage_logs of today
  rate,          \* rewrite rate counter of this minute's bucket
  trial,         \* trial counter of today (UTC)
  profiles,      \* user_contexts: [enabled, notes]
  samples,       \* rewrite_logs, by quality
  streamed,      \* observer: streams finished today
  unlogged,      \* observer: those whose usage row could not be written
  allowance,     \* observer: the highest limit a stream of today was let in under
  tried, opened, \* observer: trials let in today; those Redis was in error for
  private        \* observer: who switched personalisation off with no other write under way

quotaVars  == <<plans, subs, logged, rate, streamed, unlogged, allowance>>
trialVars  == <<trial, tried, opened>>
profileVars == <<profiles, private>>
quotasVars == <<quotaVars, trialVars, profileVars, samples>>

-----------------------------------------------------------------------------
(***************************************************************************)
(* Streams.  The limiter counts first and compares then; without Redis it  *)
(* lets everything pass.                                                   *)
(***************************************************************************)
StreamTask(u) == [pc |-> "find", u |-> u, limit |-> 0]

CheckRate(w, u) ==
  /\ \/ /\ rate' = [rate EXCEPT ![u] = @ + 1]
        /\ IF rate'[u] > Rate THEN Served("stream") ELSE Begin(w, "stream", StreamTask(u))
     \/ /\ Begin(w, "stream", StreamTask(u))
        /\ UNCHANGED rate
  /\ UNCHANGED <<plans, subs, logged, streamed, unlogged, allowance, trialVars, profileVars, samples>>

\* The plan of a row that is not over; without one, a plan of zero.
PlanLimit(u) ==
  IF subs[u] = NoRow \/ subs[u].over THEN 0 ELSE plans[subs[u].plan].limit

FindUserWithPlan(w) ==
  /\ At(w, "find")
  /\ Goto(w, [work[w] EXCEPT !.pc = "used", !.limit = PlanLimit(work[w].u)])
  /\ UNCHANGED quotasVars

\* Faulty variant: one more than the limit.
WithinOneMore(used, limit) == limit <= 0 \/ used <= limit

\* Zero and less are unlimited.
WithinQuota(used, limit) == limit <= 0 \/ used < limit

\* An unlimited stream may be one of as many as there are requests.
Allowed(limit) == IF limit <= 0 THEN MaxRequests ELSE limit

CheckQuota(w) ==
  /\ At(w, "used")
  /\ LET u == work[w].u
     IN  IF WithinQuota(logged[u], work[w].limit)
         THEN /\ Goto(w, [work[w] EXCEPT !.pc = "stream"])
              /\ allowance' = [allowance EXCEPT ![u] = Max({@, Allowed(work[w].limit)})]
         ELSE Finish(w) /\ UNCHANGED allowance
  /\ UNCHANGED <<plans, subs, logged, rate, streamed, unlogged, trialVars, profileVars, samples>>

\* A training row, which may get lost: it is written off the request's path.
Sampled ==
  LET n == Cardinality(Existing(samples)) + 1
  IN  \/ UNCHANGED samples
      \/ n <= MaxSamples /\ samples' = [samples EXCEPT ![n] = "pending"]

\* The stream fails, or finishes and logs its usage, which the database may refuse.
FinishStream(w) ==
  /\ At(w, "stream")
  /\ LET u == work[w].u
     IN  \/ UNCHANGED <<logged, streamed, unlogged, samples>>
         \/ /\ streamed' = [streamed EXCEPT ![u] = @ + 1]
            /\ \/ logged' = [logged EXCEPT ![u] = @ + 1] /\ UNCHANGED unlogged
               \/ unlogged' = [unlogged EXCEPT ![u] = @ + 1] /\ UNCHANGED logged
            /\ Sampled
  /\ Finish(w)
  /\ UNCHANGED <<plans, subs, rate, allowance, trialVars, profileVars>>

\* The next bucket of the limiter.
NextMinute ==
  /\ Served("minute")
  /\ rate' = [u \in Callers |-> 0]
  /\ UNCHANGED <<plans, subs, logged, streamed, unlogged, allowance, trialVars, profileVars, samples>>

\* Midnight of the server; streams already let in finish in the new day.
Streaming(u) == {work[w].limit : w \in {x \in Workers : work[x].pc = "stream" /\ work[x].u = u}}

Midnight ==
  /\ Served("midnight")
  /\ logged' = [u \in Callers |-> 0]
  /\ streamed' = [u \in Callers |-> 0] /\ unlogged' = [u \in Callers |-> 0]
  /\ allowance' = [u \in Callers |-> Max({Allowed(l) : l \in Streaming(u)} \cup {0})]
  /\ UNCHANGED <<plans, subs, rate, trialVars, profileVars, samples>>

-----------------------------------------------------------------------------
(***************************************************************************)
(* POST /rewrite.  It counts the streams but logs no usage of its own.     *)
(***************************************************************************)

\* A paid row, over or not, has its plan's limit; everybody else the free plan's.
Rewrite(w, u, valid) ==
  /\ IF ~valid THEN Served("rewrite")
     ELSE LET paid == subs[u] # NoRow /\ plans[subs[u].plan].period # "none"
          IN  Begin(w, "rewrite", [pc |-> IF paid THEN "count" ELSE "free", u |-> u,
                                   limit |-> IF paid THEN plans[subs[u].plan].limit ELSE 0])
  /\ UNCHANGED quotasVars

FreePlans == {p \in Existing(plans) : plans[p].active /\ plans[p].period = "none"}

FreePlanDailyLimit(w) ==
  /\ At(w, "free")
  /\ \E l \in IF FreePlans = {} THEN {FreeDailyLimit} ELSE {plans[p].limit : p \in FreePlans} :
       Goto(w, [work[w] EXCEPT !.pc = "count", !.limit = l])
  /\ UNCHANGED quotasVars

\* Minus one alone is unlimited here.
CountToday(w) ==
  /\ At(w, "count")
  /\ IF work[w].limit # -1 /\ logged[work[w].u] >= work[w].limit
     THEN Finish(w)
     ELSE Goto(w, [work[w] EXCEPT !.pc = "preamble"])
  /\ UNCHANGED quotasVars

\* Personalised when the profile says so; any error means not.
Preamble(w) ==
  /\ At(w, "preamble")
  /\ \E told \in {FALSE, profiles[work[w].u] # NoRow /\ profiles[work[w].u].enabled} :
       Goto(w, [pc |-> "ai", personal |-> told])
  /\ UNCHANGED quotasVars

CallAI(w) ==
  /\ At(w, "ai")
  /\ Finish(w)
  /\ Sampled
  /\ UNCHANGED <<quotaVars, trialVars, profileVars>>

\* Faulty variant: the counter is compared before it is incremented.
TrialOverBefore(n) == n - 1 > TrialLimit

TrialOver(n) == n > TrialLimit

\* One counter for each address and UTC day.  An error counts as zero, whether
\* or not Redis had incremented the key.
TrialRewrite(w, ip) ==
  /\ \/ /\ trial' = [trial EXCEPT ![ip] = @ + 1]
        /\ UNCHANGED opened
        /\ IF TrialOver(trial'[ip]) THEN Served("trial") /\ UNCHANGED tried
           ELSE /\ Begin(w, "trial", [pc |-> "ai", personal |-> FALSE])
                /\ tried' = [tried EXCEPT ![ip] = @ + 1]
     \/ /\ Begin(w, "trial", [pc |-> "ai", personal |-> FALSE])
        /\ \E n \in {0, 1} : trial' = [trial EXCEPT ![ip] = @ + n]
        /\ tried' = [tried EXCEPT ![ip] = @ + 1]
        /\ opened' = [opened EXCEPT ![ip] = @ + 1]
  /\ UNCHANGED <<quotaVars, profileVars, samples>>

MidnightUTC ==
  /\ Served("trial")
  /\ LET zero == [ip \in Addresses |-> 0]
     IN  trial' = zero /\ tried' = zero /\ opened' = zero
  /\ UNCHANGED <<quotaVars, profileVars, samples>>

-----------------------------------------------------------------------------
(***************************************************************************)
(* Plans: one statement each.  Rows are deactivated, never removed.        *)
(***************************************************************************)
CreatePlan(b) ==
  /\ Served("plans")
  /\ \E p \in PlanIds \ Existing(plans) : plans' = [plans EXCEPT ![p] = [b EXCEPT !.active = TRUE]]
  /\ UNCHANGED <<subs, logged, rate, streamed, unlogged, allowance, trialVars, profileVars, samples>>

UpdatePlan(p, b) ==
  /\ Served("plans") /\ p \in Existing(plans)
  /\ plans' = [plans EXCEPT ![p] = b]
  /\ UNCHANGED <<subs, logged, rate, streamed, unlogged, allowance, trialVars, profileVars, samples>>

SoftDeletePlan(p) ==
  /\ Served("plans") /\ p \in Existing(plans)
  /\ plans' = [plans EXCEPT ![p].active = FALSE]
  /\ UNCHANGED <<subs, logged, rate, streamed, unlogged, allowance, trialVars, profileVars, samples>>

\* A grant, the passing of expires_at, or the daily job (Billing has their statements).
SubscriptionMoves(u) ==
  /\ Served("subscription")
  /\ \E row \in {NoRow} \cup [plan : Existing(plans), over : BOOLEAN] : subs' = [subs EXCEPT ![u] = row]
  /\ UNCHANGED <<plans, logged, rate, streamed, unlogged, allowance, trialVars, profileVars, samples>>

-----------------------------------------------------------------------------
(***************************************************************************)
(* The profile.  PUT loads the row, merges what the body names and upserts *)
(* the whole row; DELETE erases it.                                        *)
(***************************************************************************)
NoProfile == [enabled |-> FALSE, notes |-> ""]

\* Faulty variant: whoever writes a profile wants it used.
MergedEnabled(row, b) ==
  LET old == IF row = NoRow THEN NoProfile ELSE row
  IN  [c \in DOMAIN old |-> IF c \in DOMAIN b THEN b[c] ELSE IF c = "enabled" THEN TRUE ELSE old[c]]

MergedProfile(row, b) ==
  LET old == IF row = NoRow THEN NoProfile ELSE row
  IN  [c \in DOMAIN old |-> IF c \in DOMAIN b THEN b[c] ELSE old[c]]

Profiling(w, u) == work[w].pc = "profile" /\ work[w].u = u

\* Notes beyond the limit are refused.
PutProfile(w, u, b) ==
  /\ LET row == MergedProfile(profiles[u], b)
     IN  IF row.notes = "long" THEN Served("profile")
         ELSE Begin(w, "profile", [pc |-> "profile", u |-> u, row |-> row, named |-> DOMAIN b])
  /\ UNCHANGED quotasVars

UpsertUserContext(w) ==
  /\ At(w, "profile")
  /\ LET u == work[w].u
         alone == ~ \E x \in Workers \ {w} : Profiling(x, u)
     IN  /\ profiles' = [profiles EXCEPT ![u] = work[w].row]
         /\ private' = IF "enabled" \in work[w].named
                       THEN IF ~work[w].row.enabled /\ alone THEN private \cup {u} ELSE private \ {u}
                       ELSE private
  /\ Finish(w)
  /\ UNCHANGED <<quotaVars, trialVars, samples>>

DeleteProfile(u) ==
  /\ Served("profile")
  /\ profiles' = [profiles EXCEPT ![u] = NoRow]
  /\ private' = IF \E x \in Workers : Profiling(x, u) THEN private ELSE private \cup {u}
  /\ UNCHANGED <<quotaVars, trialVars, samples>>

\* Any text is taken for a quality; an unknown id matches no row.
Review(i, quality) ==
  /\ Served("review") /\ i \in Existing(samples)
  /\ samples' = [samples EXCEPT ![i] = quality]
  /\ UNCHANGED <<quotaVars, trialVars, profileVars>>

-----------------------------------------------------------------------------
QuotasAbort(w) == Abort(w) /\ UNCHANGED quotasVars

QuotasInit ==
  /\ plans = Catalogue
  /\ subs = [u \in Callers |-> IF u \in DOMAIN Subscribed
                               THEN [plan |-> Subscribed[u], over |-> FALSE] ELSE NoRow]
  /\ LET zero == [u \in Callers |-> 0]
     IN  logged = zero /\ rate = zero /\ streamed = zero /\ unlogged = zero /\ allowance = zero
  /\ LET zero == [ip \in Addresses |-> 0]
     IN  trial = zero /\ tried = zero /\ opened = zero
  /\ profiles = [u \in Callers |-> NoRow] /\ private = {}
  /\ samples = [i \in 1..MaxSamples |-> NoRow]

Streams(w) ==
  \/ \E u \in Callers : CheckRate(w, u)
  \/ FindUserWithPlan(w) \/ CheckQuota(w) \/ FinishStream(w)

Rewrites(w) ==
  \/ \E u \in Callers, valid \in BOOLEAN : Rewrite(w, u, valid)
  \/ \E ip \in Addresses : TrialRewrite(w, ip)
  \/ FreePlanDailyLimit(w) \/ CountToday(w) \/ Preamble(w) \/ CallAI(w)

QuotasNext ==
  \/ \E w \in Workers :
       \/ Streams(w) \/ Rewrites(w) \/ QuotasAbort(w)
       \/ \E u \in Callers, b \in ProfileBodies : PutProfile(w, u, b)
       \/ UpsertUserContext(w)
  \/ NextMinute \/ Midnight \/ MidnightUTC
  \/ \E b \in PlanBodies : CreatePlan(b) \/ \E p \in PlanIds : UpdatePlan(p, b)
  \/ \E p \in PlanIds : SoftDeletePlan(p)
  \/ \E u \in Callers : SubscriptionMoves(u) \/ DeleteProfile(u)
  \/ \E i \in 1..MaxSamples, q \in {"approved", "any"} : Review(i, q)
=============================================================================
