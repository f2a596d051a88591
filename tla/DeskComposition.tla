------------------------------ MODULE DeskComposition -----------------------------
(***************************************************************************)
(* The back office as a whole, as MCDesk composes it, for any tables,      *)
(* requests, workers and bounds.  The mix of operations a behaviour has is *)
(* constant and tells whose it is, so that a behaviour of the composition  *)
(* is one of that module, and what was proved of the module holds of it.   *)
(* The tables of the other eight stay as they are at the start; what they  *)
(* have in common is the server's workers, and none of those is ever at the *)
(* download of Apple's keys unless it is Apple's turn.                     *)
(***************************************************************************)
EXTENDS MCDesk, DeskProofs, ServiceProofs, ReportProofs

-----------------------------------------------------------------------------
(***************************************************************************)
(* A step takes at most one more request, or cuts one more short, and does *)
(* not change the mix.                                                     *)
(***************************************************************************)
Serves ==
  /\ ops' = ops
  /\ requests' = requests \/ (requests < MaxRequests /\ requests' = requests + 1)
  /\ aborts' = aborts \/ (aborts < MaxAborts /\ aborts' = aborts + 1)


LEMMA CommunityServes == CommunityNext => Serves
<1>1. ASSUME NEW w, NEW b, NEW u, CreateFeedback(w, b, u) PROVE Serves
  BY <1>1 DEF Serves, Arrive, Begin, CreateFeedback, Served
<1>2. ASSUME NEW w, NEW b, NEW shot, NEW u, CreateBug(w, b, shot, u) PROVE Serves
  BY <1>2 DEF Serves, Arrive, Begin, CreateBug, Served
<1>3. ASSUME NEW w, ResolveUserID(w) PROVE Serves
  BY <1>3 DEF Serves, At, ResolveUserID
<1>4. ASSUME NEW w, StoreReport(w) PROVE Serves
  BY <1>4 DEF Serves, At, StoreReport
<1>5. ASSUME NEW w, NEW f, NEW u, ToggleVote(w, f, u) PROVE Serves
  BY <1>5 DEF Serves, Arrive, ToggleVote
<1>6. ASSUME NEW w, VoteExists(w) PROVE Serves
  BY <1>6 DEF Serves, At, VoteExists
<1>7. ASSUME NEW w, InsertVote(w) PROVE Serves
  BY <1>7 DEF Serves, At, InsertVote
<1>8. ASSUME NEW w, DeleteVote(w) PROVE Serves
  BY <1>8 DEF Serves, At, DeleteVote
<1>9. ASSUME NEW w, CountVotes(w) PROVE Serves
  BY <1>9 DEF Serves, At, CountVotes
<1>10. ASSUME NEW w, UpdateVoteCount(w) PROVE Serves
  BY <1>10 DEF Serves, At, UpdateVoteCount
<1>11. ASSUME NEW w, NEW r, NEW p, PatchBug(w, r, p) PROVE Serves
  BY <1>11 DEF Serves, Arrive, Begin, PatchBug, Served
<1>12. ASSUME NEW w, NEW r, SuggestBugFix(w, r) PROVE Serves
  BY <1>12 DEF Serves, Arrive, Begin, Served, SuggestBugFix
<1>13. ASSUME NEW w, AdminUpdate(w) PROVE Serves
  BY <1>13 DEF Serves, AdminUpdate, At
<1>14. ASSUME NEW w, BugFixJob(w) PROVE Serves
  BY <1>14 DEF Serves, Arrive, Begin, BugFixJob, Served
<1>15. ASSUME NEW w, PickBug(w) PROVE Serves
  BY <1>15 DEF Serves, At, PickBug
<1>16. ASSUME NEW w, AdminSetBugFixProposal(w) PROVE Serves
  BY <1>16 DEF Serves, AdminSetBugFixProposal, At
<1>17. ASSUME NEW w, ProviderFails(w) PROVE Serves
  BY <1>17 DEF Serves, At, ProviderFails
<1>18. ASSUME NEW w, NEW p, NEW u, Ingest(w, p, u) PROVE Serves
  BY <1>18 DEF Serves, Arrive, Begin, Ingest
<1>19. ASSUME NEW w, NEW g, SuggestErrorFix(w, g) PROVE Serves
  BY <1>19 DEF Serves, Arrive, Begin, Served, SuggestErrorFix
<1>20. ASSUME NEW w, InsertErrorReport(w) PROVE Serves
  BY <1>20 DEF Serves, At, InsertErrorReport
<1>21. ASSUME NEW w, BumpErrorReport(w) PROVE Serves
  BY <1>21 DEF Serves, At, BumpErrorReport
<1>22. ASSUME NEW w, ErrorFixJob(w) PROVE Serves
  BY <1>22 DEF Serves, Arrive, Begin, ErrorFixJob, Served
<1>23. ASSUME NEW w, PickError(w) PROVE Serves
  BY <1>23 DEF Serves, At, PickError
<1>24. ASSUME NEW w, AdminSetErrorFixProposal(w) PROVE Serves
  BY <1>24 DEF Serves, AdminSetErrorFixProposal, At
<1>25. ASSUME NEW w, CommunityAbort(w) PROVE Serves
  BY <1>25 DEF Serves, Abort, CommunityAbort
<1>26. ASSUME NEW r, DeleteBug(r) PROVE Serves
  BY <1>26 DEF Serves, Arrive, DeleteBug, Served
<1>27. ASSUME NEW g, DeleteError(g) PROVE Serves
  BY <1>27 DEF Serves, Arrive, DeleteError, Served
<1>28. ASSUME NEW g, NEW raw, SetStatusRaw(g, raw) PROVE Serves
  BY <1>28 DEF Serves, Arrive, Served, SetStatusRaw
<1>29. ASSUME NEW u, DeleteMember(u) PROVE Serves
  BY <1>29 DEF Serves, Arrive, DeleteMember
<1> QED
  BY <1>1, <1>2, <1>3, <1>4, <1>5, <1>6, <1>7, <1>8, <1>9, <1>10, <1>11, <1>12, <1>13, <1>14, <1>15,
     <1>16, <1>17, <1>18, <1>19, <1>20, <1>21, <1>22, <1>23, <1>24, <1>25, <1>26, <1>27, <1>28,
     <1>29 DEF CommunityNext, Submission, Toggle, Triage, Crash

LEMMA ConsoleServes == ConsoleNext => Serves
<1>1. ASSUME NEW w, NEW e, CreateAdmin(w, e) PROVE Serves
  BY <1>1 DEF Serves, Arrive, Begin, CreateAdmin, Served
<1>2. ASSUME NEW w, NEW a, NEW b, DeleteAdmin(w, a, b) PROVE Serves
  BY <1>2 DEF Serves, Arrive, Begin, DeleteAdmin, Served
<1>3. ASSUME NEW w, NEW a, NEW c, NEW d, ChangePassword(w, a, c, d) PROVE Serves
  BY <1>3 DEF Serves, Arrive, Begin, ChangePassword, Served
<1>4. ASSUME NEW w, InsertAdmin(w) PROVE Serves
  BY <1>4 DEF Serves, At, InsertAdmin
<1>5. ASSUME NEW w, GuardLastAdmin(w) PROVE Serves
  BY <1>5 DEF Serves, At, GuardLastAdmin
<1>6. ASSUME NEW w, SoftDeleteWithAudit(w) PROVE Serves
  BY <1>6 DEF Serves, At, SoftDeleteWithAudit
<1>7. ASSUME NEW w, UpdatePasswordHash(w) PROVE Serves
  BY <1>7 DEF Serves, At, UpdatePasswordHash
<1>8. ASSUME NEW w, NEW p, NEW b, SaveProvider(w, p, b) PROVE Serves
  BY <1>8 DEF Serves, Arrive, Begin, SaveProvider
<1>9. ASSUME NEW w, DemoteDefaults(w) PROVE Serves
  BY <1>9 DEF Serves, At, DemoteDefaults
<1>10. ASSUME NEW w, WriteProvider(w) PROVE Serves
  BY <1>10 DEF Serves, At, WriteProvider
<1>11. ASSUME NEW w, DefaultComplete(w) PROVE Serves
  BY <1>11 DEF Serves, Arrive, Begin, DefaultComplete, Served
<1>12. ASSUME NEW w, FailoverOrder(w) PROVE Serves
  BY <1>12 DEF Serves, At, FailoverOrder
<1>13. ASSUME NEW w, TryProvider(w) PROVE Serves
  BY <1>13 DEF Serves, At, Leave, PassOver, TryProvider
<1>14. ASSUME NEW w, AnswerNothing(w) PROVE Serves
  BY <1>14 DEF Serves, AnswerNothing, At, Leave
<1>15. ASSUME NEW w, NEW c, NEW b, UpsertChannel(w, c, b) PROVE Serves
  BY <1>15 DEF Serves, Arrive, Begin, UpsertChannel
<1>16. ASSUME NEW w, NEW c, GetEffective(w, c) PROVE Serves
  BY <1>16 DEF Serves, Arrive, Begin, GetEffective
<1>17. ASSUME NEW w, NEW c, UpsertPolicy(w, c) PROVE Serves
  BY <1>17 DEF Serves, Arrive, Begin, UpsertPolicy
<1>18. ASSUME NEW w, SaveRelease(w) PROVE Serves
  BY <1>18 DEF Serves, At, SaveRelease
<1>19. ASSUME NEW w, SavePolicy(w) PROVE Serves
  BY <1>19 DEF Serves, At, SavePolicy
<1>20. ASSUME NEW w, EnabledRelease(w) PROVE Serves
  BY <1>20 DEF Serves, At, EnabledRelease, Leave, PassOver
<1>21. ASSUME NEW w, GetSettings(w) PROVE Serves
  BY <1>21 DEF Serves, Arrive, Begin, GetSettings, Served
<1>22. ASSUME NEW w, InsertDefaultSettings(w) PROVE Serves
  BY <1>22 DEF Serves, At, InsertDefaultSettings
<1>23. ASSUME NEW w, ConsoleAbort(w) PROVE Serves
  BY <1>23 DEF Serves, Abort, ConsoleAbort
<1>24. ASSUME NEW a, NEW p, LoginAdmin(a, p) PROVE Serves
  BY <1>24 DEF Serves, Arrive, LoginAdmin, Served
<1>25. ASSUME NEW a, NEW p, UpdateAdmin(a, p) PROVE Serves
  BY <1>25 DEF Serves, Arrive, Served, UpdateAdmin
<1>26. ASSUME NEW p, PatchSettings(p) PROVE Serves
  BY <1>26 DEF Serves, Arrive, PatchSettings, Served
<1>27. ASSUME NEW p, SoftDeleteProvider(p) PROVE Serves
  BY <1>27 DEF Serves, Arrive, Served, SoftDeleteProvider
<1>28. ASSUME NEW c, DeleteChannel(c) PROVE Serves
  BY <1>28 DEF Serves, Arrive, DeleteChannel, Served
<1> QED
  BY <1>1, <1>2, <1>3, <1>4, <1>5, <1>6, <1>7, <1>8, <1>9, <1>10, <1>11, <1>12, <1>13, <1>14, <1>15,
     <1>16, <1>17, <1>18, <1>19, <1>20, <1>21, <1>22, <1>23, <1>24, <1>25, <1>26, <1>27, <1>28 DEF
     ConsoleNext, Staffing, Prompting, Publishing

LEMMA QuotasServes == QuotasNext => Serves
<1>1. ASSUME NEW w, NEW u, CheckRate(w, u) PROVE Serves
  BY <1>1 DEF Serves, Arrive, Begin, CheckRate, Served
<1>2. ASSUME NEW w, FindUserWithPlan(w) PROVE Serves
  BY <1>2 DEF Serves, At, FindUserWithPlan
<1>3. ASSUME NEW w, CheckQuota(w) PROVE Serves
  BY <1>3 DEF Serves, At, CheckQuota
<1>4. ASSUME NEW w, FinishStream(w) PROVE Serves
  BY <1>4 DEF Serves, At, FinishStream, Sampled
<1>5. ASSUME NEW w, NEW u, NEW valid, Rewrite(w, u, valid) PROVE Serves
  BY <1>5 DEF Serves, Arrive, Begin, Rewrite, Served
<1>6. ASSUME NEW w, NEW ip, TrialRewrite(w, ip) PROVE Serves
  BY <1>6 DEF Serves, Arrive, Begin, Served, TrialRewrite
<1>7. ASSUME NEW w, FreePlanDailyLimit(w) PROVE Serves
  BY <1>7 DEF Serves, At, FreePlanDailyLimit
<1>8. ASSUME NEW w, CountToday(w) PROVE Serves
  BY <1>8 DEF Serves, At, CountToday
<1>9. ASSUME NEW w, Preamble(w) PROVE Serves
  BY <1>9 DEF Serves, At, Preamble
<1>10. ASSUME NEW w, CallAI(w) PROVE Serves
  BY <1>10 DEF Serves, At, CallAI, Sampled
<1>11. ASSUME NEW w, QuotasAbort(w) PROVE Serves
  BY <1>11 DEF Serves, Abort, QuotasAbort
<1>12. ASSUME NEW w, NEW u, NEW b, PutProfile(w, u, b) PROVE Serves
  BY <1>12 DEF Serves, Arrive, Begin, PutProfile, Served
<1>13. ASSUME NEW w, UpsertUserContext(w) PROVE Serves
  BY <1>13 DEF Serves, At, UpsertUserContext
<1>14. ASSUME NextMinute PROVE Serves
  BY <1>14 DEF Serves, Arrive, NextMinute, Served
<1>15. ASSUME Midnight PROVE Serves
  BY <1>15 DEF Serves, Arrive, Midnight, Served
<1>16. ASSUME MidnightUTC PROVE Serves
  BY <1>16 DEF Serves, Arrive, MidnightUTC, Served
<1>17. ASSUME NEW b, CreatePlan(b) PROVE Serves
  BY <1>17 DEF Serves, Arrive, CreatePlan, Served
<1>18. ASSUME NEW p, NEW b, UpdatePlan(p, b) PROVE Serves
  BY <1>18 DEF Serves, Arrive, Served, UpdatePlan
<1>19. ASSUME NEW p, SoftDeletePlan(p) PROVE Serves
  BY <1>19 DEF Serves, Arrive, Served, SoftDeletePlan
<1>20. ASSUME NEW u, SubscriptionMoves(u) PROVE Serves
  BY <1>20 DEF Serves, Arrive, Served, SubscriptionMoves
<1>21. ASSUME NEW u, DeleteProfile(u) PROVE Serves
  BY <1>21 DEF Serves, Arrive, DeleteProfile, Served
<1>22. ASSUME NEW i, NEW q, Review(i, q) PROVE Serves
  BY <1>22 DEF Serves, Arrive, Review, Served
<1> QED
  BY <1>1, <1>2, <1>3, <1>4, <1>5, <1>6, <1>7, <1>8, <1>9, <1>10, <1>11, <1>12, <1>13, <1>14, <1>15,
     <1>16, <1>17, <1>18, <1>19, <1>20, <1>21, <1>22 DEF QuotasNext, Streams, Rewrites

LEMMA ListingServes == ListingNext => Serves
<1>1. ASSUME NEW q, ListAll(q) PROVE Serves
  BY <1>1 DEF Serves, Arrive, ListAll, Served
<1>2. ASSUME NEW w, NEW q, ListPage(w, q) PROVE Serves
  BY <1>2 DEF Serves, Arrive, Begin, ListPage, Served
<1>3. ASSUME NEW i, NEW r, WriteRow(i, r) PROVE Serves
  BY <1>3 DEF Serves, Arrive, Served, WriteRow
<1>4. ASSUME NEW w, CountRows(w) PROVE Serves
  BY <1>4 DEF Serves, At, CountRows
<1>5. ASSUME NEW w, ListFeatures(w) PROVE Serves
  BY <1>5 DEF Serves, At, ListFeatures
<1>6. ASSUME NEW w, FeedMerge(w) PROVE Serves
  BY <1>6 DEF Serves, At, FeedMerge
<1>7. ASSUME NEW w, InboxCounts(w) PROVE Serves
  BY <1>7 DEF Serves, Arrive, Begin, InboxCounts
<1>8. ASSUME NEW w, ListingAbort(w) PROVE Serves
  BY <1>8 DEF Serves, Abort, ListingAbort
<1>9. ASSUME NEW w, CountMore(w, "features", "feature", "errors") PROVE Serves
  BY <1>9 DEF Serves, At, CountMore
<1>10. ASSUME NEW w, CountMore(w, "errors", "error", "done") PROVE Serves
  BY <1>10 DEF Serves, At, CountMore
<1>11. ASSUME NEW w, NEW n, NEW kind, NEW open, FeedFor(w, n, kind, open) PROVE Serves
  BY <1>11 DEF Serves, Arrive, Begin, FeedFor, Served
<1> QED
  BY <1>1, <1>2, <1>3, <1>4, <1>5, <1>6, <1>7, <1>8, <1>9, <1>10, <1>11 DEF ListingNext

LEMMA NoticesServes == NoticesNext => Serves
  BY DEF Serves, Abort, Announce, AppleWebhook, Arrive, At, Begin, CachedToken, CreateCheckout,
     FetchNextBilling, FetchToken, HandleProviderNotification, HandleWebhook, NoticesAbort,
     NoticesNext, PayPalCheckout, PayPalOrder, PayPalWebhook, Restart, RotateAtProvider,
     SaveMethods, SaveSetting, Served, SignedWebhook, TokenExpires, TokenFails, VerifyPayPal,
     VietQRWebhook, servingVars

LEMMA GatesServes == GatesNext => Serves
  BY DEF Serves, Abort, Arrive, AskConsole, AskMember, AskOptional, AskRewrite, AskRewriteExt,
     AskVote, At, Begin, DeleteAccount, GatesAbort, GatesNext, GenerateTokens, Login, ManagerLogin,
     Mint, Refresh, Revoke, Routed, Served, SetLifetime, Tick, UpdateManager, UpdateUser,
     servingVars

LEMMA MailServes == MailNext => Serves
  BY DEF Serves, Arrive, Deliver, Exit, ExpireLapsed, FailSecondPass, IsSuppressed, LogSend,
     MailNext, MissRun, NextHalfday, ReceiveReport, RejectReport, ReportOn, RunOnce, SaveMailKey,
     SendMail, Sending, Served, Subscribe, Unsubscribe, servingVars

LEMMA LedgerServes == LedgerNext => Serves
  BY DEF Serves, Abort, Analytics, Arrive, At, Begin, Churn, Churned, Grant, LedgerAbort,
     LedgerNext, ListPlans, NewSubs, NextMonth, PatchMenu, Reading, Revenue, Served, servingVars

LEMMA AppleServes == AppleNext => Serves
  BY DEF Serves, AppleNext, ApplePublicKey, AppleRestart, Arrive, At, Begin, FetchAppleKeys,
     FetchFails, Hour, Lock, Publish, VerifyApple, Withdraw, servingVars

-----------------------------------------------------------------------------
(***************************************************************************)
(* Every task has a pc, and it is the download in AppleKeys alone.         *)
(***************************************************************************)
NoDownload(t) == "pc" \in DOMAIN t /\ t.pc # "download"
NoneDownloads == work = [w \in Workers |-> work[w]] /\ \A w \in Workers : NoDownload(work[w])

\* No task changes.
LEMMA NothingAsked == ASSUME NoneDownloads, UNCHANGED work PROVE NoneDownloads'
  BY DEF NoneDownloads, NoDownload

\* One worker goes on with t.
LEMMA Given ==
  ASSUME NoneDownloads, NEW w \in Workers, NEW t, NoDownload(t), Goto(w, t)
  PROVE  NoneDownloads'
  BY DEF NoneDownloads, NoDownload, Goto

\* The next of a list of candidates, as Console has it.
LEMMA Passed == ASSUME NoneDownloads, NEW w \in Workers, PassOver(w) PROVE NoneDownloads'
<1> DEFINE pc == IF Len(work[w].todo) = 1 THEN "nothing" ELSE work[w].pc
           t  == [work[w] EXCEPT !.tried = @ \cup {Head(work[w].todo)}, !.todo = Tail(@), !.pc = pc]
<1>1. NoDownload(work[w])
  BY DEF NoneDownloads
<1>2. pc # "download"
  BY <1>1 DEF NoDownload
<1> HIDE DEF pc
<1>3. NoDownload(t)
  BY <1>1, <1>2 DEF NoDownload
<1>4. Goto(w, t)
  BY DEF PassOver, pc
<1> QED
  BY <1>3, <1>4, Given

LEMMA CommunityAsks == ASSUME NoneDownloads, CommunityNext PROVE NoneDownloads'
<1>1. ASSUME NEW w \in Workers, NEW b, NEW u, CreateFeedback(w, b, u) PROVE NoneDownloads'
  BY <1>1 DEF NoneDownloads, NoDownload, Arrive, Begin, CreateFeedback, Idle, Served
<1>2. ASSUME NEW w \in Workers, NEW b, NEW shot, NEW u, CreateBug(w, b, shot, u) PROVE NoneDownloads'
  BY <1>2 DEF NoneDownloads, NoDownload, Arrive, Begin, CreateBug, Idle, Served
<1>3. ASSUME NEW w \in Workers, ResolveUserID(w) PROVE NoneDownloads'
  BY <1>3 DEF NoneDownloads, NoDownload, At, Goto, ResolveUserID
<1>4. ASSUME NEW w \in Workers, StoreReport(w) PROVE NoneDownloads'
  BY <1>4 DEF NoneDownloads, NoDownload, At, Finish, Goto, Idle, StoreReport
<1>5. ASSUME NEW w \in Workers, NEW f, NEW u, ToggleVote(w, f, u) PROVE NoneDownloads'
  <2>1. CASE UNCHANGED work
    BY <2>1, NothingAsked
  <2>2. CASE work' = [Disturb(f, work) EXCEPT ![w] = [pc |-> "seek", f |-> f, u |-> u,
                                                    solo |-> ~\E x \in Workers : Voting(x, f), n |-> 0]]
    <3>1. \A x \in Workers : NoDownload(Disturb(f, work)[x])
      BY DEF NoneDownloads, NoDownload, Disturb
    <3>2. Disturb(f, work) = [x \in Workers |-> Disturb(f, work)[x]]
      BY DEF Disturb
    <3> QED
      BY <2>2, <3>1, <3>2 DEF NoneDownloads, NoDownload
  <2> QED
    BY <1>5, <2>1, <2>2 DEF ToggleVote
<1>6. ASSUME NEW w \in Workers, VoteExists(w) PROVE NoneDownloads'
  BY <1>6 DEF NoneDownloads, NoDownload, At, Goto, VoteExists
<1>7. ASSUME NEW w \in Workers, InsertVote(w) PROVE NoneDownloads'
  BY <1>7 DEF NoneDownloads, NoDownload, At, Finish, Goto, Idle, InsertVote
<1>8. ASSUME NEW w \in Workers, DeleteVote(w) PROVE NoneDownloads'
  BY <1>8 DEF NoneDownloads, NoDownload, At, DeleteVote, Goto
<1>9. ASSUME NEW w \in Workers, CountVotes(w) PROVE NoneDownloads'
  BY <1>9 DEF NoneDownloads, NoDownload, At, CountVotes, Goto
<1>10. ASSUME NEW w \in Workers, UpdateVoteCount(w) PROVE NoneDownloads'
  BY <1>10 DEF NoneDownloads, NoDownload, At, Finish, Goto, Idle, UpdateVoteCount
<1>11. ASSUME NEW w \in Workers, NEW r, NEW p, PatchBug(w, r, p) PROVE NoneDownloads'
  BY <1>11 DEF NoneDownloads, NoDownload, Arrive, Begin, Idle, PatchBug, Served
<1>12. ASSUME NEW w \in Workers, NEW r, SuggestBugFix(w, r) PROVE NoneDownloads'
  BY <1>12 DEF NoneDownloads, NoDownload, Arrive, Ask, Begin, Idle, Served, SuggestBugFix
<1>13. ASSUME NEW w \in Workers, AdminUpdate(w) PROVE NoneDownloads'
  BY <1>13 DEF NoneDownloads, NoDownload, AdminUpdate, At, Finish, Goto, Idle
<1>14. ASSUME NEW w \in Workers, BugFixJob(w) PROVE NoneDownloads'
  BY <1>14 DEF NoneDownloads, NoDownload, Arrive, Begin, BugFixJob, Idle, Served
<1>15. ASSUME NEW w \in Workers, PickBug(w) PROVE NoneDownloads'
  <2>1. PICK r \in work[w].todo : \E t : Goto(w, t) /\ t \in {Ask("bug", r, reports[r].status, work[w].todo \ {r}), Idle,
                                                     [work[w] EXCEPT !.todo = work[w].todo \ {r}]}
    BY <1>15 DEF PickBug
  <2>2. NoDownload(work[w])
    BY DEF NoneDownloads
  <2> QED
    BY <2>1, <2>2, Given DEF Ask, Idle, NoDownload
<1>16. ASSUME NEW w \in Workers, AdminSetBugFixProposal(w) PROVE NoneDownloads'
  <2>1. NoDownload(After(w))
    BY DEF After, Idle, NoDownload
  <2> QED
    BY <1>16, <2>1, Given DEF AdminSetBugFixProposal
<1>17. ASSUME NEW w \in Workers, ProviderFails(w) PROVE NoneDownloads'
  <2>1. NoDownload(After(w))
    BY DEF After, Idle, NoDownload
  <2> QED
    BY <1>17, <2>1, Given DEF ProviderFails
<1>18. ASSUME NEW w \in Workers, NEW p, NEW u, Ingest(w, p, u) PROVE NoneDownloads'
  BY <1>18 DEF NoneDownloads, NoDownload, Arrive, Begin, Idle, Ingest
<1>19. ASSUME NEW w \in Workers, NEW g, SuggestErrorFix(w, g) PROVE NoneDownloads'
  BY <1>19 DEF NoneDownloads, NoDownload, Arrive, Ask, Begin, Idle, Served, SuggestErrorFix
<1>20. ASSUME NEW w \in Workers, InsertErrorReport(w) PROVE NoneDownloads'
  BY <1>20 DEF NoneDownloads, NoDownload, Accept, At, Finish, Goto, Idle, InsertErrorReport
<1>21. ASSUME NEW w \in Workers, BumpErrorReport(w) PROVE NoneDownloads'
  BY <1>21 DEF NoneDownloads, NoDownload, Accept, At, BumpErrorReport, Finish, Goto, Idle
<1>22. ASSUME NEW w \in Workers, ErrorFixJob(w) PROVE NoneDownloads'
  BY <1>22 DEF NoneDownloads, NoDownload, Arrive, Begin, ErrorFixJob, Idle, Served
<1>23. ASSUME NEW w \in Workers, PickError(w) PROVE NoneDownloads'
  <2>1. PICK g \in work[w].todo : \E t : Goto(w, t) /\ t \in {Ask("error", g, 0, work[w].todo \ {g}), Idle,
                                                     [work[w] EXCEPT !.todo = work[w].todo \ {g}]}
    BY <1>23 DEF PickError
  <2>2. NoDownload(work[w])
    BY DEF NoneDownloads
  <2> QED
    BY <2>1, <2>2, Given DEF Ask, Idle, NoDownload
<1>24. ASSUME NEW w \in Workers, AdminSetErrorFixProposal(w) PROVE NoneDownloads'
  <2>1. NoDownload(After(w))
    BY DEF After, Idle, NoDownload
  <2> QED
    BY <1>24, <2>1, Given DEF AdminSetErrorFixProposal
<1>25. ASSUME NEW w \in Workers, CommunityAbort(w) PROVE NoneDownloads'
  BY <1>25 DEF NoneDownloads, NoDownload, Abort, CommunityAbort, Finish, Goto, Idle
<1>26. ASSUME NEW r, DeleteBug(r) PROVE NoneDownloads'
  BY <1>26, NothingAsked DEF Arrive, DeleteBug, Served
<1>27. ASSUME NEW g, DeleteError(g) PROVE NoneDownloads'
  BY <1>27, NothingAsked DEF Arrive, DeleteError, Served
<1>28. ASSUME NEW g, NEW raw, SetStatusRaw(g, raw) PROVE NoneDownloads'
  BY <1>28, NothingAsked DEF Arrive, Served, SetStatusRaw
<1>29. ASSUME NEW u, DeleteMember(u) PROVE NoneDownloads'
  BY <1>29 DEF NoneDownloads, NoDownload, Arrive, DeleteMember
<1> QED
  BY <1>1, <1>2, <1>3, <1>4, <1>5, <1>6, <1>7, <1>8, <1>9, <1>10, <1>11, <1>12, <1>13, <1>14, <1>15,
     <1>16, <1>17, <1>18, <1>19, <1>20, <1>21, <1>22, <1>23, <1>24, <1>25, <1>26, <1>27, <1>28,
     <1>29 DEF CommunityNext, Submission, Toggle, Triage, Crash

LEMMA ConsoleAsks == ASSUME NoneDownloads, ConsoleNext PROVE NoneDownloads'
<1>1. ASSUME NEW w \in Workers, NEW e, CreateAdmin(w, e) PROVE NoneDownloads'
  BY <1>1 DEF NoneDownloads, NoDownload, Arrive, Begin, CreateAdmin, Idle, Served
<1>2. ASSUME NEW w \in Workers, NEW a, NEW b, DeleteAdmin(w, a, b) PROVE NoneDownloads'
  BY <1>2 DEF NoneDownloads, NoDownload, Arrive, Begin, DeleteAdmin, Idle, Served
<1>3. ASSUME NEW w \in Workers, NEW a, NEW c, NEW d, ChangePassword(w, a, c, d) PROVE NoneDownloads'
  BY <1>3 DEF NoneDownloads, NoDownload, Arrive, Begin, ChangePassword, Idle, Served
<1>4. ASSUME NEW w \in Workers, InsertAdmin(w) PROVE NoneDownloads'
  BY <1>4 DEF NoneDownloads, NoDownload, At, Finish, Goto, Idle, InsertAdmin
<1>5. ASSUME NEW w \in Workers, GuardLastAdmin(w) PROVE NoneDownloads'
  <2>1. NoDownload(Idle) /\ NoDownload([work[w] EXCEPT !.pc = "retire", !.counted = TRUE])
    BY DEF NoneDownloads, NoDownload, Idle
  <2> QED
    BY <1>5, <2>1, Given DEF GuardLastAdmin, Finish
<1>6. ASSUME NEW w \in Workers, SoftDeleteWithAudit(w) PROVE NoneDownloads'
  BY <1>6 DEF NoneDownloads, NoDownload, At, Finish, Goto, Idle, SoftDeleteWithAudit
<1>7. ASSUME NEW w \in Workers, UpdatePasswordHash(w) PROVE NoneDownloads'
  BY <1>7 DEF NoneDownloads, NoDownload, At, Finish, Goto, Idle, UpdatePasswordHash
<1>8. ASSUME NEW w \in Workers, NEW p, NEW b, SaveProvider(w, p, b) PROVE NoneDownloads'
  BY <1>8 DEF NoneDownloads, NoDownload, Arrive, Begin, Idle, SaveProvider
<1>9. ASSUME NEW w \in Workers, DemoteDefaults(w) PROVE NoneDownloads'
  BY <1>9 DEF NoneDownloads, NoDownload, At, DemoteDefaults, Goto
<1>10. ASSUME NEW w \in Workers, WriteProvider(w) PROVE NoneDownloads'
  BY <1>10 DEF NoneDownloads, NoDownload, At, Finish, Goto, Idle, WriteProvider
<1>11. ASSUME NEW w \in Workers, DefaultComplete(w) PROVE NoneDownloads'
  BY <1>11 DEF NoneDownloads, NoDownload, Arrive, Begin, DefaultComplete, Idle, Served
<1>12. ASSUME NEW w \in Workers, FailoverOrder(w) PROVE NoneDownloads'
  BY <1>12 DEF NoneDownloads, NoDownload, At, FailoverOrder, Goto
<1>13. ASSUME NEW w \in Workers, TryProvider(w) PROVE NoneDownloads'
  <2>1. NoDownload(Idle)
    BY DEF NoDownload, Idle
  <2>2. CASE Leave(w)
    BY <2>1, <2>2, Given DEF Leave, Finish
  <2>3. CASE PassOver(w)
    BY <2>3, Passed
  <2> QED
    BY <1>13, <2>2, <2>3 DEF TryProvider
<1>14. ASSUME NEW w \in Workers, AnswerNothing(w) PROVE NoneDownloads'
  BY <1>14 DEF NoneDownloads, NoDownload, AnswerNothing, At, Finish, Goto, Idle, Leave
<1>15. ASSUME NEW w \in Workers, NEW c, NEW b, UpsertChannel(w, c, b) PROVE NoneDownloads'
  BY <1>15 DEF NoneDownloads, NoDownload, Arrive, Begin, Idle, UpsertChannel
<1>16. ASSUME NEW w \in Workers, NEW c, GetEffective(w, c) PROVE NoneDownloads'
  BY <1>16 DEF NoneDownloads, NoDownload, Arrive, Begin, GetEffective, Idle
<1>17. ASSUME NEW w \in Workers, NEW c, UpsertPolicy(w, c) PROVE NoneDownloads'
  BY <1>17 DEF NoneDownloads, NoDownload, Arrive, Begin, Idle, UpsertPolicy
<1>18. ASSUME NEW w \in Workers, SaveRelease(w) PROVE NoneDownloads'
  BY <1>18 DEF NoneDownloads, NoDownload, At, Finish, Goto, Idle, SaveRelease
<1>19. ASSUME NEW w \in Workers, SavePolicy(w) PROVE NoneDownloads'
  BY <1>19 DEF NoneDownloads, NoDownload, At, Finish, Goto, Idle, SavePolicy
<1>20. ASSUME NEW w \in Workers, EnabledRelease(w) PROVE NoneDownloads'
  <2>1. NoDownload(Idle)
    BY DEF NoDownload, Idle
  <2>2. CASE Leave(w)
    BY <2>1, <2>2, Given DEF Leave, Finish
  <2>3. CASE PassOver(w)
    BY <2>3, Passed
  <2> QED
    BY <1>20, <2>2, <2>3 DEF EnabledRelease
<1>21. ASSUME NEW w \in Workers, GetSettings(w) PROVE NoneDownloads'
  BY <1>21 DEF NoneDownloads, NoDownload, Arrive, Begin, GetSettings, Idle, Served
<1>22. ASSUME NEW w \in Workers, InsertDefaultSettings(w) PROVE NoneDownloads'
  BY <1>22 DEF NoneDownloads, NoDownload, At, Finish, Goto, Idle, InsertDefaultSettings
<1>23. ASSUME NEW w \in Workers, ConsoleAbort(w) PROVE NoneDownloads'
  BY <1>23 DEF NoneDownloads, NoDownload, Abort, ConsoleAbort, Finish, Goto, Idle
<1>24. ASSUME NEW a, NEW p, LoginAdmin(a, p) PROVE NoneDownloads'
  BY <1>24, NothingAsked DEF Arrive, LoginAdmin, Served
<1>25. ASSUME NEW a, NEW p, UpdateAdmin(a, p) PROVE NoneDownloads'
  BY <1>25, NothingAsked DEF Arrive, Served, UpdateAdmin
<1>26. ASSUME NEW p, PatchSettings(p) PROVE NoneDownloads'
  BY <1>26, NothingAsked DEF Arrive, PatchSettings, Served
<1>27. ASSUME NEW p, SoftDeleteProvider(p) PROVE NoneDownloads'
  BY <1>27, NothingAsked DEF Arrive, Served, SoftDeleteProvider
<1>28. ASSUME NEW c, DeleteChannel(c) PROVE NoneDownloads'
  BY <1>28, NothingAsked DEF Arrive, DeleteChannel, Served
<1> QED
  BY <1>1, <1>2, <1>3, <1>4, <1>5, <1>6, <1>7, <1>8, <1>9, <1>10, <1>11, <1>12, <1>13, <1>14, <1>15,
     <1>16, <1>17, <1>18, <1>19, <1>20, <1>21, <1>22, <1>23, <1>24, <1>25, <1>26, <1>27, <1>28 DEF
     ConsoleNext, Staffing, Prompting, Publishing

LEMMA QuotasAsks == ASSUME NoneDownloads, QuotasNext PROVE NoneDownloads'
<1>1. ASSUME NEW w \in Workers, NEW u, CheckRate(w, u) PROVE NoneDownloads'
  BY <1>1 DEF NoneDownloads, NoDownload, Arrive, Begin, CheckRate, Idle, Served, StreamTask
<1>2. ASSUME NEW w \in Workers, FindUserWithPlan(w) PROVE NoneDownloads'
  BY <1>2 DEF NoneDownloads, NoDownload, At, FindUserWithPlan, Goto
<1>3. ASSUME NEW w \in Workers, CheckQuota(w) PROVE NoneDownloads'
  BY <1>3 DEF NoneDownloads, NoDownload, At, CheckQuota, Finish, Goto, Idle
<1>4. ASSUME NEW w \in Workers, FinishStream(w) PROVE NoneDownloads'
  BY <1>4 DEF NoneDownloads, NoDownload, At, Finish, FinishStream, Goto, Idle, Sampled
<1>5. ASSUME NEW w \in Workers, NEW u, NEW valid, Rewrite(w, u, valid) PROVE NoneDownloads'
  BY <1>5 DEF NoneDownloads, NoDownload, Arrive, Begin, Idle, Rewrite, Served
<1>6. ASSUME NEW w \in Workers, NEW ip, TrialRewrite(w, ip) PROVE NoneDownloads'
  BY <1>6 DEF NoneDownloads, NoDownload, Arrive, Begin, Idle, Served, TrialRewrite
<1>7. ASSUME NEW w \in Workers, FreePlanDailyLimit(w) PROVE NoneDownloads'
  BY <1>7 DEF NoneDownloads, NoDownload, At, FreePlanDailyLimit, Goto
<1>8. ASSUME NEW w \in Workers, CountToday(w) PROVE NoneDownloads'
  BY <1>8 DEF NoneDownloads, NoDownload, At, CountToday, Finish, Goto, Idle
<1>9. ASSUME NEW w \in Workers, Preamble(w) PROVE NoneDownloads'
  BY <1>9 DEF NoneDownloads, NoDownload, At, Goto, Preamble
<1>10. ASSUME NEW w \in Workers, CallAI(w) PROVE NoneDownloads'
  BY <1>10 DEF NoneDownloads, NoDownload, At, CallAI, Finish, Goto, Idle, Sampled
<1>11. ASSUME NEW w \in Workers, QuotasAbort(w) PROVE NoneDownloads'
  BY <1>11 DEF NoneDownloads, NoDownload, Abort, Finish, Goto, Idle, QuotasAbort
<1>12. ASSUME NEW w \in Workers, NEW u, NEW b, PutProfile(w, u, b) PROVE NoneDownloads'
  BY <1>12 DEF NoneDownloads, NoDownload, Arrive, Begin, Idle, PutProfile, Served
<1>13. ASSUME NEW w \in Workers, UpsertUserContext(w) PROVE NoneDownloads'
  BY <1>13 DEF NoneDownloads, NoDownload, At, Finish, Goto, Idle, UpsertUserContext
<1>14. ASSUME NextMinute PROVE NoneDownloads'
  BY <1>14, NothingAsked DEF Arrive, NextMinute, Served
<1>15. ASSUME Midnight PROVE NoneDownloads'
  BY <1>15, NothingAsked DEF Arrive, Midnight, Served
<1>16. ASSUME MidnightUTC PROVE NoneDownloads'
  BY <1>16, NothingAsked DEF Arrive, MidnightUTC, Served
<1>17. ASSUME NEW b, CreatePlan(b) PROVE NoneDownloads'
  BY <1>17, NothingAsked DEF Arrive, CreatePlan, Served
<1>18. ASSUME NEW p, NEW b, UpdatePlan(p, b) PROVE NoneDownloads'
  BY <1>18, NothingAsked DEF Arrive, Served, UpdatePlan
<1>19. ASSUME NEW p, SoftDeletePlan(p) PROVE NoneDownloads'
  BY <1>19, NothingAsked DEF Arrive, Served, SoftDeletePlan
<1>20. ASSUME NEW u, SubscriptionMoves(u) PROVE NoneDownloads'
  BY <1>20, NothingAsked DEF Arrive, Served, SubscriptionMoves
<1>21. ASSUME NEW u, DeleteProfile(u) PROVE NoneDownloads'
  BY <1>21, NothingAsked DEF Arrive, DeleteProfile, Served
<1>22. ASSUME NEW i, NEW q, Review(i, q) PROVE NoneDownloads'
  BY <1>22, NothingAsked DEF Arrive, Review, Served
<1> QED
  BY <1>1, <1>2, <1>3, <1>4, <1>5, <1>6, <1>7, <1>8, <1>9, <1>10, <1>11, <1>12, <1>13, <1>14, <1>15,
     <1>16, <1>17, <1>18, <1>19, <1>20, <1>21, <1>22 DEF QuotasNext, Streams, Rewrites

LEMMA ListingAsks == ASSUME NoneDownloads, ListingNext PROVE NoneDownloads'
<1>1. ASSUME NEW q, ListAll(q) PROVE NoneDownloads'
  BY <1>1, NothingAsked DEF Arrive, ListAll, Served
<1>2. ASSUME NEW w \in Workers, NEW q, ListPage(w, q) PROVE NoneDownloads'
  BY <1>2 DEF NoneDownloads, NoDownload, Arrive, Begin, Idle, ListPage, Served
<1>3. ASSUME NEW i, NEW r, WriteRow(i, r) PROVE NoneDownloads'
  BY <1>3, NothingAsked DEF Arrive, Served, WriteRow
<1>4. ASSUME NEW w \in Workers, CountRows(w) PROVE NoneDownloads'
  BY <1>4 DEF NoneDownloads, NoDownload, At, CountRows, Finish, Goto, Idle, Shows
<1>5. ASSUME NEW w \in Workers, ListFeatures(w) PROVE NoneDownloads'
  BY <1>5 DEF NoneDownloads, NoDownload, At, Finish, Goto, Idle, ListFeatures, Shows
<1>6. ASSUME NEW w \in Workers, FeedMerge(w) PROVE NoneDownloads'
  BY <1>6 DEF NoneDownloads, NoDownload, At, FeedMerge, Finish, Goto, Idle
<1>7. ASSUME NEW w \in Workers, InboxCounts(w) PROVE NoneDownloads'
  BY <1>7 DEF NoneDownloads, NoDownload, Arrive, Begin, Idle, InboxCounts
<1>8. ASSUME NEW w \in Workers, ListingAbort(w) PROVE NoneDownloads'
  BY <1>8 DEF NoneDownloads, NoDownload, Abort, Finish, Goto, Idle, ListingAbort
<1>9. ASSUME NEW w \in Workers, CountMore(w, "features", "feature", "errors") PROVE NoneDownloads'
  BY <1>9 DEF NoneDownloads, NoDownload, At, CountMore, Finish, Goto, Idle
<1>10. ASSUME NEW w \in Workers, CountMore(w, "errors", "error", "done") PROVE NoneDownloads'
  BY <1>10 DEF NoneDownloads, NoDownload, At, CountMore, Finish, Goto, Idle
<1>11. ASSUME NEW w \in Workers, NEW n, NEW kind, NEW open, FeedFor(w, n, kind, open) PROVE NoneDownloads'
  <2>1. \A l, v, items :
          NoDownload([pc |-> "bugs", limit |-> l, kind |-> kind, open |-> open, at |-> v, items |-> items])
    BY DEF NoDownload
  <2>2. UNCHANGED work \/ \E t : Goto(w, t) /\ NoDownload(t)
    BY <1>11, <2>1 DEF FeedFor, Begin, Served, Goto
  <2> QED
    BY <2>2, Given, NothingAsked
<1> QED
  BY <1>1, <1>2, <1>3, <1>4, <1>5, <1>6, <1>7, <1>8, <1>9, <1>10, <1>11 DEF ListingNext

LEMMA GatesAsks == ASSUME NoneDownloads, GatesNext PROVE NoneDownloads'
<1>1. ASSUME NEW w \in Workers, NEW u, Login(w, u) PROVE NoneDownloads'
  BY <1>1 DEF NoneDownloads, NoDownload, Arrive, Begin, Idle, Login, Sign
<1>2. ASSUME NEW w \in Workers, NEW t, Refresh(w, t) PROVE NoneDownloads'
  BY <1>2 DEF NoneDownloads, NoDownload, Arrive, Begin, Idle, Refresh, Sign
<1>3. ASSUME NEW w \in Workers, GenerateTokens(w) PROVE NoneDownloads'
  BY <1>3 DEF NoneDownloads, NoDownload, At, Finish, GenerateTokens, Goto, Idle
<1>4. ASSUME NEW w \in Workers, GatesAbort(w) PROVE NoneDownloads'
  BY <1>4 DEF NoneDownloads, NoDownload, Abort, Finish, GatesAbort, Goto, Idle
<1>5. ASSUME NEW m, ManagerLogin(m) PROVE NoneDownloads'
  BY <1>5, NothingAsked DEF Arrive, ManagerLogin, Served
<1>6. ASSUME NEW r, NEW t, AskOptional(r, t) PROVE NoneDownloads'
  BY <1>6, NothingAsked DEF Arrive, AskOptional, Let, Routed, Served
<1>7. ASSUME NEW r, NEW t, AskMember(r, t) PROVE NoneDownloads'
  BY <1>7, NothingAsked DEF Arrive, AskMember, Let, Routed, Served
<1>8. ASSUME NEW r, NEW t, AskConsole(r, t) PROVE NoneDownloads'
  BY <1>8, NothingAsked DEF Arrive, AskConsole, Let, Routed, Served
<1>9. ASSUME NEW r, NEW t, AskRewrite(r, t) PROVE NoneDownloads'
  BY <1>9, NothingAsked DEF Arrive, AskRewrite, Let, Routed, Served
<1>10. ASSUME NEW r, NEW u, AskRewriteExt(r, u) PROVE NoneDownloads'
  BY <1>10, NothingAsked DEF Arrive, AskRewriteExt, Let, Routed, Served
<1>11. ASSUME NEW t, AskVote(t) PROVE NoneDownloads'
  BY <1>11, NothingAsked DEF Arrive, AskVote, Let, Routed, Served
<1>12. ASSUME NEW t, Mint(t) PROVE NoneDownloads'
  BY <1>12, NothingAsked DEF Arrive, Mint, Served
<1>13. ASSUME NEW t, Revoke(t) PROVE NoneDownloads'
  BY <1>13, NothingAsked DEF Arrive, Revoke, Served
<1>14. ASSUME NEW t, DeleteAccount(t) PROVE NoneDownloads'
  BY <1>14, NothingAsked DEF Arrive, Becomes, DeleteAccount, Served
<1>15. ASSUME NEW u, NEW b, UpdateUser(u, b) PROVE NoneDownloads'
  BY <1>15, NothingAsked DEF Arrive, Becomes, Served, UpdateUser
<1>16. ASSUME NEW m, NEW b, UpdateManager(m, b) PROVE NoneDownloads'
  BY <1>16, NothingAsked DEF Arrive, Becomes, Served, UpdateManager
<1>17. ASSUME NEW d, SetLifetime(d) PROVE NoneDownloads'
  BY <1>17, NothingAsked DEF Arrive, Served, SetLifetime
<1>18. ASSUME Tick PROVE NoneDownloads'
  BY <1>18, NothingAsked DEF Tick, servingVars
<1> QED
  BY <1>1, <1>2, <1>3, <1>4, <1>5, <1>6, <1>7, <1>8, <1>9, <1>10, <1>11, <1>12, <1>13, <1>14, <1>15,
     <1>16, <1>17, <1>18 DEF GatesNext

LEMMA LedgerAsks == ASSUME NoneDownloads, LedgerNext PROVE NoneDownloads'
<1>1. ASSUME NEW w \in Workers, Analytics(w) PROVE NoneDownloads'
  BY <1>1 DEF NoneDownloads, NoDownload, Analytics, Arrive, Begin, Idle
<1>2. ASSUME NEW w \in Workers, NewSubs(w) PROVE NoneDownloads'
  BY <1>2 DEF NoneDownloads, NoDownload, Adds, At, Goto, NewSubs, Reading
<1>3. ASSUME NEW w \in Workers, Revenue(w) PROVE NoneDownloads'
  BY <1>3 DEF NoneDownloads, NoDownload, Adds, At, Goto, Reading, Revenue
<1>4. ASSUME NEW w \in Workers, Churned(w) PROVE NoneDownloads'
  BY <1>4 DEF NoneDownloads, NoDownload, At, Churned, Goto, Reading
<1>5. ASSUME NEW w \in Workers, ListPlans(w) PROVE NoneDownloads'
  BY <1>5 DEF NoneDownloads, NoDownload, At, Finish, Goto, Idle, ListPlans, Reading
<1>6. ASSUME NEW w \in Workers, LedgerAbort(w) PROVE NoneDownloads'
  BY <1>6 DEF NoneDownloads, NoDownload, Abort, Finish, Goto, Idle, LedgerAbort
<1>7. ASSUME NEW p, Grant(p) PROVE NoneDownloads'
  BY <1>7, NothingAsked DEF Arrive, Grant, Recorded, Served
<1>8. ASSUME NEW p, NEW b, PatchMenu(p, b) PROVE NoneDownloads'
  BY <1>8, NothingAsked DEF Arrive, PatchMenu, Recorded, Served
<1>9. ASSUME NEW s, NEW status, Churn(s, status) PROVE NoneDownloads'
  BY <1>9, NothingAsked DEF Arrive, Churn, Recorded, Served
<1>10. ASSUME NextMonth PROVE NoneDownloads'
  BY <1>10, NothingAsked DEF NextMonth, servingVars
<1> QED
  BY <1>1, <1>2, <1>3, <1>4, <1>5, <1>6, <1>7, <1>8, <1>9, <1>10 DEF LedgerNext

LEMMA MailAsks == MailNext => UNCHANGED work
  BY DEF Arrive, Deliver, Exit, ExpireLapsed, FailSecondPass, IsSuppressed, LogSend, MailNext,
         MissRun, NextHalfday, ReceiveReport, RejectReport, ReportOn, RunOnce, SaveMailKey,
         SendMail, Sending, Served, Subscribe, Unsubscribe, servingVars

\* A call to PayPal goes on with what it waits for the token for.
CallsOn(t) == NoDownload(t) /\ (t.pc \in CallPcs => "next" \in DOMAIN t /\ t.next # "download")
AllCallOn == work = [w \in Workers |-> work[w]] /\ \A w \in Workers : CallsOn(work[w])

LEMMA NothingCalled == ASSUME AllCallOn, UNCHANGED work PROVE AllCallOn'
  BY DEF AllCallOn, CallsOn, NoDownload

LEMMA CallGiven ==
  ASSUME AllCallOn, NEW w \in Workers, NEW t, CallsOn(t), Goto(w, t)
  PROVE  AllCallOn'
  BY DEF AllCallOn, CallsOn, NoDownload, Goto

LEMMA IdleCalls == CallsOn(Idle)
  BY DEF CallsOn, NoDownload, Idle, CallPcs

LEMMA NoticesCalls == ASSUME AllCallOn, NoticesNext PROVE AllCallOn'
<1>1. ASSUME NEW p, NEW f, NEW k, RotateAtProvider(p, f, k) PROVE AllCallOn'
  BY <1>1, NothingCalled DEF RotateAtProvider, servingVars
<1>2. ASSUME NEW p, NEW f, NEW v, SaveSetting(p, f, v) PROVE AllCallOn'
  BY <1>2, NothingCalled DEF Arrive, SaveSetting, Served
<1>3. ASSUME NEW ms, SaveMethods(ms) PROVE AllCallOn'
  BY <1>3, NothingCalled DEF Arrive, SaveMethods, Served
<1>4. ASSUME NEW c, Restart(c) PROVE AllCallOn'
  <2>1. work' = [w \in Workers |-> Idle]
    BY <1>4 DEF Restart
  <2> QED
    BY <2>1, IdleCalls DEF AllCallOn, CallsOn, NoDownload
<1>5. ASSUME TokenExpires PROVE AllCallOn'
  BY <1>5, NothingCalled DEF TokenExpires, servingVars
<1>6. ASSUME NEW m, CreateCheckout(m) PROVE AllCallOn'
  BY <1>6, NothingCalled DEF Arrive, CreateCheckout, Served
<1>7. ASSUME NEW n, Announce(n) PROVE AllCallOn'
  BY <1>7, NothingCalled DEF Announce, servingVars
<1>8. ASSUME NEW n, HandleWebhook(n) PROVE AllCallOn'
  BY <1>8, NothingCalled DEF Acknowledge, Arrive, HandleWebhook, Refuse, Served, SignedWebhook,
     VietQRWebhook
<1>9. ASSUME NEW n, HandleProviderNotification(n) PROVE AllCallOn'
  BY <1>9, NothingCalled DEF Acknowledge, AppleWebhook, Arrive, HandleProviderNotification, Refuse,
     Served
<1>10. ASSUME NEW w \in Workers, CachedToken(w) PROVE AllCallOn'
  <2>1. CallsOn(work[w]) /\ work[w].pc = "token"
    BY <1>10 DEF CachedToken, At, AllCallOn
  <2>2. /\ CallsOn([work[w] EXCEPT !.pc = work[w].next, !.bearer = token])
        /\ CallsOn([work[w] EXCEPT !.pc = "fetch"])
    BY <2>1 DEF CallsOn, NoDownload, CallPcs
  <2> QED
    BY <1>10, <2>2, IdleCalls, CallGiven DEF CachedToken, TokenFails, Finish
<1>11. ASSUME NEW w \in Workers, FetchToken(w) PROVE AllCallOn'
  <2>1. CallsOn(work[w]) /\ work[w].pc = "fetch"
    BY <1>11 DEF FetchToken, At, AllCallOn
  <2>2. CallsOn([work[w] EXCEPT !.pc = work[w].next, !.bearer = work[w].creds.api])
    BY <2>1 DEF CallsOn, NoDownload, CallPcs
  <2> QED
    BY <1>11, <2>2, IdleCalls, CallGiven DEF FetchToken, TokenFails, Finish
<1>12. ASSUME NEW w \in Workers, PayPalCheckout(w) PROVE AllCallOn'
  <2>1. CallsOn(Call("order", NoRow))
    BY DEF CallsOn, NoDownload, Call
  <2> QED
    BY <1>12, <2>1, CallGiven, NothingCalled DEF PayPalCheckout, Begin, Served, Goto
<1>13. ASSUME NEW w \in Workers, PayPalOrder(w) PROVE AllCallOn'
  BY <1>13, IdleCalls, CallGiven DEF PayPalOrder, Finish
<1>14. ASSUME NEW w \in Workers, NEW n, PayPalWebhook(w, n) PROVE AllCallOn'
  <2>1. CallsOn(Call("verify", n))
    BY DEF CallsOn, NoDownload, Call
  <2> QED
    BY <1>14, <2>1, CallGiven, NothingCalled DEF PayPalWebhook, Begin, Served, Goto
<1>15. ASSUME NEW w \in Workers, VerifyPayPal(w) PROVE AllCallOn'
  <2>1. CallsOn(work[w]) /\ work[w].pc = "verify"
    BY <1>15 DEF VerifyPayPal, At, AllCallOn
  <2>2. CallsOn([work[w] EXCEPT !.pc = "token", !.next = "lookup"])
    BY <2>1 DEF CallsOn, NoDownload, CallPcs
  <2> QED
    BY <1>15, <2>2, IdleCalls, CallGiven DEF VerifyPayPal, TokenFails, Finish
<1>16. ASSUME NEW w \in Workers, FetchNextBilling(w) PROVE AllCallOn'
  BY <1>16, IdleCalls, CallGiven DEF FetchNextBilling, Finish
<1>17. ASSUME NEW w \in Workers, NoticesAbort(w) PROVE AllCallOn'
  BY <1>17, IdleCalls, CallGiven DEF NoticesAbort, Abort, Finish
<1> QED
  BY <1>1, <1>2, <1>3, <1>4, <1>5, <1>6, <1>7, <1>8, <1>9, <1>10, <1>11, <1>12, <1>13, <1>14, <1>15,
     <1>16, <1>17 DEF NoticesNext

LEMMA AppleWorkers == ASSUME AppleNext, DOMAIN work = Workers PROVE DOMAIN work' = Workers
<1>1. ASSUME NEW w, NEW kid, VerifyApple(w, kid) PROVE DOMAIN work' = Workers
  BY <1>1 DEF Arrive, Begin, VerifyApple
<1>2. ASSUME NEW w, Lock(w) PROVE DOMAIN work' = Workers
  BY <1>2 DEF At, Goto, Lock
<1>3. ASSUME NEW w, ApplePublicKey(w) PROVE DOMAIN work' = Workers
  BY <1>3 DEF ApplePublicKey, At, Finish, Goto, LookUp
<1>4. ASSUME NEW w, FetchAppleKeys(w) PROVE DOMAIN work' = Workers
  BY <1>4 DEF At, FetchAppleKeys, Finish, Goto, LookUp
<1>5. ASSUME NEW w, FetchFails(w) PROVE DOMAIN work' = Workers
  BY <1>5 DEF At, FetchFails, Finish, Goto
<1>6. ASSUME NEW kid, Withdraw(kid) PROVE DOMAIN work' = Workers
  BY <1>6 DEF Withdraw, servingVars
<1>7. ASSUME Publish PROVE DOMAIN work' = Workers
  BY <1>7 DEF Publish, servingVars
<1>8. ASSUME Hour PROVE DOMAIN work' = Workers
  BY <1>8 DEF Hour, servingVars
<1>9. ASSUME AppleRestart PROVE DOMAIN work' = Workers
  BY <1>9 DEF AppleRestart
<1> QED
  BY <1>1, <1>2, <1>3, <1>4, <1>5, <1>6, <1>7, <1>8, <1>9 DEF AppleNext

-----------------------------------------------------------------------------
(***************************************************************************)
(* A mix belongs to one module.                                            *)
(***************************************************************************)
ModuleOf(mix) ==
  IF "operate" \in mix THEN "Notices"
  ELSE IF "apple" \in mix THEN "Apple"
  ELSE IF "dashboard" \in mix THEN "Ledger"
  ELSE IF "subscribe" \in mix \/ "mailKey" \in mix THEN "Mail"
  ELSE IF "ask" \in mix \/ "extension" \in mix THEN "Gates"
  ELSE IF "list" \in mix \/ "inbox" \in mix \/ "counts" \in mix THEN "Listing"
  ELSE IF "stream" \in mix \/ "rewrite" \in mix \/ "trial" \in mix THEN "Quotas"
  ELSE IF "login" \in mix \/ "provider" \in mix \/ "settings" \in mix \/ "release" \in mix THEN "Console"
  ELSE "Community"

LEMMA CommunityMixed == \A mix \in CommunityMixes : ModuleOf(mix) = "Community"
  BY DEF CommunityMixes, ModuleOf

LEMMA ConsoleMixed == \A mix \in ConsoleMixes : ModuleOf(mix) = "Console"
  BY DEF ConsoleMixes, ModuleOf

LEMMA QuotasMixed == \A mix \in QuotaMixes : ModuleOf(mix) = "Quotas"
  BY DEF QuotaMixes, ModuleOf

LEMMA ListingMixed == \A mix \in ListingMixes : ModuleOf(mix) = "Listing"
  BY DEF ListingMixes, ModuleOf

LEMMA NoticesMixed == \A mix \in NoticesMixes : ModuleOf(mix) = "Notices"
  BY DEF NoticesMixes, ModuleOf

LEMMA GatesMixed == \A mix \in GatesMixes : ModuleOf(mix) = "Gates"
  BY DEF GatesMixes, ModuleOf

LEMMA MailMixed == \A mix \in MailMixes : ModuleOf(mix) = "Mail"
  BY DEF MailMixes, ModuleOf

LEMMA LedgerMixed == \A mix \in LedgerMixes : ModuleOf(mix) = "Ledger"
  BY DEF LedgerMixes, ModuleOf

LEMMA AppleMixed == \A mix \in AppleMixes : ModuleOf(mix) = "Apple"
  BY DEF AppleMixes, ModuleOf

LEMMA OneModule ==
  /\ ops \in CommunityMixes => ModuleOf(ops) = "Community"
  /\ ops \in ConsoleMixes => ModuleOf(ops) = "Console"
  /\ ops \in QuotaMixes => ModuleOf(ops) = "Quotas"
  /\ ops \in ListingMixes => ModuleOf(ops) = "Listing"
  /\ ops \in NoticesMixes => ModuleOf(ops) = "Notices"
  /\ ops \in GatesMixes => ModuleOf(ops) = "Gates"
  /\ ops \in MailMixes => ModuleOf(ops) = "Mail"
  /\ ops \in LedgerMixes => ModuleOf(ops) = "Ledger"
  /\ ops \in AppleMixes => ModuleOf(ops) = "Apple"
  BY CommunityMixed, ConsoleMixed, QuotasMixed, ListingMixed, NoticesMixed, GatesMixed, MailMixed,
     LedgerMixed, AppleMixed

LEMMA DeskServes == [MCNext]_deskVars => Serves \/ UNCHANGED servingVars
  BY CommunityServes, ConsoleServes, QuotasServes, ListingServes, NoticesServes, GatesServes,
     MailServes, LedgerServes, AppleServes DEF MCNext, deskVars

LEMMA MixKept == [MCNext]_deskVars => ops' = ops
  BY DeskServes DEF Serves, servingVars

-----------------------------------------------------------------------------
(***************************************************************************)
(* In its mixes the composition runs one module.                           *)
(***************************************************************************)
LEMMA CommunityRuns == MCSpec /\ ops \in CommunityMixes => CommunitySpec /\ [](ops \in CommunityMixes)
<1>1. MCInit => ServingInit /\ CommunityInit
  BY DEF MCInit
<1>2. ops \in CommunityMixes /\ [MCNext]_deskVars
        => (ops \in CommunityMixes)' /\ [CommunityNext]_<<servingVars, communityVars>>
  BY MixKept, OneModule DEF MCNext, deskVars
<1> QED
  BY <1>1, <1>2, PTL DEF MCSpec, CommunitySpec

LEMMA ConsoleRuns == MCSpec /\ ops \in ConsoleMixes => ConsoleSpec /\ [](ops \in ConsoleMixes)
<1>1. MCInit => ServingInit /\ ConsoleInit
  BY DEF MCInit
<1>2. ops \in ConsoleMixes /\ [MCNext]_deskVars
        => (ops \in ConsoleMixes)' /\ [ConsoleNext]_<<servingVars, consoleVars>>
  BY MixKept, OneModule DEF MCNext, deskVars
<1> QED
  BY <1>1, <1>2, PTL DEF MCSpec, ConsoleSpec

LEMMA QuotasRuns == MCSpec /\ ops \in QuotaMixes => QuotasSpec /\ [](ops \in QuotaMixes)
<1>1. MCInit => ServingInit /\ QuotasInit
  BY DEF MCInit
<1>2. ops \in QuotaMixes /\ [MCNext]_deskVars
        => (ops \in QuotaMixes)' /\ [QuotasNext]_<<servingVars, quotasVars>>
  BY MixKept, OneModule DEF MCNext, deskVars
<1> QED
  BY <1>1, <1>2, PTL DEF MCSpec, QuotasSpec

LEMMA ListingRuns == MCSpec /\ ops \in ListingMixes => ListingSpec /\ [](ops \in ListingMixes)
<1>1. MCInit => ServingInit /\ ListingInit
  BY DEF MCInit
<1>2. ops \in ListingMixes /\ [MCNext]_deskVars
        => (ops \in ListingMixes)' /\ [ListingNext]_<<servingVars, listingVars>>
  BY MixKept, OneModule DEF MCNext, deskVars
<1> QED
  BY <1>1, <1>2, PTL DEF MCSpec, ListingSpec

LEMMA NoticesRuns == MCSpec /\ ops \in NoticesMixes => NoticesSpec /\ [](ops \in NoticesMixes)
<1>1. MCInit => ServingInit /\ NoticesInit
  BY DEF MCInit
<1>2. ops \in NoticesMixes /\ [MCNext]_deskVars
        => (ops \in NoticesMixes)' /\ [NoticesNext]_<<servingVars, noticesVars>>
  BY MixKept, OneModule DEF MCNext, deskVars
<1> QED
  BY <1>1, <1>2, PTL DEF MCSpec, NoticesSpec

LEMMA GatesRuns == MCSpec /\ ops \in GatesMixes => GatesSpec /\ [](ops \in GatesMixes)
<1>1. MCInit => ServingInit /\ GatesInit
  BY DEF MCInit
<1>2. ops \in GatesMixes /\ [MCNext]_deskVars
        => (ops \in GatesMixes)' /\ [GatesNext]_<<servingVars, gatesVars>>
  BY MixKept, OneModule DEF MCNext, deskVars
<1> QED
  BY <1>1, <1>2, PTL DEF MCSpec, GatesSpec

LEMMA MailRuns == MCSpec /\ ops \in MailMixes => MailSpec /\ [](ops \in MailMixes)
<1>1. MCInit => ServingInit /\ MailInit
  BY DEF MCInit
<1>2. ops \in MailMixes /\ [MCNext]_deskVars
        => (ops \in MailMixes)' /\ [MailNext]_<<servingVars, mailVars>>
  BY MixKept, OneModule DEF MCNext, deskVars
<1> QED
  BY <1>1, <1>2, PTL DEF MCSpec, MailSpec

LEMMA LedgerRuns == MCSpec /\ ops \in LedgerMixes => LedgerSpec /\ [](ops \in LedgerMixes)
<1>1. MCInit => ServingInit /\ LedgerInit
  BY DEF MCInit
<1>2. ops \in LedgerMixes /\ [MCNext]_deskVars
        => (ops \in LedgerMixes)' /\ [LedgerNext]_<<servingVars, ledgerVars>>
  BY MixKept, OneModule DEF MCNext, deskVars
<1> QED
  BY <1>1, <1>2, PTL DEF MCSpec, LedgerSpec

LEMMA AppleRuns == MCSpec /\ ops \in AppleMixes => AppleSpec /\ [](ops \in AppleMixes)
<1>1. MCInit => ServingInit /\ AppleInit
  BY DEF MCInit
<1>2. ops \in AppleMixes /\ [MCNext]_deskVars
        => (ops \in AppleMixes)' /\ [AppleNext]_<<servingVars, appleVars>>
  BY MixKept, OneModule DEF MCNext, deskVars
<1> QED
  BY <1>1, <1>2, PTL DEF MCSpec, AppleSpec

\* Every behaviour of the composition is one of the module its mix belongs to:
\* what is proved of the module's specification holds of it.
THEOREM DeskRunsOneModule ==
  MCSpec =>
    /\ ops \in CommunityMixes => CommunitySpec
    /\ ops \in ConsoleMixes => ConsoleSpec
    /\ ops \in QuotaMixes => QuotasSpec
    /\ ops \in ListingMixes => ListingSpec
    /\ ops \in NoticesMixes => NoticesSpec
    /\ ops \in GatesMixes => GatesSpec
    /\ ops \in MailMixes => MailSpec
    /\ ops \in LedgerMixes => LedgerSpec
    /\ ops \in AppleMixes => AppleSpec
  BY CommunityRuns, ConsoleRuns, QuotasRuns, ListingRuns, NoticesRuns, GatesRuns, MailRuns,
     LedgerRuns, AppleRuns, PTL

-----------------------------------------------------------------------------
(***************************************************************************)
(* The workers, in every behaviour.                                        *)
(***************************************************************************)
DeskWork ==
  /\ ServingTypeOK
  /\ ops \notin AppleMixes => NoneDownloads
  /\ ops \in NoticesMixes => AllCallOn

LEMMA WorkInitially == MCInit => DeskWork
<1> SUFFICES ASSUME MCInit PROVE DeskWork
  OBVIOUS
<1>1. ServingInit
  BY DEF MCInit
<1>2. ServingTypeOK
  BY <1>1, ServingAssumption DEF ServingInit, ServingTypeOK
<1>3. NoneDownloads /\ AllCallOn
  BY <1>1, IdleCalls DEF ServingInit, NoneDownloads, AllCallOn, CallsOn
<1> QED
  BY <1>2, <1>3 DEF DeskWork

LEMMA CountedServed ==
  ASSUME ServingTypeOK, Serves \/ UNCHANGED servingVars, DOMAIN work' = Workers
  PROVE  ServingTypeOK'
<1>1. MaxRequests \in Nat /\ MaxAborts \in Nat
  BY ServingAssumption
<1> QED
  BY <1>1 DEF ServingTypeOK, Serves, servingVars

LEMMA WorkStep == DeskWork /\ [MCNext]_deskVars => DeskWork'
<1> SUFFICES ASSUME DeskWork, [MCNext]_deskVars PROVE DeskWork'
  OBVIOUS
<1>1. Serves \/ UNCHANGED servingVars
  BY DeskServes
<1>2. ops' = ops
  BY MixKept
<1>3. CASE ops \in AppleMixes
  <2>1. UNCHANGED deskVars \/ AppleNext
    BY <1>3, OneModule DEF MCNext
  <2>2. DOMAIN work' = Workers
    BY <2>1, AppleWorkers DEF deskVars, servingVars, DeskWork, ServingTypeOK
  <2>3. ops \notin NoticesMixes
    BY <1>3, OneModule
  <2> QED
    BY <1>1, <1>2, <1>3, <2>2, <2>3, CountedServed DEF DeskWork
<1>4. CASE ops \in NoticesMixes
  <2>1. UNCHANGED deskVars \/ NoticesNext
    BY <1>4, OneModule DEF MCNext
  <2>2. AllCallOn'
    BY <1>4, <2>1, NoticesCalls, NothingCalled DEF DeskWork, deskVars, servingVars
  <2>3. NoneDownloads' /\ DOMAIN work' = Workers
    BY <2>2 DEF AllCallOn, CallsOn, NoneDownloads
  <2> QED
    BY <1>1, <2>2, <2>3, CountedServed DEF DeskWork
<1>5. CASE ops \notin AppleMixes /\ ops \notin NoticesMixes
  <2>1. NoneDownloads
    BY <1>5 DEF DeskWork
  <2>2. ASSUME UNCHANGED work PROVE NoneDownloads'
    BY <2>1, <2>2, NothingAsked
  <2>3. ASSUME CommunityNext \/ ConsoleNext \/ QuotasNext \/ ListingNext \/ GatesNext \/ MailNext \/ LedgerNext
        PROVE  NoneDownloads'
    BY <2>1, <2>2, <2>3, CommunityAsks, ConsoleAsks, QuotasAsks, ListingAsks, GatesAsks, MailAsks, LedgerAsks
  <2>4. NoneDownloads'
    BY <1>5, <2>2, <2>3 DEF MCNext, deskVars, servingVars
  <2>5. DOMAIN work' = Workers
    BY <2>4 DEF NoneDownloads
  <2> QED
    BY <1>1, <1>2, <1>5, <2>4, <2>5, CountedServed DEF DeskWork
<1> QED
  BY <1>3, <1>4, <1>5

-----------------------------------------------------------------------------
(***************************************************************************)
(* What a module starts with is well formed, and stays so while another runs. *)
(***************************************************************************)
LEMMA CommunityStartsTyped == MCInit => CommunityTypeOK
  BY CommunityInitially DEF CommunityInv, ReportsOK, VotesOK, GroupsOK, CommunityTypeOK, Existing,
     MCInit

LEMMA CommunityRests == ASSUME CommunityTypeOK, UNCHANGED communityVars, ServingTypeOK' PROVE CommunityTypeOK'
  BY DEF CommunityTypeOK, Features, communityVars, observerVars, counterVars, tableVars

LEMMA ConsoleStartsTyped == SomeAdmin /\ MCInit => ConsoleTypeOK
  BY ConsoleInitially, ConsoleInvTyped DEF MCInit

LEMMA ConsoleRests == ASSUME ConsoleTypeOK, UNCHANGED consoleVars PROVE ConsoleTypeOK'
  BY DEF ConsoleTypeOK, ActiveAdmins, Defaults, consoleVars, releaseVars, settingVars, providerVars,
     adminVars

LEMMA QuotasStartsTyped == MCInit => QuotasTypeOK
  BY CountersInitially, CountersTyped DEF MCInit

LEMMA QuotasRests == ASSUME QuotasTypeOK, UNCHANGED quotasVars PROVE QuotasTypeOK'
  BY DEF QuotasTypeOK, quotasVars, profileVars, trialVars, quotaVars

LEMMA ListingStartsTyped == MCInit => ListingTypeOK
  BY ListingInitially, InvTyped DEF MCInit

LEMMA ListingRests == ASSUME ListingTypeOK, UNCHANGED listingVars PROVE ListingTypeOK'
  BY DEF ListingTypeOK, listingVars

LEMMA NoticesStartsTyped == MCInit => NoticesTypeOK
  BY NoticesInitially, SalesInitially, NoticesInvTyped DEF MCInit

LEMMA NoticesRests == ASSUME NoticesTypeOK, UNCHANGED noticesVars PROVE NoticesTypeOK'
  BY DEF NoticesTypeOK, Notices, SentFields, noticesVars, noticeVars, configVars

LEMMA GatesStartsTyped == MCInit => GatesTypeOK
  BY StandingInitially DEF StandingOK, GatesTypeOK, AccountRow, MCInit

LEMMA GatesRests == ASSUME GatesTypeOK, UNCHANGED gatesVars PROVE GatesTypeOK'
  BY DEF GatesTypeOK, gatesVars

LEMMA MailStartsTyped == MCInit => MailTypeOK
  BY MailInitially, RemindInitially, HandedInitially, MailAssumption DEF MailInit, MailInv,
     ReturnsOK, RemindInv, ClockOK, HandedOK, Handed, Unsent, MailTypeOK, MCInit

LEMMA MailRests == ASSUME MailTypeOK, UNCHANGED mailVars PROVE MailTypeOK'
  BY DEF MailTypeOK, mailVars, listVars, jobVars

LEMMA LedgerStartsTyped == MCInit => LedgerTypeOK
  BY LedgerInitially DEF LedgerInv, MCInit

LEMMA LedgerRests == ASSUME LedgerTypeOK, UNCHANGED ledgerVars PROVE LedgerTypeOK'
  BY DEF LedgerTypeOK, ledgerVars

LEMMA AppleStartsTyped == MCInit => AppleTypeOK
  BY AppleInitially, LockInitially DEF AppleInv, CacheOK, LockHeld, AppleTypeOK, MCInit

LEMMA AppleRests == ASSUME AppleTypeOK, UNCHANGED appleVars, held = NoRow, NoneDownloads' PROVE AppleTypeOK'
  BY DEF AppleTypeOK, NoneDownloads, NoDownload, appleVars

-----------------------------------------------------------------------------
(***************************************************************************)
(* The tables, in every behaviour.                                         *)
(***************************************************************************)
LEMMA CommunityTypedInDesk == MCSpec => []CommunityTypeOK
<1>1. MCInit => CommunityTypeOK
  BY CommunityStartsTyped
<1>2. ~(ops \in CommunityMixes) /\ CommunityTypeOK /\ DeskWork /\ DeskWork' /\ [MCNext]_deskVars
        => ~(ops \in CommunityMixes)' /\ CommunityTypeOK'
  <2> SUFFICES ASSUME ~(ops \in CommunityMixes), CommunityTypeOK, DeskWork, DeskWork', [MCNext]_deskVars
              PROVE  ~(ops \in CommunityMixes)' /\ CommunityTypeOK'
    OBVIOUS
  <2>1. ops' = ops /\ UNCHANGED communityVars
    BY MixKept DEF MCNext, deskVars
  <2> QED
    BY <2>1, CommunityRests DEF DeskWork
<1> QED
  BY <1>1, <1>2, CommunityRuns, CommunityTyped, WorkInitially, WorkStep, PTL DEF MCSpec

LEMMA ConsoleTypedInDesk == SomeAdmin /\ MCSpec => []ConsoleTypeOK
<1>1. SomeAdmin /\ MCInit => ConsoleTypeOK
  BY ConsoleStartsTyped
<1>2. ~(ops \in ConsoleMixes) /\ ConsoleTypeOK /\ [MCNext]_deskVars
        => ~(ops \in ConsoleMixes)' /\ ConsoleTypeOK'
  <2> SUFFICES ASSUME ~(ops \in ConsoleMixes), ConsoleTypeOK, [MCNext]_deskVars
              PROVE  ~(ops \in ConsoleMixes)' /\ ConsoleTypeOK'
    OBVIOUS
  <2>1. ops' = ops /\ UNCHANGED consoleVars
    BY MixKept DEF MCNext, deskVars
  <2> QED
    BY <2>1, ConsoleRests
<1> QED
  BY <1>1, <1>2, ConsoleRuns, ConsoleTyped, PTL DEF MCSpec

LEMMA QuotasTypedInDesk == MCSpec => []QuotasTypeOK
<1>1. MCInit => QuotasTypeOK
  BY QuotasStartsTyped
<1>2. ~(ops \in QuotaMixes) /\ QuotasTypeOK /\ [MCNext]_deskVars
        => ~(ops \in QuotaMixes)' /\ QuotasTypeOK'
  <2> SUFFICES ASSUME ~(ops \in QuotaMixes), QuotasTypeOK, [MCNext]_deskVars
              PROVE  ~(ops \in QuotaMixes)' /\ QuotasTypeOK'
    OBVIOUS
  <2>1. ops' = ops /\ UNCHANGED quotasVars
    BY MixKept DEF MCNext, deskVars
  <2> QED
    BY <2>1, QuotasRests
<1> QED
  BY <1>1, <1>2, QuotasRuns, QuotasTyped, PTL DEF MCSpec

LEMMA ListingTypedInDesk == MCSpec => []ListingTypeOK
<1>1. MCInit => ListingTypeOK
  BY ListingStartsTyped
<1>2. ~(ops \in ListingMixes) /\ ListingTypeOK /\ [MCNext]_deskVars
        => ~(ops \in ListingMixes)' /\ ListingTypeOK'
  <2> SUFFICES ASSUME ~(ops \in ListingMixes), ListingTypeOK, [MCNext]_deskVars
              PROVE  ~(ops \in ListingMixes)' /\ ListingTypeOK'
    OBVIOUS
  <2>1. ops' = ops /\ UNCHANGED listingVars
    BY MixKept DEF MCNext, deskVars
  <2> QED
    BY <2>1, ListingRests
<1> QED
  BY <1>1, <1>2, ListingRuns, ListingTyped, PTL DEF MCSpec

LEMMA NoticesTypedInDesk == MCSpec => []NoticesTypeOK
<1>1. MCInit => NoticesTypeOK
  BY NoticesStartsTyped
<1>2. ~(ops \in NoticesMixes) /\ NoticesTypeOK /\ [MCNext]_deskVars
        => ~(ops \in NoticesMixes)' /\ NoticesTypeOK'
  <2> SUFFICES ASSUME ~(ops \in NoticesMixes), NoticesTypeOK, [MCNext]_deskVars
              PROVE  ~(ops \in NoticesMixes)' /\ NoticesTypeOK'
    OBVIOUS
  <2>1. ops' = ops /\ UNCHANGED noticesVars
    BY MixKept DEF MCNext, deskVars
  <2> QED
    BY <2>1, NoticesRests
<1> QED
  BY <1>1, <1>2, NoticesRuns, NoticesTyped, PTL DEF MCSpec

LEMMA GatesTypedInDesk == MCSpec => []GatesTypeOK
<1>1. MCInit => GatesTypeOK
  BY GatesStartsTyped
<1>2. ~(ops \in GatesMixes) /\ GatesTypeOK /\ [MCNext]_deskVars
        => ~(ops \in GatesMixes)' /\ GatesTypeOK'
  <2> SUFFICES ASSUME ~(ops \in GatesMixes), GatesTypeOK, [MCNext]_deskVars
              PROVE  ~(ops \in GatesMixes)' /\ GatesTypeOK'
    OBVIOUS
  <2>1. ops' = ops /\ UNCHANGED gatesVars
    BY MixKept DEF MCNext, deskVars
  <2> QED
    BY <2>1, GatesRests
<1> QED
  BY <1>1, <1>2, GatesRuns, GatesTyped, PTL DEF MCSpec

LEMMA MailTypedInDesk == MCSpec => []MailTypeOK
<1>1. MCInit => MailTypeOK
  BY MailStartsTyped
<1>2. ~(ops \in MailMixes) /\ MailTypeOK /\ [MCNext]_deskVars
        => ~(ops \in MailMixes)' /\ MailTypeOK'
  <2> SUFFICES ASSUME ~(ops \in MailMixes), MailTypeOK, [MCNext]_deskVars
              PROVE  ~(ops \in MailMixes)' /\ MailTypeOK'
    OBVIOUS
  <2>1. ops' = ops /\ UNCHANGED mailVars
    BY MixKept DEF MCNext, deskVars
  <2> QED
    BY <2>1, MailRests
<1> QED
  BY <1>1, <1>2, MailRuns, MailTyped, PTL DEF MCSpec

LEMMA LedgerTypedInDesk == MCSpec => []LedgerTypeOK
<1>1. MCInit => LedgerTypeOK
  BY LedgerStartsTyped
<1>2. ~(ops \in LedgerMixes) /\ LedgerTypeOK /\ [MCNext]_deskVars
        => ~(ops \in LedgerMixes)' /\ LedgerTypeOK'
  <2> SUFFICES ASSUME ~(ops \in LedgerMixes), LedgerTypeOK, [MCNext]_deskVars
              PROVE  ~(ops \in LedgerMixes)' /\ LedgerTypeOK'
    OBVIOUS
  <2>1. ops' = ops /\ UNCHANGED ledgerVars
    BY MixKept DEF MCNext, deskVars
  <2> QED
    BY <2>1, LedgerRests
<1> QED
  BY <1>1, <1>2, LedgerRuns, LedgerTyped, PTL DEF MCSpec

LEMMA AppleTypedInDesk == MCSpec => []AppleTypeOK
<1>1. MCInit => (AppleTypeOK /\ held = NoRow)
  BY AppleStartsTyped DEF MCInit, AppleInit
<1>2. ~(ops \in AppleMixes) /\ (AppleTypeOK /\ held = NoRow) /\ DeskWork /\ DeskWork' /\ [MCNext]_deskVars
        => ~(ops \in AppleMixes)' /\ (AppleTypeOK /\ held = NoRow)'
  <2> SUFFICES ASSUME ~(ops \in AppleMixes), (AppleTypeOK /\ held = NoRow), DeskWork, DeskWork', [MCNext]_deskVars
              PROVE  ~(ops \in AppleMixes)' /\ (AppleTypeOK /\ held = NoRow)'
    OBVIOUS
  <2>1. ops' = ops /\ UNCHANGED appleVars
    BY MixKept DEF MCNext, deskVars
  <2> QED
    BY <2>1, AppleRests DEF DeskWork, appleVars
<1> QED
  BY <1>1, <1>2, AppleRuns, AppleTyped, WorkInitially, WorkStep, PTL DEF MCSpec

\* Whichever of the back office's modules runs, and however its requests overlap
\* and are cut short, the tables of all nine are well formed, each by its module's
\* type invariant.
THEOREM DeskTyped == SomeAdmin /\ MCSpec => []DeskTypeOK
<1>1. DeskTypeOK <=> /\ CommunityTypeOK /\ ConsoleTypeOK /\ QuotasTypeOK /\ ListingTypeOK /\ NoticesTypeOK
                     /\ GatesTypeOK /\ MailTypeOK /\ LedgerTypeOK /\ AppleTypeOK
  BY DEF DeskTypeOK
<1> QED
  BY <1>1, CommunityTypedInDesk, ConsoleTypedInDesk, QuotasTypedInDesk, ListingTypedInDesk,
     NoticesTypedInDesk, GatesTypedInDesk, MailTypedInDesk, LedgerTypedInDesk, AppleTypedInDesk, PTL
=============================================================================
