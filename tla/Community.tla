------------------------------- MODULE Community -------------------------------
(***************************************************************************)
(* What users send in, and how the console triages it: feature requests    *)
(* and their votes (feedback), bug reports and their screenshots           *)
(* (bugreports), grouped crash reports (errreport), and the hourly jobs    *)
(* that ask an AI provider for a fix.                                      *)
(*                                                                         *)
(* No handler runs in a transaction: every statement is a step.            *)
(***************************************************************************)
EXTENDS Serving, Sequences, FiniteSetsExt

CONSTANTS
  Members,                     \* accounts
  Prints,                      \* fingerprints of crashes
  MaxReports, MaxGroups,       \* bounds on rows ever inserted
  Bodies, Patches, Raws,       \* inputs of the handlers
  Seed,                        \* rows of the board when the model starts
  Nobody

ReportIds == 1..MaxReports
GroupIds  == 1..MaxGroups

VARIABLES
  members,       \* accounts that exist
  reports,       \* bug_reports: bugs and feature requests
  votes,         \* feature_votes
  groups,        \* error_reports, one row for each group
  files,         \* screenshots on the disk, by number
  lastReport, lastGroup, lastFile,
  dirty,         \* observer: features whose count may be behind the votes
  settled,       \* observer: bugs an admin closed with nobody else at them
  accepted, gone \* observer: crashes answered 201, and counts of deleted groups

tableVars    == <<members, reports, votes, groups, files>>
counterVars  == <<lastReport, lastGroup, lastFile>>
observerVars == <<dirty, settled, accepted, gone>>
communityVars == <<tableVars, counterVars, observerVars>>

BugStatuses == {"new", "reviewing", "fix_proposed", "resolved", "wont_fix"}
Closed      == {"resolved", "wont_fix"}
Platforms   == {"playground", "mobile", "windows", "mac", "linux"}

\* title "none" stands for NULL; a given one has 1 to 80 characters.
Report ==
  [kind : {"bug", "feature"}, title : {"none", "given"}, platform : Platforms \cup {"none"},
   status : BugStatuses, notes : {"none", "given"}, public : BOOLEAN, proposal : BOOLEAN,
   count : Nat, author : Members \cup {Nobody}, shot : Nat]

Group ==
  [print : Prints, count : Nat, status : Int, proposal : BOOLEAN, resolved : BOOLEAN,
   user : Members \cup {Nobody}]

\* What the board can show: a feature says what it is about and where.
Presentable(row) == row.kind = "feature" => row.title = "given" /\ row.platform # "none"

ASSUME CommunityAssumption ==
  /\ {MaxReports, MaxGroups} \subseteq Nat \ {0}
  /\ Nobody \notin Members /\ NoRow \notin Report \cup Group
  /\ Seed \in Seq(Report)
  /\ \A r \in DOMAIN Seed : Seed[r].count = 0 /\ Seed[r].shot = 0 /\ Presentable(Seed[r])
  /\ \A p \in Patches : /\ "notes" \in DOMAIN p => p.notes \in {"none", "given"}
                        /\ "public" \in DOMAIN p => p.public \in BOOLEAN
  /\ \A raw \in Raws : raw.n \in Int

Features == {r \in Existing(reports) : reports[r].kind = "feature"}

\* The board: what GET /feedback lists from.
Public == {r \in Features : reports[r].public}

-----------------------------------------------------------------------------
(***************************************************************************)
(* Submissions.  A body is [kind, title, platform, text, trap]: "long" and *)
(* "unknown" values are outside the limits, "blank" is white space.        *)
(***************************************************************************)

\* The limits of the request body, checked first.
Malformed(b) ==
  \/ b.kind \notin {"bug", "feature"}
  \/ b.title = "long"
  \/ b.platform \notin Platforms \cup {"none"}
  \/ b.text \in {"none", "long"}

\* Faulty variant: nothing is asked of the platform.
UnfitTitleOnly(b) ==
  \/ b.text = "blank"
  \/ b.kind = "feature" /\ b.title # "given"

\* What the service asks of a body that came through.
Unfit(b) ==
  \/ b.text = "blank"
  \/ b.kind = "feature" /\ (b.title # "given" \/ b.platform = "none")

NewFeedback(b, author) ==
  [kind |-> b.kind, title |-> IF b.kind = "feature" THEN "given" ELSE "none",
   platform |-> IF b.kind = "feature" THEN b.platform ELSE "none",
   status |-> "new", notes |-> "none", public |-> TRUE, proposal |-> FALSE,
   count |-> 0, author |-> author, shot |-> 0]

NewBug(author, shot) ==
  [kind |-> "bug", title |-> "none", platform |-> "none", status |-> "new",
   notes |-> "none", public |-> TRUE, proposal |-> FALSE, count |-> 0,
   author |-> author, shot |-> shot]

\* A body with a filled-in trap field is thanked for and dropped.
CreateFeedback(w, b, u) ==
  /\ IF Malformed(b) \/ b.trap \/ Unfit(b) THEN Served("feedback")
     ELSE Begin(w, "feedback", [pc |-> "resolve", row |-> NewFeedback(b, u)])
  /\ UNCHANGED communityVars

\* The screenshot is on the disk before anything is in the database.
CreateBug(w, text, shot, u) ==
  /\ IF text # "given" THEN Served("bug") /\ UNCHANGED <<files, lastFile>>
     ELSE IF ~shot
     THEN Begin(w, "bug", [pc |-> "resolve", row |-> NewBug(u, 0)]) /\ UNCHANGED <<files, lastFile>>
     ELSE /\ Begin(w, "bug", [pc |-> "resolve", row |-> NewBug(u, lastFile + 1)])
          /\ lastFile' = lastFile + 1
          /\ files' = files \cup {lastFile + 1}
  /\ UNCHANGED <<members, reports, votes, groups, lastReport, lastGroup, observerVars>>

\* A token can outlive its account; the report is then anonymous.
ResolveUserID(w) ==
  /\ At(w, "resolve")
  /\ LET u == work[w].row.author
     IN  Goto(w, [work[w] EXCEPT !.pc = "store",
                    !.row.author = IF u \in members THEN u ELSE Nobody])
  /\ UNCHANGED communityVars

\* The foreign key refuses an author who was deleted in between.
StoreReport(w) ==
  /\ At(w, "store") /\ lastReport < MaxReports
  /\ LET row == work[w].row
     IN  IF row.author \in members \cup {Nobody}
         THEN /\ reports' = [reports EXCEPT ![lastReport + 1] = row]
              /\ lastReport' = lastReport + 1
         ELSE UNCHANGED <<reports, lastReport>>
  /\ Finish(w)
  /\ UNCHANGED <<members, votes, groups, files, lastGroup, lastFile, observerVars>>

-----------------------------------------------------------------------------
(***************************************************************************)
(* Votes.  ToggleVote runs five statements; solo tells whether no other    *)
(* toggle of the feature has run meanwhile.                                *)
(***************************************************************************)
Voting(w, f) == work[w].pc \in {"seek", "cast", "withdraw", "tally", "write"} /\ work[w].f = f

\* No toggle of f in flight is alone any more.
Disturb(f, rest) ==
  [x \in Workers |-> IF Voting(x, f) THEN [rest[x] EXCEPT !.solo = FALSE] ELSE rest[x]]

ToggleVote(w, f, u) ==
  /\ Arrive("vote") /\ work[w] = Idle
  /\ LET crowd == \E x \in Workers : Voting(x, f)
     IN  IF f \notin Features THEN UNCHANGED <<work, dirty>>
         ELSE /\ work' = [Disturb(f, work) EXCEPT ![w] =
                            [pc |-> "seek", f |-> f, u |-> u, solo |-> ~crowd, n |-> 0]]
              /\ dirty' = IF crowd THEN dirty \cup {f} ELSE dirty
  /\ UNCHANGED <<tableVars, counterVars, settled, accepted, gone>>

VoteExists(w) ==
  /\ At(w, "seek")
  /\ Goto(w, [work[w] EXCEPT !.pc =
       IF <<work[w].f, work[w].u>> \in votes THEN "withdraw" ELSE "cast"])
  /\ UNCHANGED communityVars

\* Refused when the vote is there by now, or the feature or the voter is not.
InsertVote(w) ==
  /\ At(w, "cast")
  /\ LET vote == <<work[w].f, work[w].u>>
     IN  IF vote \notin votes /\ work[w].f \in Existing(reports) /\ work[w].u \in members
         THEN votes' = votes \cup {vote} /\ Goto(w, [work[w] EXCEPT !.pc = "tally"])
         ELSE Finish(w) /\ UNCHANGED votes
  /\ UNCHANGED <<members, reports, groups, files, counterVars, observerVars>>

DeleteVote(w) ==
  /\ At(w, "withdraw")
  /\ votes' = votes \ {<<work[w].f, work[w].u>>}
  /\ Goto(w, [work[w] EXCEPT !.pc = "tally"])
  /\ UNCHANGED <<members, reports, groups, files, counterVars, observerVars>>

VotesOf(f) == {v \in votes : v[1] = f}

\* Faulty variant: one added or taken away instead of counted.
CountVotesByOne(w) ==
  /\ At(w, "tally")
  /\ LET f == work[w].f
         old == IF f \in Existing(reports) THEN reports[f].count ELSE 0
     IN  Goto(w, [work[w] EXCEPT !.pc = "write",
           !.n = IF <<f, work[w].u>> \in votes THEN old + 1 ELSE old - 1])
  /\ UNCHANGED communityVars

CountVotes(w) ==
  /\ At(w, "tally")
  /\ Goto(w, [work[w] EXCEPT !.pc = "write", !.n = Cardinality(VotesOf(work[w].f))])
  /\ UNCHANGED communityVars

SetCount(r, n) == IF r = NoRow THEN NoRow ELSE [r EXCEPT !.count = n]

UpdateVoteCount(w) ==
  /\ At(w, "write")
  /\ LET f == work[w].f
     IN  /\ reports' = [reports EXCEPT ![f] = SetCount(@, work[w].n)]
         /\ dirty' = IF work[w].solo THEN dirty \ {f} ELSE dirty
  /\ Finish(w)
  /\ UNCHANGED <<members, votes, groups, files, counterVars, settled, accepted, gone>>

\* DELETE /auth/account, here in one step (Accounts has its statements): the
\* votes and the name go, the counts stay.
DeleteMember(u) ==
  /\ Arrive("leave") /\ u \in members
  /\ work' = [x \in Workers |-> IF \E f \in ReportIds : Voting(x, f)
                                THEN [work[x] EXCEPT !.solo = FALSE] ELSE work[x]]
  /\ members' = members \ {u}
  /\ votes' = {v \in votes : v[2] # u}
  /\ reports' = [r \in ReportIds |-> IF r \in Existing(reports) /\ reports[r].author = u
                                     THEN [reports[r] EXCEPT !.author = Nobody] ELSE reports[r]]
  /\ groups' = [g \in GroupIds |-> IF g \in Existing(groups) /\ groups[g].user = u
                                   THEN [groups[g] EXCEPT !.user = Nobody] ELSE groups[g]]
  /\ dirty' = dirty \cup Features
  /\ UNCHANGED <<files, counterVars, settled, accepted, gone>>
-----------------------------------------------------------------------------
(***************************************************************************)
(* Triage of bug reports.  A PATCH loads the row, checks and merges what   *)
(* the body names, and writes five columns back.                           *)
(***************************************************************************)
Columns == {"status", "notes", "title", "platform", "public"}

\* A body names some columns; NULL counts as named.
Acceptable(p) ==
  /\ "status" \in DOMAIN p => p.status \in BugStatuses
  /\ "title" \in DOMAIN p => p.title = "given"
  /\ "platform" \in DOMAIN p => p.platform \in Platforms

Merge(row, p) == [c \in Columns |-> IF c \in DOMAIN p THEN p[c] ELSE row[c]]

Overwritten(row, new) == [c \in DOMAIN row |-> IF c \in DOMAIN new THEN new[c] ELSE row[c]]

\* Somebody else is about to write the row of r.
Handling(x, r) == work[x].pc \in {"patch", "ask"} /\ work[x].id = r

PatchBug(w, r, p) ==
  /\ IF r \in Existing(reports) /\ Acceptable(p)
     THEN Begin(w, "patch", [pc |-> "patch", id |-> r, named |-> DOMAIN p,
                             columns |-> Merge(reports[r], p)])
     ELSE Served("patch")
  /\ UNCHANGED communityVars

AdminUpdate(w) ==
  /\ At(w, "patch")
  /\ LET r == work[w].id
         new == work[w].columns
         calm == \A x \in Workers \ {w} : ~Handling(x, r)
     IN  IF r \in Existing(reports)
         THEN /\ reports' = [reports EXCEPT ![r] = Overwritten(@, new)]
              /\ settled' = IF "status" \in work[w].named
                             THEN IF calm /\ new.status \in Closed
                                  THEN settled \cup {r} ELSE settled \ {r}
                             ELSE settled
         ELSE UNCHANGED <<reports, settled>>
  /\ Finish(w)
  /\ UNCHANGED <<members, votes, groups, files, counterVars, dirty, accepted, gone>>

\* The row and, by the foreign key, its votes; the screenshot stays on the disk.
DeleteBug(r) ==
  /\ Served("deleteBug")
  /\ reports' = [reports EXCEPT ![r] = NoRow]
  /\ votes' = votes \ VotesOf(r)
  /\ settled' = settled \ {r}
  /\ UNCHANGED <<members, groups, files, counterVars, dirty, accepted, gone>>

(***************************************************************************)
(* A fix proposal: the row is read, the AI provider is asked, which may    *)
(* fail, and the proposal is written.  A job does the same for a list of   *)
(* candidates it read first; its todo is what is left of the list.         *)
(***************************************************************************)
Ask(kind, id, status, todo) ==
  [pc |-> "ask", kind |-> kind, id |-> id, status |-> status, todo |-> todo]

\* What follows the report of this worker: the rest of its list.
After(w) == IF work[w].todo = {} THEN Idle
           ELSE [pc |-> "pick", kind |-> work[w].kind, todo |-> work[w].todo]

AdminBugFixCandidates ==
  {r \in Existing(reports) : /\ reports[r].status = "new" /\ reports[r].kind = "bug"
                             /\ ~reports[r].proposal}

SuggestBugFix(w, r) ==
  /\ IF r \in Existing(reports)
     THEN Begin(w, "suggest", Ask("bug", r, reports[r].status, {}))
     ELSE Served("suggest")
  /\ UNCHANGED communityVars

\* One pass at a time: the scheduler's goroutine runs the job itself.
BugFixJob(w) ==
  /\ \A x \in Busy : work[x].pc \in {"pick", "ask"} => work[x].kind # "bug"
  /\ IF AdminBugFixCandidates = {} THEN Served("bugJob")
     ELSE Begin(w, "bugJob", [pc |-> "pick", kind |-> "bug", todo |-> AdminBugFixCandidates])
  /\ UNCHANGED communityVars

\* The job takes the next of its list; a row that is gone fails and is skipped.
PickBug(w) ==
  /\ At(w, "pick") /\ work[w].kind = "bug"
  /\ \E r \in work[w].todo :
       LET rest == work[w].todo \ {r}
       IN  IF r \in Existing(reports) THEN Goto(w, Ask("bug", r, reports[r].status, rest))
           ELSE Goto(w, IF rest = {} THEN Idle ELSE [work[w] EXCEPT !.todo = rest])
  /\ UNCHANGED communityVars

\* Faulty variant: the status is set whatever it was, as for crash reports.
ProposedAlways(status) == "fix_proposed"

Proposed(status) == IF status = "new" THEN "fix_proposed" ELSE status

AdminSetBugFixProposal(w) ==
  /\ At(w, "ask") /\ work[w].kind = "bug"
  /\ LET r == work[w].id
     IN  reports' = IF r \in Existing(reports)
                    THEN [reports EXCEPT ![r].proposal = TRUE,
                                         ![r].status = Proposed(work[w].status)]
                    ELSE reports
  /\ Goto(w, After(w))
  /\ UNCHANGED <<members, votes, groups, files, counterVars, observerVars>>

ProviderFails(w) ==
  /\ At(w, "ask")
  /\ Goto(w, After(w))
  /\ UNCHANGED communityVars

-----------------------------------------------------------------------------
(***************************************************************************)
(* Crash reports.  One row for each fingerprint is found, or made if there *)
(* is none: the column has no unique index.                                *)
(***************************************************************************)
OfPrint(p) == {g \in Existing(groups) : groups[g].print = p}

NewGroup(p, u) ==
  [print |-> p, count |-> 1, status |-> 0, proposal |-> FALSE, resolved |-> FALSE, user |-> u]

Ingest(w, p, u) ==
  /\ Begin(w, "crash", [pc |-> IF OfPrint(p) = {} THEN "group" ELSE "bump", print |-> p, u |-> u,
                        seen |-> {groups[g].count : g \in OfPrint(p)}])
  /\ UNCHANGED communityVars

\* The user id of the token is stored as it is: the foreign key may refuse it.
Known(u) == u \in members \cup {Nobody}
Accept(p) == accepted' = [accepted EXCEPT ![p] = @ + 1]

InsertErrorReport(w) ==
  /\ At(w, "group") /\ lastGroup < MaxGroups
  /\ IF Known(work[w].u)
     THEN /\ groups' = [groups EXCEPT ![lastGroup + 1] = NewGroup(work[w].print, work[w].u)]
          /\ lastGroup' = lastGroup + 1
          /\ Accept(work[w].print)
     ELSE UNCHANGED <<groups, lastGroup, accepted>>
  /\ Finish(w)
  /\ UNCHANGED <<members, reports, votes, files, lastReport, lastFile, dirty, settled, gone>>

\* Faulty variant: the count read before is written back, one higher.
BumpedFromRead(w, row) ==
  [row EXCEPT !.count = 1 + (CHOOSE n \in work[w].seen : TRUE),
              !.user = IF work[w].u = Nobody THEN @ ELSE work[w].u]

Bumped(w, row) ==
  [row EXCEPT !.count = @ + 1, !.user = IF work[w].u = Nobody THEN @ ELSE work[w].u]

\* Every row of the fingerprint; none is left if an admin was faster.
BumpErrorReport(w) ==
  /\ At(w, "bump")
  /\ LET hit == OfPrint(work[w].print)
     IN  IF hit # {} /\ Known(work[w].u)
         THEN /\ groups' = [g \in GroupIds |-> IF g \in hit THEN Bumped(w, groups[g]) ELSE groups[g]]
              /\ Accept(work[w].print)
         ELSE UNCHANGED <<groups, accepted>>
  /\ Finish(w)
  /\ UNCHANGED <<members, reports, votes, files, counterVars, dirty, settled, gone>>

\* PATCH with any JSON value: the database reads it as an integer or refuses
\* it, and only the numbers 4 and 5 count as resolving.
RenderStatus(raw) ==
  [ok |-> raw.type \in {"number", "text"}, resolve |-> raw.type = "number" /\ raw.n \in {4, 5}]

SetStatusRaw(g, raw) ==
  /\ Served("status")
  /\ groups' = IF g \in Existing(groups) /\ RenderStatus(raw).ok
               THEN [groups EXCEPT ![g].status = raw.n,
                                   ![g].resolved = @ \/ RenderStatus(raw).resolve]
               ELSE groups
  /\ UNCHANGED <<members, reports, votes, files, counterVars, observerVars>>

DeleteError(g) ==
  /\ Served("deleteError") /\ g \in Existing(groups)
  /\ groups' = [groups EXCEPT ![g] = NoRow]
  /\ gone' = [gone EXCEPT ![groups[g].print] = @ + groups[g].count]
  /\ UNCHANGED <<members, reports, votes, files, counterVars, dirty, settled, accepted>>

AdminErrorFixCandidates ==
  {g \in Existing(groups) : groups[g].status = 0 /\ ~groups[g].proposal /\ groups[g].count >= 2}

SuggestErrorFix(w, g) ==
  /\ IF g \in Existing(groups) THEN Begin(w, "suggest", Ask("error", g, 0, {})) ELSE Served("suggest")
  /\ UNCHANGED communityVars

\* The hourly pass, or one an admin starts: two may overlap.
ErrorFixJob(w) ==
  /\ IF AdminErrorFixCandidates = {} THEN Served("errorJob")
     ELSE Begin(w, "errorJob", [pc |-> "pick", kind |-> "error", todo |-> AdminErrorFixCandidates])
  /\ UNCHANGED communityVars

PickError(w) ==
  /\ At(w, "pick") /\ work[w].kind = "error"
  /\ \E g \in work[w].todo :
       LET rest == work[w].todo \ {g}
       IN  IF g \in Existing(groups) THEN Goto(w, Ask("error", g, 0, rest))
           ELSE Goto(w, IF rest = {} THEN Idle ELSE [work[w] EXCEPT !.todo = rest])
  /\ UNCHANGED communityVars

\* Whatever the status is by now, it becomes 3, FIX_PROPOSED.
AdminSetErrorFixProposal(w) ==
  /\ At(w, "ask") /\ work[w].kind = "error"
  /\ groups' = IF work[w].id \in Existing(groups)
               THEN [groups EXCEPT ![work[w].id].proposal = TRUE, ![work[w].id].status = 3]
               ELSE groups
  /\ Goto(w, After(w))
  /\ UNCHANGED <<members, reports, votes, files, counterVars, observerVars>>

-----------------------------------------------------------------------------
CommunityAbort(w) ==
  /\ Abort(w)
  /\ dirty' = dirty \cup {f \in ReportIds : Voting(w, f)}
  /\ UNCHANGED <<tableVars, counterVars, settled, accepted, gone>>

CommunityInit ==
  /\ members = Members /\ votes = {} /\ files = {}
  /\ reports = [r \in ReportIds |-> IF r \in DOMAIN Seed THEN Seed[r] ELSE NoRow]
  /\ groups = [g \in GroupIds |-> NoRow]
  /\ lastReport = Len(Seed) /\ lastGroup = 0 /\ lastFile = 0
  /\ dirty = {} /\ settled = {}
  /\ accepted = [p \in Prints |-> 0] /\ gone = [p \in Prints |-> 0]

Submission(w) ==
  \/ \E b \in Bodies, u \in Members \cup {Nobody} : CreateFeedback(w, b, u)
  \/ \E t \in {"given", "blank"}, s \in BOOLEAN, u \in Members \cup {Nobody} : CreateBug(w, t, s, u)
  \/ ResolveUserID(w) \/ StoreReport(w)

Toggle(w) ==
  \/ \E f \in 1..lastReport, u \in members : ToggleVote(w, f, u)
  \/ VoteExists(w) \/ InsertVote(w) \/ DeleteVote(w) \/ CountVotes(w) \/ UpdateVoteCount(w)

Triage(w) ==
  \/ \E r \in 1..lastReport, p \in Patches : PatchBug(w, r, p)
  \/ \E r \in 1..lastReport : SuggestBugFix(w, r)
  \/ AdminUpdate(w) \/ BugFixJob(w) \/ PickBug(w) \/ AdminSetBugFixProposal(w) \/ ProviderFails(w)

Crash(w) ==
  \/ \E p \in Prints, u \in Members \cup {Nobody} : Ingest(w, p, u)
  \/ \E g \in 1..lastGroup : SuggestErrorFix(w, g)
  \/ InsertErrorReport(w) \/ BumpErrorReport(w) \/ ErrorFixJob(w) \/ PickError(w)
  \/ AdminSetErrorFixProposal(w)

CommunityNext ==
  \/ \E w \in Workers : Submission(w) \/ Toggle(w) \/ Triage(w) \/ Crash(w) \/ CommunityAbort(w)
  \/ \E r \in Existing(reports) : DeleteBug(r)
  \/ \E g \in GroupIds : DeleteError(g) \/ \E raw \in Raws : SetStatusRaw(g, raw)
  \/ \E u \in Members : DeleteMember(u)
=============================================================================
