----------------------------- MODULE CommunityProps -----------------------------
(***************************************************************************)
(* What Community promises.                                                *)
(***************************************************************************)
EXTENDS Community

CommunitySpec == ServingInit /\ CommunityInit /\ [][CommunityNext]_<<servingVars, communityVars>>

\* Types; a feature on the board has a title and a platform, whichever way it
\* was submitted or edited, and a report's screenshot is on the disk.
CommunityTypeOK ==
  /\ ServingTypeOK
  /\ members \subseteq Members
  /\ votes \subseteq Features \X members
  /\ \A r \in Existing(reports) :
       /\ reports[r] \in Report
       /\ reports[r].shot \in files \cup {0}
       /\ Presentable(reports[r])
  /\ \A g \in Existing(groups) : groups[g] \in Group

\* Once a toggle has run with no other toggle of the feature beside it, and no
\* voter's account was deleted since, vote_count is the number of votes: races
\* repair themselves with the next quiet toggle (ToggleVote counts anew).
VoteCountExact ==
  \A f \in Features \ dirty :
    (\A w \in Workers : ~Voting(w, f)) => reports[f].count = Cardinality(VotesOf(f))

\* A bug that an admin closed while nothing else was at work on it stays closed
\* until an admin names another status: neither a proposal nor the job that
\* had it on its list opens it again (SuggestFix keeps a status that is not new).
ClosedStaysClosed == \A r \in settled : reports[r].status \in Closed

\* Every crash answered with 201 is counted in some row of its fingerprint,
\* however many reports of it arrive at once (BumpErrorReport adds in SQL).
CrashesCounted ==
  \A p \in Prints :
    accepted[p] <= gone[p] + MapThenSumSet(LAMBDA g : groups[g].count, OfPrint(p))
=============================================================================
