----------------------------- MODULE ListingProps -----------------------------
(***************************************************************************)
(* What must hold of the lists and of the inbox.                           *)
(***************************************************************************)
EXTENDS Listing

\* Every row of the table is well formed, and a list shows ids of it.
ListingTypeOK ==
  /\ \A i \in Existing(rows) : rows[i] \in Row
  /\ ToSet(walk.seen) \subseteq DOMAIN rows
  /\ version \in 0..MaxRequests

-----------------------------------------------------------------------------
Newer(i, j) == rows[i].key >= rows[j].key
NoTies(S) == \A i, j \in S : i # j => rows[i].key # rows[j].key

\* A client that turned the pages of a list from the first on, with no write
\* since, was shown each row its filter selects exactly once and in order,
\* whatever the page size it asked for was turned into.  Without distinct sort
\* values this fails: listquery orders by one column and breaks no tie.
WalkComplete ==
  (/\ walk.done /\ walk.at = version
   /\ NoTies(Existing(rows)) /\ Limit(walk.q) > 0 /\ Page(walk.q) = 1)
  => walk.seen \in Sorted(IF Whole(walk.q) THEN Existing(rows) ELSE Matching(walk.q), walk.q.up)

\* The inbox shows the newest rows of both sources: as many as it may, and none
\* of those left out is newer than one it shows.
FeedNewest ==
  (feed.at = version /\ feed.kind # "counts" /\ feed.limit > 0) =>
     LET all == Of(CASE feed.kind = "all" -> Sources [] feed.kind = "error" -> {"error"}
                     [] OTHER -> {"bug", "feature"}, feed.open)
         in  == {x.id : x \in ToSet(feed.items)}
     IN  /\ Len(feed.items) = Cardinality(in) /\ in \subseteq all
         /\ Cardinality(in) = IF Cardinality(all) < feed.limit THEN Cardinality(all) ELSE feed.limit
         /\ \A i \in in, j \in all \ in : Newer(i, j)
         /\ \A a, b \in DOMAIN feed.items : a < b => feed.items[a].key >= feed.items[b].key

\* The three totals of the inbox add up to the open rows.
CountsAddUp ==
  (feed.at = version /\ feed.kind = "counts") => feed.n = Cardinality(Of(Sources, TRUE))

\* What an admin is shown is all there is: no row is skipped or repeated between
\* pages, and merging the sources of the inbox leaves out only what is older.
ListsComplete == WalkComplete /\ FeedNewest /\ CountsAddUp
=============================================================================
