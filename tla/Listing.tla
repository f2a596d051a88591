-------------------------------- MODULE Listing --------------------------------
(***************************************************************************)
(* What an admin is shown: the page-by-page lists (shared/listquery and    *)
(* the lists that parse their own parameters), and the inbox that merges   *)
(* error and bug reports.  A list is answered by two statements, one for   *)
(* the page and one for the total, and other requests write in between.    *)
(*                                                                         *)
(* One table stands for each of theirs.  A row has the value it is sorted  *)
(* by, whether the search term hits it, and whether it is active (or, in   *)
(* the inbox, still open).                                                 *)
(***************************************************************************)
EXTENDS Serving, SequencesExt

CONSTANTS
  Shown,                  \* the table when the model starts, by id
  RowBodies, Queries,     \* rows written, and what a client asks a list for
  FeedLimits,             \* limits asked of the inbox
  DefaultRows, CapRows,   \* rows of a page: 10, 20 or 50 unless asked for; 100 or 200 at most
  Absent                  \* a parameter not given

\* One for each way to read the parameters.
Lists == {"entities", "features", "users", "payments", "transactions", "emailLogs"}
Sources == {"error", "bug", "feature"}
Row == [source : Sources, key : Nat, hit : BOOLEAN, live : BOOLEAN]
ListRequest ==
  [list : Lists, page : Int \cup {Absent}, limit : Int \cup {Absent},
   search : BOOLEAN, status : {"all", "active", "inactive"}, up : BOOLEAN]

ASSUME ListingAssumption ==
  /\ {DefaultRows, CapRows} \subseteq Nat \ {0} /\ DefaultRows <= CapRows
  /\ IsFiniteSet(DOMAIN Shown) /\ \A i \in DOMAIN Shown : Shown[i] \in Row \cup {NoRow}
  /\ RowBodies \subseteq Row /\ NoRow \notin Row
  /\ Queries \subseteq ListRequest /\ FeedLimits \subseteq Int \cup {Absent} /\ Absent \notin Int

VARIABLES
  rows,      \* [source, key, hit, live]
  version,   \* observer: number of writes
  walk,      \* observer: the pages a client has been shown, first to last
  feed       \* observer: the last answer of the inbox

listingVars == <<rows, version, walk, feed>>

-----------------------------------------------------------------------------
(***************************************************************************)
(* The parameters of a list.  An entity list is asked without parameters   *)
(* for the whole table.                                                    *)
(***************************************************************************)
Clamped(n) == IF n < 1 THEN 1 ELSE IF n > CapRows THEN CapRows ELSE n

Limit(q) ==
  LET n == IF q.limit = Absent THEN DefaultRows ELSE q.limit
  IN  CASE q.list = "entities"  -> Clamped(n)
        [] q.list = "features"  -> Clamped(IF n = 0 THEN DefaultRows ELSE n)
        [] q.list = "users"     -> IF n < 1 THEN DefaultRows ELSE n
        [] q.list = "emailLogs" -> IF n = 0 THEN DefaultRows ELSE IF n > CapRows THEN CapRows ELSE n
        [] OTHER                -> n

Page(q) ==
  LET n == IF q.page = Absent THEN 1 ELSE q.page
  IN  IF q.list # "transactions" /\ n < 1 THEN 1 ELSE n

\* Faulty variant: pages are counted from zero.
OffsetFromZero(q) == Page(q) * Limit(q)

Offset(q) ==
  LET n == (Page(q) - 1) * Limit(q)
  IN  IF q.list = "emailLogs" /\ n < 0 THEN 0 ELSE n

Whole(q) == q.list = "entities" /\ q.page = Absent /\ ~q.search /\ q.status = "all"

Matching(q) ==
  {i \in Existing(rows) :
     /\ q.search => rows[i].hit
     /\ q.status # "all" => rows[i].live = (q.status = "active")}

\* The ids S in every order the database may return: ties are in no order.
Sorted(S, up) ==
  {s \in SetToSeqs(S) :
     \A a, b \in DOMAIN s : a < b => IF up THEN rows[s[a]].key <= rows[s[b]].key
                                           ELSE rows[s[a]].key >= rows[s[b]].key}

Cut(s, offset, limit) == SubSeq(s, offset + 1, IF Len(s) < offset + limit THEN Len(s) ELSE offset + limit)

-----------------------------------------------------------------------------
NoWalk == [at |-> -1, total |-> 0, done |-> FALSE, seen |-> <<>>]

\* Readers do not disturb each other: one client, which waits for its answer and
\* then asks for the page after those it has been shown.
Wants(q) == Busy = {} /\ (walk # NoWalk => walk.q = q /\ ~walk.done)
Asks(q) == IF walk = NoWalk THEN q ELSE [q EXCEPT !.page = walk.page + 1]

Shows(q, p, at, ids, total) ==
  LET old  == IF p = q THEN <<>> ELSE walk.seen
      seen == old \o ids
  IN  walk' = [q |-> q, page |-> Page(p), at |-> IF p = q THEN at ELSE walk.at,
               seen |-> seen, total |-> total,
               done |-> Len(seen) >= total \/ ids = <<>>]

\* A negative limit or offset is refused by the database.
Refused(q) == Limit(q) < 0 \/ Offset(q) < 0

ListAll(q) ==
  /\ Served("list")
  /\ Whole(q) /\ Wants(q)
  /\ \E s \in Sorted(Existing(rows), q.up) :
       walk' = [q |-> q, page |-> 1, at |-> version, seen |-> s, total |-> Len(s), done |-> TRUE]
  /\ UNCHANGED <<rows, version, feed>>

ListPage(w, q) ==
  /\ ~Whole(q) /\ Wants(q)
  /\ LET p == Asks(q)
     IN  IF Refused(p) THEN Served("list")
         ELSE IF q.list = "features"
         THEN Begin(w, "list", [pc |-> "page", q |-> q, p |-> p, at |-> version,
                                total |-> Cardinality(Matching(p))])
         ELSE \E s \in Sorted(Matching(p), p.up) :
                Begin(w, "list", [pc |-> "total", q |-> q, p |-> p, at |-> version,
                                  ids |-> Cut(s, Offset(p), Limit(p))])
  /\ UNCHANGED listingVars

CountRows(w) ==
  /\ At(w, "total")
  /\ Shows(work[w].q, work[w].p, work[w].at, work[w].ids, Cardinality(Matching(work[w].p)))
  /\ Finish(w)
  /\ UNCHANGED <<rows, version, feed>>

\* The feature board counts first.
ListFeatures(w) ==
  /\ At(w, "page")
  /\ LET p == work[w].p
     IN  \E s \in Sorted(Matching(p), p.up) :
           Shows(work[w].q, p, work[w].at, Cut(s, Offset(p), Limit(p)), work[w].total)
  /\ Finish(w)
  /\ UNCHANGED <<rows, version, feed>>

-----------------------------------------------------------------------------
(***************************************************************************)
(* The inbox: as many of the newest errors and of the newest bugs as the   *)
(* answer may hold, merged by time, errors first among equals, and cut.    *)
(***************************************************************************)
NoFeed == [at |-> -1, kind |-> "none"]

InboxLimit(n) ==
  IF n = Absent \/ n = 0 THEN DefaultRows ELSE IF n > CapRows THEN CapRows ELSE n

Of(sources, openOnly) ==
  {i \in Existing(rows) : rows[i].source \in sources /\ (openOnly => rows[i].live)}

\* What was read of the rows ids.
Read(ids) == [k \in DOMAIN ids |-> [id |-> ids[k], key |-> rows[ids[k]].key]]

\* Faulty variant: no sort after the concatenation.
MergedNot(items) == items

\* By time, in a stable sort: equals stay in the order they came in.
Merged(items) ==
  LET before(a, b) == items[a].key > items[b].key \/ (items[a].key = items[b].key /\ a < b)
      place(b) == 1 + Cardinality({a \in DOMAIN items : before(a, b)})
  IN  [k \in DOMAIN items |-> items[CHOOSE b \in DOMAIN items : place(b) = k]]

FeedFor(w, n, kind, openOnly) ==
  /\ Busy = {} /\ feed = NoFeed
  /\ LET task(items) == [pc |-> "bugs", limit |-> InboxLimit(n), kind |-> kind, open |-> openOnly,
                       at |-> version, items |-> items]
     IN  IF kind = "bug" THEN Begin(w, "inbox", task(<<>>))
         ELSE IF InboxLimit(n) < 0 THEN Served("inbox")
         ELSE \E s \in Sorted(Of({"error"}, openOnly), FALSE) :
                Begin(w, "inbox", task(Read(Cut(s, 0, InboxLimit(n)))))
  /\ UNCHANGED listingVars

\* The limit of the bugs is clamped, and a negative one cuts nothing.
FeedMerge(w) ==
  /\ At(w, "bugs")
  /\ LET k == work[w].limit
         bugs == IF work[w].kind = "error" THEN {} ELSE Of({"bug", "feature"}, work[w].open)
     IN  \E s \in Sorted(bugs, FALSE) :
           LET merged == Merged(work[w].items \o Read(Cut(s, 0, Clamped(k))))
           IN  feed' = [at |-> work[w].at, kind |-> work[w].kind, open |-> work[w].open, limit |-> k,
                        items |-> IF k >= 0 THEN Cut(merged, 0, k) ELSE merged]
  /\ Finish(w)
  /\ UNCHANGED <<rows, version, walk>>

\* Three totals, one after the other.
InboxCounts(w) ==
  /\ Busy = {} /\ feed = NoFeed
  /\ Begin(w, "counts", [pc |-> "features", n |-> Cardinality(Of({"bug"}, TRUE)), at |-> version])
  /\ UNCHANGED listingVars

CountMore(w, pc, source, next) ==
  /\ At(w, pc)
  /\ LET n == work[w].n + Cardinality(Of({source}, TRUE))
     IN  IF next = "done"
         THEN /\ feed' = [at |-> work[w].at, kind |-> "counts", n |-> n]
              /\ Finish(w)
         ELSE Goto(w, [work[w] EXCEPT !.pc = next, !.n = n]) /\ UNCHANGED feed
  /\ UNCHANGED <<rows, version, walk>>

-----------------------------------------------------------------------------
\* Another request inserts, changes or deletes a row.
WriteRow(i, r) ==
  /\ Served("write")
  /\ rows[i] # r
  /\ rows' = [rows EXCEPT ![i] = r]
  /\ version' = version + 1
  /\ UNCHANGED <<walk, feed>>

ListingAbort(w) == Abort(w) /\ UNCHANGED listingVars

ListingInit ==
  /\ rows = Shown /\ version = 0
  /\ walk = NoWalk /\ feed = NoFeed

ListingNext ==
  \/ \E q \in Queries : ListAll(q) \/ \E w \in Workers : ListPage(w, q)
  \/ \E i \in DOMAIN rows, r \in RowBodies \cup {NoRow} : WriteRow(i, r)
  \/ \E w \in Workers :
       \/ CountRows(w) \/ ListFeatures(w) \/ FeedMerge(w) \/ InboxCounts(w) \/ ListingAbort(w)
       \/ CountMore(w, "features", "feature", "errors") \/ CountMore(w, "errors", "error", "done")
       \/ \E n \in FeedLimits, kind \in {"all", "error", "bug"}, open \in BOOLEAN :
            FeedFor(w, n, kind, open)

ListingSpec == ServingInit /\ ListingInit /\ [][ListingNext]_<<servingVars, listingVars>>
=============================================================================
