------------------------------ MODULE AccountProps ------------------------------
(***************************************************************************)
(* What the account operations promise.  "alone" holds while no two        *)
(* requests have overlapped: what is stated under it is a promise of the   *)
(* code to one request at a time, which no lock or transaction extends to  *)
(* requests that overlap.                                                  *)
(***************************************************************************)
EXTENDS Accounts

\* The tables, the requests in flight and the counters are well formed.
TypeOK ==
  /\ ops \in Scenes
  /\ users \in [Ids -> User \cup {NoRow}]
  /\ rows \subseteq [table : Tables, user : Ids, n : 1..MaxRows]
  /\ \A x \in tokens : x \in Token
  /\ profiles \in [Ids -> Profile \cup {NoRow}]
  /\ \A w \in Workers : /\ DOMAIN work[w] = DOMAIN Idle
                        /\ work[w].pc \in Pc /\ work[w].u \in Ids \cup {0}
                        /\ work[w].row \in User \cup {NoRow}
                        /\ work[w].stage \in 0..8
  /\ secret \in Keys /\ now \in 0..MaxTime
  /\ lastUser \in 0..MaxUsers /\ lastCode \in 0..MaxCodes /\ lastRow \in 0..MaxRows
  /\ answer.status \in Statuses \cup {0}

\* An account is marked verified only after someone presented a code mailed to
\* its address, or a provider vouched for the address when it was linked or
\* created.
VerifiedIsProven == \A u \in Existing(users) : users[u].verified => u \in proven

\* A reset code resets one password, and one that still works has failed fewer
\* than maxResetAttempts times.  Resets that overlap read the code before either
\* clears it, and all write the count they read, plus one.
ResetCodeHolds ==
  alone => /\ \A c \in 1..MaxCodes : spent[c] <= 1
           /\ \A u \in Existing(users) :
                users[u].rcode.n # 0 => tries[users[u].rcode.n] < maxResetAttempts

\* An account has a subscription row, the free one at least, as soon as the
\* request that created it is over.  A request cut short in between leaves an
\* account without one, and signing up again is refused as a duplicate.
AccountHasPlan ==
  aborts = 0 => \A u \in Existing(users) :
    \/ \E x \in rows : x.user = u /\ x.table = "subscriptions"
    \/ \E w \in Workers : work[w].pc = "free" /\ work[w].u = u

\* An identity sits on an account only because the account was created by it,
\* or its provider vouched for the address of the account.
LinkIsVouched ==
  \A u \in Existing(users) : \A s \in users[u].social :
    \E v \in vouches :
      /\ v[1] = u /\ v[2].kind = s[1] /\ v[2].id = s[2] /\ v[2].email = users[u].email
      /\ v[2].vouched \/ users[u].provider = v[2].kind

\* An identity belongs to one account.  Apple's ids have no unique index: two
\* sign-ins that overlap and assert different addresses would both create.
OneAccountPerIdentity ==
  \A who \in Identities :
    alone \/ who.kind # "apple" =>
      Cardinality({u \in Existing(users) : <<who.kind, who.id>> \in users[u].social}) <= 1

\* A token handed to a device works until the device gets another, the token
\* is revoked or the account is deleted.
MintedTokenWorks == \A n \in kept : Verify(n) # {}

\* Nothing a user owns goes before the account does, all of it goes with the
\* account, and a deletion that no other request overlaps succeeds.
DeletionAllOrNothing ==
  [][/\ \A u \in Ids :
          \A x \in {y \in rows : y.user = u} : x \in rows' \/
                (u \notin Existing(users') /\ {y \in rows' : y.user = u} = {}
                                           /\ {y \in tokens' : y.user = u} = {})
     /\ answer'.op = "delete" /\ alone' => answer'.status = 200]_vars

\* The first sign-in with a social identity creates the account and is let in.
FirstSocialAdmitted == answer.op = "socialNew" => answer.status = 201
=============================================================================
