----------------------------- MODULE ServiceProofs -----------------------------
(***************************************************************************)
(* Four services the requests rely on, for every instance of each: the     *)
(* gates in front of them, through which access lapses; the daily quota of *)
(* the stream, which nobody exceeds; the cache of Apple's keys, which      *)
(* heals after every rotation; and the mail, which leaves alone who is     *)
(* suppressed and reminds who runs out.                                    *)
(***************************************************************************)
EXTENDS GatesProps, QuotasProps, AppleKeysProps, MailProps,
        FiniteSetTheorems, SequenceTheorems, WellFoundedInduction, TLAPS

(***************************************************************************)
(* Gates: access lapses, whatever the lifetimes, the number of accounts    *)
(* and of requests, and whatever an admin does to accounts and lifetimes.  *)
(***************************************************************************)
Gated == {"member", "console"}
Granted(p, gate) == IF gate = "console" THEN Administers(p, standing[p]) ELSE Member(standing[p])

\* The variables the argument relies on.
GatesOK ==
  /\ clock \in Nat /\ lifetime \in Lifetimes
  /\ standing = [p \in Holders |-> standing[p]]
  /\ until \in [Holders -> [member : Int, console : Int]]
  /\ \A p \in Holders : until[p].member <= clock /\ until[p].console <= clock
  /\ work = [w \in Workers |-> work[w]]

\* Whoever is being signed in was a member, and an admin if the claims say so,
\* in this tick: the clock stands still while a request is under way.
SigningIsFresh ==
  \A w \in Workers : work[w].pc = "sign" =>
    \E u \in Users : /\ work[w].sub = u
                     /\ Since(u, "member") >= clock
                     /\ work[w].role = "admin" => Since(u, "console") >= clock

\* An access token ends within a lifetime of the last moment its holder was
\* entitled to what it opens.
EndsInTime(t, gate) == \E l \in Lifetimes \cup {ManagerTTL} : t.exp - Since(t.sub, gate) <= l

TokensBounded ==
  \A t \in jwts :
    /\ t.sub \in Holders /\ t.exp \in Nat
    /\ t.use = "access" => EndsInTime(t, "member") /\ (MayAdminister(t) => EndsInTime(t, "console"))

\* Who was let in is somebody.
AdmittedIsKnown ==
  (admitted # NoRow /\ admitted.by = "jwt" /\ admitted.gate # "public") =>
    admitted.sub \in Holders /\ admitted.gate \in Gated

GatesInv == GatesOK /\ SigningIsFresh /\ TokensBounded /\ AdmittedIsKnown /\ AccessLapses

LEMMA GatesInitially == ServingInit /\ GatesInit => GatesInv
<1> SUFFICES ASSUME ServingInit, GatesInit PROVE GatesInv
  OBVIOUS
<1>1. GatesOK
  <2>1. until \in [Holders -> [member : Int, console : Int]]
    BY DEF GatesInit
  <2>2. standing = [p \in Holders |-> standing[p]]
    BY GatesAssumption DEF GatesInit, Holders
  <2>3. \A p \in Holders : until[p].member <= clock /\ until[p].console <= clock
    BY DEF GatesInit
  <2> QED
    BY <2>1, <2>2, <2>3, GatesAssumption DEF GatesOK, GatesInit, ServingInit
<1>2. \A w \in Workers : work[w].pc = "idle"
  BY DEF ServingInit, Idle
<1> QED
  BY <1>1, <1>2 DEF GatesInit, GatesInv, SigningIsFresh, TokensBounded, AdmittedIsKnown, AccessLapses

-----------------------------------------------------------------------------
(* The last moment of an entitlement never moves back.                     *)

Grows ==
  \A p \in Holders, gate \in Gated :
    /\ Since(p, gate) \in Int /\ Since(p, gate)' \in Int
    /\ Since(p, gate)' >= Since(p, gate)

LEMMA SinceIsInt == ASSUME GatesOK, NEW p \in Holders, NEW gate \in Gated
                    PROVE  Since(p, gate) \in Int /\ Since(p, gate) <= clock
  BY DEF GatesOK, Since, Gated

LEMMA CalmGrows == ASSUME GatesOK, UNCHANGED <<standing, until>>, clock' \in Nat, clock <= clock'
                   PROVE  Grows
<1> SUFFICES ASSUME NEW p \in Holders, NEW gate \in Gated
             PROVE  /\ Since(p, gate) \in Int /\ Since(p, gate)' \in Int
                    /\ Since(p, gate)' >= Since(p, gate)
  BY DEF Grows
<1>1. Since(p, gate) \in Int /\ Since(p, gate) <= clock
  BY SinceIsInt
<1>2. Granted(p, gate)' <=> Granted(p, gate)
  BY DEF Granted, Administers, Member
<1>3. Since(p, gate) = IF Granted(p, gate) THEN clock ELSE until[p][gate]
  BY DEF Since, Granted
<1>4. Since(p, gate)' = IF Granted(p, gate)' THEN clock' ELSE until[p][gate]
  BY DEF Since, Granted
<1> QED
  BY <1>1, <1>2, <1>3, <1>4 DEF GatesOK

LEMMA BecomesIsOK == ASSUME GatesOK, clock' = clock, lifetime' \in Lifetimes, UNCHANGED work,
                            NEW p \in Holders, NEW s, Becomes(p, s)
                     PROVE  GatesOK'
<1>1. until' \in [Holders -> [member : Int, console : Int]]
  BY DEF GatesOK, Becomes
<1>2. ASSUME NEW q \in Holders PROVE until'[q].member <= clock' /\ until'[q].console <= clock'
  <2>1. CASE q = p
    BY <2>1 DEF GatesOK, Becomes
  <2>2. CASE q # p
    BY <2>2 DEF GatesOK, Becomes
  <2> QED
    BY <2>1, <2>2
<1>3. standing' = [q \in Holders |-> standing'[q]]
  BY DEF GatesOK, Becomes
<1> QED
  BY <1>1, <1>2, <1>3 DEF GatesOK

LEMMA BecomesGrows ==
  ASSUME GatesOK, clock' = clock, NEW p \in Holders, NEW s, Becomes(p, s)
  PROVE  Grows
<1> SUFFICES ASSUME NEW q \in Holders, NEW gate \in Gated
             PROVE  /\ Since(q, gate) \in Int /\ Since(q, gate)' \in Int
                    /\ Since(q, gate)' >= Since(q, gate)
  BY DEF Grows
<1>1. Since(q, gate) \in Int /\ Since(q, gate) <= clock /\ clock \in Int
  BY SinceIsInt DEF GatesOK
<1>2. CASE q # p
  <2>1. standing'[q] = standing[q] /\ until'[q] = until[q]
    BY <1>2 DEF GatesOK, Becomes
  <2>2. Since(q, gate)' = Since(q, gate)
    BY <2>1 DEF Since, Administers, Member
  <2> QED
    BY <1>1, <2>2
<1>3. CASE q = p
  <2>1. until'[q] = [member  |-> IF Member(standing[q]) THEN clock ELSE until[q].member,
                     console |-> IF Administers(q, standing[q]) THEN clock ELSE until[q].console]
    BY <1>3 DEF GatesOK, Becomes
  <2>2. until'[q][gate] = Since(q, gate)
    BY <2>1 DEF Since, Gated
  <2>3. Since(q, gate)' = clock' \/ Since(q, gate)' = until'[q][gate]
    BY DEF Since
  <2> QED
    BY <1>1, <2>2, <2>3
<1> QED
  BY <1>2, <1>3

-----------------------------------------------------------------------------
(* What a step keeps of the invariant when entitlements grow.              *)

LEMMA TokenKept ==
  ASSUME GatesOK, TokensBounded, Grows, NEW t \in jwts
  PROVE  /\ t.sub \in Holders /\ t.exp \in Nat
         /\ t.use = "access" => EndsInTime(t, "member")' /\ (MayAdminister(t) => EndsInTime(t, "console")')
<1>1. t.sub \in Holders /\ t.exp \in Nat
  BY DEF TokensBounded
<1>2. ASSUME NEW gate \in Gated, EndsInTime(t, gate) PROVE EndsInTime(t, gate)'
  <2>1. PICK l \in Lifetimes \cup {ManagerTTL} : t.exp - Since(t.sub, gate) <= l
    BY <1>2 DEF EndsInTime
  <2>2. l \in Int
    BY GatesAssumption
  <2>3. t.exp - Since(t.sub, gate)' <= l
    BY <1>1, <2>1, <2>2 DEF Grows
  <2> QED
    BY <2>3 DEF EndsInTime
<1> QED
  BY <1>1, <1>2 DEF TokensBounded, Gated

LEMMA TokensKept ==
  ASSUME GatesOK, TokensBounded, Grows, jwts' = jwts
  PROVE  TokensBounded'
  BY TokenKept DEF TokensBounded

LEMMA SigningKept ==
  ASSUME GatesOK, SigningIsFresh, Grows, clock' = clock,
         \A w \in Workers : work'[w] = work[w] \/ work'[w].pc # "sign"
  PROVE  SigningIsFresh'
<1> SUFFICES ASSUME NEW w \in Workers, work'[w].pc = "sign"
             PROVE  \E u \in Users : /\ work'[w].sub = u
                                     /\ Since(u, "member")' >= clock'
                                     /\ work'[w].role = "admin" => Since(u, "console")' >= clock'
  BY DEF SigningIsFresh
<1>1. work'[w] = work[w] /\ work[w].pc = "sign"
  OBVIOUS
<1>2. PICK u \in Users : /\ work[w].sub = u
                         /\ Since(u, "member") >= clock
                         /\ work[w].role = "admin" => Since(u, "console") >= clock
  BY <1>1 DEF SigningIsFresh
<1>3. clock \in Int /\ u \in Holders
  BY DEF GatesOK, Holders
<1> QED
  BY <1>1, <1>2, <1>3 DEF Grows, Gated

LEMMA LapseKept ==
  ASSUME GatesOK, AdmittedIsKnown, AccessLapses, Grows, clock' = clock, admitted' = admitted
  PROVE  AdmittedIsKnown' /\ AccessLapses'
<1>1. AdmittedIsKnown'
  BY DEF AdmittedIsKnown
<1>2. ASSUME admitted # NoRow, admitted.by = "jwt", admitted.gate # "public"
      PROVE  \E l \in Lifetimes \cup {ManagerTTL} : clock - Since(admitted.sub, admitted.gate)' <= l
  <2>1. admitted.sub \in Holders /\ admitted.gate \in Gated
    BY <1>2 DEF AdmittedIsKnown
  <2>2. PICK l \in Lifetimes \cup {ManagerTTL} : clock - Since(admitted.sub, admitted.gate) <= l
    BY <1>2 DEF AccessLapses
  <2>3. l \in Int /\ clock \in Int
    BY GatesAssumption DEF GatesOK
  <2> QED
    BY <2>1, <2>2, <2>3 DEF Grows
<1> QED
  BY <1>1, <1>2 DEF AccessLapses

-----------------------------------------------------------------------------
(* The kinds of step.                                                      *)

\* No worker turns to signing.
Unsigned == \A w \in Workers : work'[w] = work[w] \/ work'[w].pc # "sign"

LEMMA FinishUnsigned == ASSUME GatesOK, NEW w \in Workers, Finish(w)
                        PROVE  Unsigned /\ work' = [v \in Workers |-> work'[v]]
  BY DEF GatesOK, Finish, Goto, Idle, Unsigned

\* Login and Refresh: a member of this moment is about to be given tokens.
LEMMA SignKeeps ==
  ASSUME GatesInv, NEW w \in Workers, NEW u \in Users, MayLogin(u),
         work' = [work EXCEPT ![w] = Sign(u)], UNCHANGED gatesVars
  PROVE  GatesInv'
<1> USE DEF GatesInv
<1>1. UNCHANGED <<clock, standing, lifetime, jwts, until, admitted>>
  BY DEF gatesVars
<1>2. Grows
  BY <1>1, CalmGrows DEF GatesOK
<1>3. GatesOK'
  BY <1>1 DEF GatesOK
<1>4. TokensBounded' /\ AdmittedIsKnown' /\ AccessLapses'
  BY <1>1, <1>2, TokensKept, LapseKept
<1>5. /\ u \in Holders /\ clock \in Int
      /\ Since(u, "member") >= clock
      /\ standing[u].role = "admin" => Since(u, "console") >= clock
  BY DEF MayLogin, Since, Member, Administers, Holders, GatesOK
<1>6. /\ Since(u, "member")' >= clock'
      /\ standing[u].role = "admin" => Since(u, "console")' >= clock'
  BY <1>1, <1>2, <1>5 DEF Grows, Gated
<1>7. SigningIsFresh'
  <2> SUFFICES ASSUME NEW v \in Workers, work'[v].pc = "sign"
               PROVE  \E x \in Users : /\ work'[v].sub = x
                                       /\ Since(x, "member")' >= clock'
                                       /\ work'[v].role = "admin" => Since(x, "console")' >= clock'
    BY DEF SigningIsFresh
  <2>1. CASE v = w
    <3>1. work'[v].sub = u /\ work'[v].role = standing[u].role
      BY <2>1 DEF GatesOK, Sign
    <3> QED
      BY <3>1, <1>6
  <2>2. CASE v # w
    <3>1. work'[v] = work[v] /\ work[v].pc = "sign"
      BY <2>2 DEF GatesOK
    <3>2. PICK x \in Users : /\ work[v].sub = x
                             /\ Since(x, "member") >= clock
                             /\ work[v].role = "admin" => Since(x, "console") >= clock
      BY <3>1 DEF SigningIsFresh
    <3>3. x \in Holders
      BY DEF Holders
    <3> QED
      BY <1>1, <1>2, <1>5, <3>1, <3>2, <3>3 DEF Grows, Gated
  <2> QED
    BY <2>1, <2>2
<1> QED
  BY <1>3, <1>4, <1>7

\* A token is issued to a holder whose entitlement is as fresh as the clock.
LEMMA IssueKeeps ==
  ASSUME GatesInv, GatesOK', UNCHANGED <<clock, standing, until, admitted>>, Unsigned,
         NEW p \in Holders, NEW admin, NEW role, NEW l \in Lifetimes \cup {ManagerTTL},
         Since(p, "member") >= clock, admin \/ role = "admin" => Since(p, "console") >= clock,
         jwts' = jwts \cup {Jwt("access", p, admin, role, l), Jwt("refresh", p, admin, role, RefreshTTL)}
  PROVE  GatesInv'
<1> USE DEF GatesInv
<1>1. Grows
  BY CalmGrows DEF GatesOK
<1>2. SigningIsFresh' /\ AdmittedIsKnown' /\ AccessLapses'
  BY <1>1, SigningKept, LapseKept DEF Unsigned
<1>3. clock \in Nat /\ l \in Nat /\ RefreshTTL \in Nat
  BY GatesAssumption DEF GatesOK
<1>4. ASSUME NEW gate \in Gated, Since(p, gate) >= clock
      PROVE  \E d \in Lifetimes \cup {ManagerTTL} : (clock + l) - Since(p, gate)' <= d
  BY <1>1, <1>3, <1>4 DEF Grows
<1>5. TokensBounded'
  <2> SUFFICES ASSUME NEW t \in jwts'
               PROVE  /\ t.sub \in Holders /\ t.exp \in Nat
                      /\ t.use = "access" => EndsInTime(t, "member")' /\ (MayAdminister(t) => EndsInTime(t, "console")')
    BY DEF TokensBounded
  <2>1. CASE t \in jwts
    BY <2>1, <1>1, TokenKept
  <2>2. CASE t = Jwt("access", p, admin, role, l)
    <3>1. t.sub = p /\ t.exp = clock + l /\ (MayAdminister(t) <=> (admin \/ role = "admin"))
      BY <2>2 DEF Jwt, MayAdminister
    <3>2. EndsInTime(t, "member")'
      BY <3>1, <1>4 DEF EndsInTime, Gated
    <3>3. MayAdminister(t) => EndsInTime(t, "console")'
      BY <3>1, <1>4 DEF EndsInTime, Gated
    <3> QED
      BY <3>1, <3>2, <3>3, <1>3
  <2>3. CASE t = Jwt("refresh", p, admin, role, RefreshTTL)
    BY <2>3, <1>3 DEF Jwt
  <2> QED
    BY <2>1, <2>2, <2>3
<1> QED
  BY <1>2, <1>5

\* Somebody is let in, with an access token, with an extension token, or to
\* what is public.
LEMMA LetKeeps ==
  ASSUME GatesInv, UNCHANGED <<clock, standing, until, lifetime, jwts, work>>,
         NEW gate, NEW by, NEW sub, Let(gate, by, sub),
         by = "jwt" /\ gate # "public" =>
           /\ gate \in Gated
           /\ \E t \in jwts : /\ sub = t.sub /\ Accepted(t, "access")
                              /\ gate = "console" => MayAdminister(t)
  PROVE  GatesInv'
<1> USE DEF GatesInv
<1>1. Grows
  BY CalmGrows DEF GatesOK
<1>2. GatesOK' /\ TokensBounded' /\ SigningIsFresh'
  BY <1>1, TokensKept, SigningKept DEF GatesOK
<1>3. ASSUME by = "jwt", gate # "public"
      PROVE  /\ sub \in Holders /\ gate \in Gated
             /\ \E l \in Lifetimes \cup {ManagerTTL} : clock - Since(sub, gate)' <= l
  <2>1. PICK t \in jwts : sub = t.sub /\ Accepted(t, "access") /\ (gate = "console" => MayAdminister(t))
    BY <1>3
  <2>2. gate \in Gated /\ EndsInTime(t, gate) /\ t.sub \in Holders /\ t.exp \in Nat
    BY <1>3, <2>1 DEF TokensBounded, Accepted, Gated
  <2>3. PICK l \in Lifetimes \cup {ManagerTTL} : t.exp - Since(t.sub, gate) <= l
    BY <2>2 DEF EndsInTime
  <2>4. l \in Int /\ clock \in Int /\ clock < t.exp
    BY <2>1, GatesAssumption DEF GatesOK, Accepted
  <2>5. clock - Since(t.sub, gate)' <= l
    BY <2>2, <2>3, <2>4, <1>1 DEF Grows
  <2> QED
    BY <2>1, <2>2, <2>5
<1>4. admitted' = [gate |-> gate, by |-> by, sub |-> sub]
  BY DEF Let
<1>5. AdmittedIsKnown'
  BY <1>3, <1>4 DEF AdmittedIsKnown
<1>6. AccessLapses'
  BY <1>3, <1>4 DEF AccessLapses
<1> QED
  BY <1>2, <1>5, <1>6

\* An account changes: what its holder was entitled to is remembered.
LEMMA BecomesKeeps ==
  ASSUME GatesInv, UNCHANGED <<clock, lifetime, jwts, admitted, work>>,
         NEW p \in Holders, NEW s, Becomes(p, s)
  PROVE  GatesInv'
<1> USE DEF GatesInv
<1>1. Grows
  BY BecomesGrows
<1>2. GatesOK'
  BY BecomesIsOK DEF GatesOK
<1> QED
  BY <1>1, <1>2, TokensKept, SigningKept, LapseKept

\* Nothing the argument relies on changes, but a lifetime and the work of those
\* who do not turn to signing.
LEMMA QuietKeeps ==
  ASSUME GatesInv, UNCHANGED <<clock, standing, until, jwts, admitted>>, lifetime' \in Lifetimes,
         Unsigned, work' = [w \in Workers |-> work'[w]]
  PROVE  GatesInv'
<1> USE DEF GatesInv
<1>1. Grows
  BY CalmGrows DEF GatesOK
<1>2. GatesOK'
  BY DEF GatesOK
<1> QED
  BY <1>1, <1>2, TokensKept, SigningKept, LapseKept DEF Unsigned

LEMMA StillKeeps ==
  ASSUME GatesInv, UNCHANGED <<clock, standing, until, jwts, admitted, lifetime, work>>
  PROVE  GatesInv'
  BY QuietKeeps DEF GatesInv, GatesOK, Unsigned

\* The clock ticks when nobody is being signed in.
LEMMA TickKeeps == ASSUME GatesInv, Tick PROVE GatesInv'
<1> USE DEF GatesInv
<1>1. /\ clock' = clock + 1 /\ admitted' = NoRow
      /\ UNCHANGED <<standing, until, lifetime, jwts, work>>
  BY DEF Tick, servingVars, accountVars
<1>2. Grows
  BY <1>1, CalmGrows DEF GatesOK
<1>3. GatesOK'
  BY <1>1 DEF GatesOK
<1>4. TokensBounded'
  BY <1>1, <1>2, TokensKept
<1>5. SigningIsFresh'
  <2>1. \A w \in Workers : work[w].pc = "idle"
    BY DEF Tick, Busy, Idle
  <2> QED
    BY <1>1, <2>1 DEF SigningIsFresh
<1>6. AdmittedIsKnown' /\ AccessLapses'
  BY <1>1 DEF AdmittedIsKnown, AccessLapses
<1> QED
  BY <1>3, <1>4, <1>5, <1>6

-----------------------------------------------------------------------------
(* One step per action.                                                    *)

LEMMA GatesStep == GatesInv /\ [GatesNext]_<<servingVars, gatesVars>> => GatesInv'
<1> SUFFICES ASSUME GatesInv, [GatesNext]_<<servingVars, gatesVars>> PROVE GatesInv'
  OBVIOUS
<1> USE DEF Served, Begin, Arrive, At
<1>1. ASSUME NEW w \in Workers, NEW u \in Users, Login(w, u) PROVE GatesInv'
  BY <1>1, SignKeeps DEF Login
<1>2. ASSUME NEW w \in Workers, NEW t \in jwts, Refresh(w, t) PROVE GatesInv'
  BY <1>2, SignKeeps DEF Refresh, MayRefresh
<1>3. ASSUME NEW w \in Workers, GenerateTokens(w) PROVE GatesInv'
  <2>1. PICK u \in Users : /\ work[w].sub = u
                           /\ Since(u, "member") >= clock
                           /\ work[w].role = "admin" => Since(u, "console") >= clock
    BY <1>3 DEF GenerateTokens, GatesInv, SigningIsFresh
  <2>2. /\ UNCHANGED <<clock, standing, until, admitted, lifetime>>
        /\ jwts' = jwts \cup {Jwt("access", u, FALSE, work[w].role, lifetime),
                              Jwt("refresh", u, FALSE, work[w].role, RefreshTTL)}
    BY <1>3, <2>1 DEF GenerateTokens, accountVars
  <2>3. Unsigned /\ work' = [v \in Workers |-> work'[v]]
    BY <1>3, FinishUnsigned DEF GenerateTokens, GatesInv
  <2>4. GatesOK' /\ lifetime \in Lifetimes \cup {ManagerTTL} /\ u \in Holders
    BY <2>2, <2>3 DEF GatesInv, GatesOK, Holders
  <2>5. PICK l, role :
          /\ l \in Lifetimes \cup {ManagerTTL}
          /\ role = "admin" => Since(u, "console") >= clock
          /\ jwts' = jwts \cup {Jwt("access", u, FALSE, role, l), Jwt("refresh", u, FALSE, role, RefreshTTL)}
    BY <2>1, <2>2, <2>4
  <2> QED
    BY <2>1, <2>2, <2>3, <2>4, <2>5, IssueKeeps
<1>4. ASSUME NEW m \in Managers, ManagerLogin(m) PROVE GatesInv'
  <2>1. /\ UNCHANGED <<clock, standing, until, admitted, lifetime, work>>
        /\ jwts' = jwts \cup {Jwt("access", m, TRUE, standing[m].role, ManagerTTL),
                              Jwt("refresh", m, TRUE, standing[m].role, RefreshTTL)}
    BY <1>4 DEF ManagerLogin, accountVars
  <2>2. GatesOK' /\ Unsigned /\ m \in Holders
    BY <2>1 DEF GatesInv, GatesOK, Unsigned, Holders
  <2>3. Since(m, "member") >= clock /\ Since(m, "console") >= clock
    BY <1>4 DEF ManagerLogin, MayLogin, Since, Member, Administers, GatesInv, GatesOK
  <2> QED
    BY <2>1, <2>2, <2>3, IssueKeeps
<1>5. ASSUME NEW r \in Visited, Routed(r) PROVE UNCHANGED <<clock, standing, until, lifetime, jwts, work>>
  BY <1>5 DEF Routed, accountVars
<1>6. ASSUME NEW t \in jwts, NEW r \in Visited, AskOptional(r, t) PROVE GatesInv'
  BY <1>5, <1>6, LetKeeps DEF AskOptional
<1>7. ASSUME NEW t \in jwts, AskVote(t) PROVE GatesInv'
  <2>1. UNCHANGED <<clock, standing, until, lifetime, jwts, work>>
    BY <1>7 DEF AskVote, Routed, accountVars
  <2> QED
    BY <1>7, <2>1, LetKeeps DEF AskVote, Presents, Gated
<1>8. ASSUME NEW t \in jwts, NEW r \in Visited, AskMember(r, t) \/ AskRewrite(r, t) PROVE GatesInv'
  <2>1. Routed(r) /\ Presents(t) /\ Let("member", "jwt", t.sub)
    BY <1>8 DEF AskMember, AskRewrite
  <2> QED
    BY <1>5, <2>1, LetKeeps DEF Presents, Gated
<1>9. ASSUME NEW t \in jwts, NEW r \in Visited, AskConsole(r, t) PROVE GatesInv'
  BY <1>5, <1>9, LetKeeps DEF AskConsole, Presents, Gated
<1>10. ASSUME NEW u \in Users, NEW r \in Visited, AskRewriteExt(r, u) PROVE GatesInv'
  BY <1>5, <1>10, LetKeeps DEF AskRewriteExt
<1>11. ASSUME NEW t \in jwts, Mint(t) \/ Revoke(t) PROVE GatesInv'
  BY <1>11, StillKeeps DEF Mint, Revoke
<1>12. ASSUME NEW t \in jwts, DeleteAccount(t) PROVE GatesInv'
  BY <1>12, BecomesKeeps DEF DeleteAccount, Holders
<1>13. ASSUME NEW b \in StandingBodies, NEW u \in Users, UpdateUser(u, b) PROVE GatesInv'
  BY <1>13, BecomesKeeps DEF UpdateUser, Holders
<1>14. ASSUME NEW b \in StandingBodies, NEW m \in Managers, UpdateManager(m, b) PROVE GatesInv'
  BY <1>14, BecomesKeeps DEF UpdateManager, Holders
<1>15. ASSUME NEW d \in Lifetimes, SetLifetime(d) PROVE GatesInv'
  BY <1>15, QuietKeeps DEF SetLifetime, accountVars, GatesInv, GatesOK, Unsigned
<1>16. ASSUME NEW w \in Workers, GatesAbort(w) PROVE GatesInv'
  BY <1>16, FinishUnsigned, QuietKeeps DEF GatesAbort, Abort, gatesVars, GatesInv, GatesOK
<1>17. CASE UNCHANGED <<servingVars, gatesVars>>
  BY <1>17, StillKeeps DEF servingVars, gatesVars
<1> QED
  BY <1>1, <1>2, <1>3, <1>4, <1>6, <1>7, <1>8, <1>9, <1>10, <1>11, <1>12, <1>13, <1>14, <1>15, <1>16, <1>17,
     TickKeeps DEF GatesNext

\* A JWT carries nobody past a gate for longer than an access lifetime after
\* the account was deactivated, demoted or deleted, although no table is read
\* when one is presented (platform/auth/jwt.go:62, shared/admin_middleware.go:16).
THEOREM AccessAlwaysLapses == GatesSpec => []AccessLapses
<1>1. GatesInv => AccessLapses
  BY DEF GatesInv
<1> QED
  BY <1>1, GatesInitially, GatesStep, PTL DEF GatesSpec

-----------------------------------------------------------------------------
(* What the tables of the accounts hold: an extension token is deleted with *)
(* its user, and whoever holds a JWT is known.                              *)

StandingOK ==
  /\ clock \in 0..MaxTime /\ lifetime \in Lifetimes
  /\ standing \in [Holders -> AccountRow \cup {NoRow}]
  /\ \A t \in jwts : t.use \in {"access", "refresh"} /\ t.sub \in Holders
  /\ extensions \subseteq {u \in Users : standing[u] # NoRow}

LEMMA StandingInitially == GatesInit => StandingOK
  BY GatesAssumption DEF GatesInit, StandingOK, Holders

\* Tokens come and go.
LEMMA TokensStay ==
  ASSUME StandingOK, UNCHANGED standing, clock' \in 0..MaxTime, lifetime' \in Lifetimes,
         \A t \in jwts' : t \in jwts \/ (t.use \in {"access", "refresh"} /\ t.sub \in Holders),
         extensions' \subseteq {u \in Users : standing[u] # NoRow}
  PROVE  StandingOK'
  BY DEF StandingOK

\* An account's row is rewritten, or deleted with its extension token.
LEMMA RowRewritten ==
  ASSUME StandingOK, UNCHANGED <<clock, lifetime, jwts>>, NEW p \in Holders, NEW s, Becomes(p, s),
         s \in AccountRow \cup {NoRow}, extensions' \subseteq extensions, s = NoRow => p \notin extensions'
  PROVE  StandingOK'
<1>1. standing' = [standing EXCEPT ![p] = s]
  BY DEF Becomes
<1>2. standing' \in [Holders -> AccountRow \cup {NoRow}]
  BY <1>1 DEF StandingOK
<1>3. \A u \in extensions' : u \in Users /\ standing'[u] # NoRow
  BY <1>1 DEF StandingOK, Holders
<1> QED
  BY <1>2, <1>3 DEF StandingOK

LEMMA StandingStep == GatesInv /\ StandingOK /\ [GatesNext]_<<servingVars, gatesVars>> => StandingOK'
<1> SUFFICES ASSUME GatesInv, StandingOK, [GatesNext]_<<servingVars, gatesVars>> PROVE StandingOK'
  OBVIOUS
<1>0. clock \in 0..MaxTime /\ lifetime \in Lifetimes /\ Users \subseteq Holders /\ Managers \subseteq Holders
  BY DEF StandingOK, Holders
<1>1. ASSUME UNCHANGED <<clock, lifetime, standing, jwts, extensions>> PROVE StandingOK'
  BY <1>1 DEF StandingOK
<1>2. ASSUME NEW w \in Workers, \/ \E u \in Users : Login(w, u)
                                \/ \E t \in jwts : Refresh(w, t)
                                \/ GatesAbort(w)
      PROVE  StandingOK'
  BY <1>1, <1>2 DEF Login, Refresh, GatesAbort, gatesVars
<1>3. ASSUME NEW w \in Workers, GenerateTokens(w) PROVE StandingOK'
  <2>1. PICK u \in Users : work[w].sub = u
    BY <1>3 DEF GenerateTokens, At, GatesInv, SigningIsFresh
  <2>2. /\ UNCHANGED <<clock, lifetime, standing, extensions>>
        /\ \A t \in jwts' : t \in jwts \/ (t.use \in {"access", "refresh"} /\ t.sub = u)
    BY <1>3, <2>1 DEF GenerateTokens, accountVars, Jwt
  <2> QED
    BY <1>0, <2>2, TokensStay DEF StandingOK
<1>4. ASSUME NEW m \in Managers, ManagerLogin(m) PROVE StandingOK'
  <2>1. /\ UNCHANGED <<clock, lifetime, standing, extensions>>
        /\ \A t \in jwts' : t \in jwts \/ (t.use \in {"access", "refresh"} /\ t.sub = m)
    BY <1>4 DEF ManagerLogin, accountVars, Jwt
  <2> QED
    BY <1>0, <2>1, TokensStay DEF StandingOK
<1>5. ASSUME NEW r, Routed(r) PROVE StandingOK'
  BY <1>1, <1>5 DEF Routed, accountVars
<1>6. ASSUME NEW t \in jwts, \/ \E r \in Visited : \/ AskOptional(r, t) \/ AskMember(r, t)
                                                  \/ AskConsole(r, t) \/ AskRewrite(r, t)
                             \/ AskVote(t)
      PROVE  StandingOK'
  BY <1>5, <1>6 DEF AskOptional, AskMember, AskConsole, AskRewrite, AskVote
<1>7. ASSUME NEW u \in Users, NEW r \in Visited, AskRewriteExt(r, u) PROVE StandingOK'
  BY <1>5, <1>7 DEF AskRewriteExt
<1>8. ASSUME NEW t \in jwts, Mint(t) \/ Revoke(t) PROVE StandingOK'
  <2>1. UNCHANGED <<clock, lifetime, standing, jwts>> /\ extensions' \subseteq {u \in Users : standing[u] # NoRow}
    BY <1>8 DEF Mint, Revoke, StandingOK
  <2> QED
    BY <1>0, <2>1, TokensStay DEF StandingOK
<1>9. ASSUME NEW t \in jwts, DeleteAccount(t) PROVE StandingOK'
  <2>1. /\ t.sub \in Holders /\ Becomes(t.sub, NoRow) /\ extensions' = extensions \ {t.sub}
        /\ UNCHANGED <<clock, lifetime, jwts>>
    BY <1>0, <1>9 DEF DeleteAccount
  <2> QED
    BY <2>1, RowRewritten
<1>10. ASSUME NEW b \in StandingBodies, NEW u \in Users, UpdateUser(u, b) PROVE StandingOK'
  <2> DEFINE s == [f \in DOMAIN standing[u] |-> IF f \in DOMAIN b THEN b[f] ELSE standing[u][f]]
  <2>1. standing[u] \in AccountRow
    BY <1>0, <1>10 DEF UpdateUser, StandingOK
  <2>2. s \in AccountRow
    <3>1. DOMAIN standing[u] = {"active", "role"} /\ standing[u].active \in BOOLEAN /\ standing[u].role \in STRING
      BY <2>1 DEF AccountRow
    <3>2. s = [active |-> IF "active" \in DOMAIN b THEN b.active ELSE standing[u].active,
               role |-> IF "role" \in DOMAIN b THEN b.role ELSE standing[u].role]
      BY <3>1
    <3>3. ("active" \in DOMAIN b => b.active \in BOOLEAN) /\ ("role" \in DOMAIN b => b.role \in STRING)
      BY GatesAssumption
    <3> HIDE DEF s
    <3> QED
      BY <3>1, <3>2, <3>3 DEF AccountRow
  <2>3. Becomes(u, s) /\ UNCHANGED <<clock, lifetime, jwts, extensions>>
    BY <1>10 DEF UpdateUser
  <2> HIDE DEF s
  <2> QED
    BY <1>0, <2>2, <2>3, GatesAssumption, RowRewritten
<1>11. ASSUME NEW b \in StandingBodies, NEW m \in Managers, UpdateManager(m, b) PROVE StandingOK'
  <2> DEFINE s == [standing[m] EXCEPT !.active = b.active]
  <2>1. b.active \in BOOLEAN /\ standing[m] \in AccountRow
    BY <1>0, <1>11, GatesAssumption DEF UpdateManager, StandingOK
  <2>2. s \in AccountRow
    BY <2>1 DEF AccountRow
  <2>3. Becomes(m, s) /\ UNCHANGED <<clock, lifetime, jwts, extensions>>
    BY <1>11 DEF UpdateManager
  <2> HIDE DEF s
  <2> QED
    BY <1>0, <2>2, <2>3, GatesAssumption, RowRewritten
<1>12. ASSUME NEW d \in Lifetimes, SetLifetime(d) PROVE StandingOK'
  BY <1>0, <1>12, TokensStay DEF SetLifetime, accountVars, StandingOK
<1>13. ASSUME Tick PROVE StandingOK'
  <2>1. clock' \in 0..MaxTime /\ UNCHANGED <<lifetime, standing, jwts, extensions>>
    BY <1>0, <1>13, GatesAssumption DEF Tick, accountVars
  <2> QED
    BY <1>0, <2>1, TokensStay DEF StandingOK
<1>14. CASE UNCHANGED <<servingVars, gatesVars>>
  BY <1>1, <1>14 DEF gatesVars
<1> QED
  BY <1>2, <1>3, <1>4, <1>6, <1>7, <1>8, <1>9, <1>10, <1>11, <1>12, <1>13, <1>14 DEF GatesNext

\* Extension tokens are those of accounts that are there: a deleted account
\* leaves none behind, and none is minted for it (exttoken/usecase.go).  A JWT
\* names somebody who once was there.
THEOREM GatesTyped == GatesSpec => []GatesTypeOK
<1>1. StandingOK => GatesTypeOK
  BY DEF StandingOK, GatesTypeOK, AccountRow
<1> QED
  BY <1>1, GatesInitially, GatesStep, StandingInitially, StandingStep, PTL DEF GatesSpec

-----------------------------------------------------------------------------
(***************************************************************************)
(* The daily quota of the stream, for any limits, callers and number of    *)
(* requests, and whatever happens to plans and subscriptions meanwhile.    *)
(***************************************************************************)
StreamPcs == {"find", "used", "stream"}
Asking == [pc : StreamPcs \cup {"free", "count", "preamble"}, u : Callers, limit : Int]

\* Where the plan's limits come from, and what a request keeps of them.
PlansOK ==
  /\ plans \in [PlanIds -> PlanRow \cup {NoRow}]
  /\ subs = [u \in Callers |-> subs[u]]
  /\ \A u \in Callers : subs[u] # NoRow => subs[u].plan \in PlanIds /\ plans[subs[u].plan] \in PlanRow

AskingOK ==
  /\ work = [w \in Workers |-> work[w]]
  /\ \A w \in Workers : work[w].pc \in StreamPcs \cup {"free", "count", "preamble"} => work[w] \in Asking

\* What is finished was logged or refused by the database.
CountsOK ==
  /\ {logged, streamed, unlogged, allowance} \subseteq [Callers -> Nat]
  /\ requests \in 0..MaxRequests
  /\ \A u \in Callers : streamed[u] = logged[u] + unlogged[u]

InFlight(u) == {w \in Workers : work[w].pc \in StreamPcs /\ work[w].u = u}
LetIn(u) == {w \in Workers : work[w].pc = "stream" /\ work[w].u = u}
AskedBy(u) == Cardinality(InFlight(u))
Lets(u) == Cardinality(LetIn(u))

\* Every stream finished or under way was asked for.
Requested == \A u \in Callers : streamed[u] + AskedBy(u) <= requests

\* The streams counted and those let in leave room for one request less than
\* there may be at a time.
RoomLeft ==
  \A u \in Callers : logged[u] + Lets(u) + 1 <= allowance[u] + Cardinality(Workers)

QuotasInv == PlansOK /\ AskingOK /\ CountsOK /\ Requested /\ RoomLeft

LEMMA WorkersAreFinite ==
  /\ Cardinality(Workers) \in Nat \ {0}
  /\ \A S \in SUBSET Workers : /\ Cardinality(S) \in Nat /\ Cardinality(S) <= Cardinality(Workers)
                               /\ IsFiniteSet(S)
  BY QuotasAssumption, FS_CardinalityType, FS_Subset, FS_EmptySet

LEMMA OneMoreOrLess ==
  ASSUME NEW S \in SUBSET Workers, NEW T \in SUBSET Workers, NEW w \in Workers, T \ {w} = S \ {w}
  PROVE  /\ Cardinality(S) \in Nat /\ Cardinality(T) \in Nat
         /\ (w \in S <=> w \in T) => Cardinality(T) = Cardinality(S)
         /\ w \in S /\ w \notin T => Cardinality(T) = Cardinality(S) - 1
         /\ w \in T /\ w \notin S => Cardinality(T) = Cardinality(S) + 1
         /\ w \in S => Cardinality(S) >= 1
<1>1. IsFiniteSet(S) /\ Cardinality(S) \in Nat /\ Cardinality(T) \in Nat
  BY WorkersAreFinite
<1>2. CASE w \in S <=> w \in T
  <2>1. S = T
    BY <1>2
  <2>2. w \in S => Cardinality(S) # 0
    BY <1>1, FS_EmptySet
  <2> QED
    BY <1>1, <1>2, <2>1, <2>2
<1>3. CASE w \in S /\ w \notin T
  <2>1. T = S \ {w}
    BY <1>3
  <2> QED
    BY <1>1, <1>3, <2>1, FS_RemoveElement
<1>4. CASE w \in T /\ w \notin S
  <2>1. T = S \cup {w}
    BY <1>4
  <2> QED
    BY <1>1, <1>4, <2>1, FS_AddElement
<1> QED
  BY <1>2, <1>3, <1>4

LEMMA QuotasInitially == ServingInit /\ QuotasInit => QuotasInv
<1> SUFFICES ASSUME ServingInit, QuotasInit PROVE QuotasInv
  OBVIOUS
<1>1. \A w \in Workers : work[w].pc = "idle"
  BY DEF ServingInit, Idle
<1>2. PlansOK
  BY QuotasAssumption DEF QuotasInit, PlansOK, PlanIds
<1>3. AskingOK
  BY <1>1 DEF AskingOK, ServingInit, StreamPcs
<1>4. CountsOK
  BY ServingAssumption DEF QuotasInit, ServingInit, CountsOK
<1>5. \A u \in Callers : InFlight(u) = {} /\ LetIn(u) = {}
  BY <1>1 DEF InFlight, LetIn, StreamPcs
<1>6. \A u \in Callers : logged[u] = 0 /\ streamed[u] = 0 /\ allowance[u] = 0 /\ requests = 0
  BY DEF QuotasInit, ServingInit
<1>7. Requested /\ RoomLeft
  BY <1>5, <1>6, FS_EmptySet, WorkersAreFinite DEF Requested, RoomLeft, AskedBy, Lets
<1> QED
  BY <1>2, <1>3, <1>4, <1>7 DEF QuotasInv

-----------------------------------------------------------------------------
(* The largest of finitely many numbers.                                   *)

LessThan == {ss \in Nat \X Nat : ss[1] < ss[2]}

LEMMA NatLeast ==
  ASSUME NEW T \in SUBSET Nat, T # {}
  PROVE  \E n \in T : \A k \in T : k >= n
<1>1. IsWellFoundedOn(LessThan, Nat)
  BY NatLessThanWellFounded DEF OpToRel, LessThan
<1>2. PICK n \in T : \A k \in T : ~(<<k, n>> \in LessThan)
  BY <1>1, WFMin
<1>3. \A k \in T : ~(k < n)
  BY <1>2 DEF LessThan
<1> QED
  BY <1>3

\* A smallest set without a largest number would have one, once a member is
\* put aside.
LEMMA FiniteHasMax ==
  ASSUME NEW S, IsFiniteSet(S), S # {}, S \in SUBSET Nat
  PROVE  \E m \in S : \A x \in S : m >= x
<1> DEFINE Topped(X) == \E m \in X : \A x \in X : m >= x
           Bad == {X \in SUBSET S : X # {} /\ ~Topped(X)}
           Sizes == {Cardinality(X) : X \in Bad}
<1> SUFFICES ASSUME Bad # {} PROVE FALSE
  OBVIOUS
<1>1. \A X \in SUBSET S : IsFiniteSet(X) /\ Cardinality(X) \in Nat
  BY FS_Subset, FS_CardinalityType
<1>2. Sizes \in SUBSET Nat /\ Sizes # {}
  BY <1>1
<1>3. PICK n \in Sizes : \A k \in Sizes : k >= n
  <2> HIDE DEF Sizes
  <2> QED
    BY <1>2, NatLeast
<1>4. PICK X \in Bad : \A Y \in Bad : Cardinality(Y) >= Cardinality(X)
  BY <1>3
<1>5. PICK x \in X : TRUE
  OBVIOUS
<1>6. X \ {x} \notin Bad
  <2>1. X \in SUBSET S
    BY <1>4
  <2>2. /\ Cardinality(X \ {x}) = Cardinality(X) - 1
        /\ Cardinality(X) \in Nat /\ Cardinality(X \ {x}) \in Nat
    BY <1>1, <1>5, <2>1, FS_RemoveElement
  <2>3. ~(Cardinality(X \ {x}) >= Cardinality(X))
    BY <2>2
  <2> HIDE DEF Bad
  <2> QED
    BY <1>4, <2>3
<1>7. CASE X \ {x} = {}
  BY <1>5, <1>7
<1>8. CASE X \ {x} # {}
  <2>1. PICK m \in X \ {x} : \A y \in X \ {x} : m >= y
    BY <1>6, <1>8
  <2>2. \E k \in {m, x} : \A y \in X : k >= y
    BY <1>5, <2>1
  <2> QED
    BY <1>5, <2>1, <2>2
<1> QED
  BY <1>7, <1>8

LEMMA MaxIsLargest ==
  ASSUME NEW S, IsFiniteSet(S), S # {}, S \in SUBSET Nat
  PROVE  Max(S) \in S /\ \A x \in S : Max(S) >= x
  BY FiniteHasMax DEF Max

-----------------------------------------------------------------------------
(* Steps that let nobody in and count nothing.                             *)

LEMMA UsageKeeps ==
  ASSUME QuotasInv, PlansOK', AskingOK', UNCHANGED <<logged, streamed, unlogged, allowance>>,
         requests' \in {requests, requests + 1}, requests' <= MaxRequests,
         \A u \in Callers : InFlight(u)' \subseteq InFlight(u) /\ LetIn(u)' \subseteq LetIn(u)
  PROVE  QuotasInv'
<1>1. requests \in 0..MaxRequests /\ MaxRequests \in Nat
  BY ServingAssumption DEF QuotasInv, CountsOK
<1>2. CountsOK'
  BY <1>1 DEF QuotasInv, CountsOK
<1>3. ASSUME NEW u \in Callers
      PROVE  /\ {AskedBy(u), Lets(u), AskedBy(u)', Lets(u)'} \subseteq Nat
             /\ AskedBy(u)' <= AskedBy(u) /\ Lets(u)' <= Lets(u)
  <2>1. /\ InFlight(u) \in SUBSET Workers /\ LetIn(u) \in SUBSET Workers
        /\ InFlight(u)' \in SUBSET InFlight(u) /\ LetIn(u)' \in SUBSET LetIn(u)
    BY DEF InFlight, LetIn
  <2> QED
    BY <2>1, WorkersAreFinite, FS_Subset DEF AskedBy, Lets
<1>4. \A u \in Callers : {logged[u], streamed[u], allowance[u]} \subseteq Nat
  BY DEF QuotasInv, CountsOK
<1>5. Requested'
  BY <1>1, <1>3, <1>4 DEF QuotasInv, Requested
<1>6. RoomLeft'
  BY <1>3, <1>4, WorkersAreFinite DEF QuotasInv, RoomLeft
<1> QED
  BY <1>2, <1>5, <1>6 DEF QuotasInv

\* Worker w takes up a task, or ends one.
Moves(w) ==
  /\ work' = [x \in Workers |-> work'[x]]
  /\ \A x \in Workers \ {w} : work'[x] = work[x]
  /\ work'[w].pc \in StreamPcs \cup {"free", "count", "preamble"} => work'[w] \in Asking

LEMMA MovesOne ==
  ASSUME AskingOK, NEW w \in Workers, Moves(w)
  PROVE  /\ AskingOK'
         /\ \A u \in Callers :
              /\ InFlight(u)' = IF work'[w].pc \in StreamPcs /\ work'[w].u = u
                                THEN InFlight(u) \cup {w} ELSE InFlight(u) \ {w}
              /\ LetIn(u)' = IF work'[w].pc = "stream" /\ work'[w].u = u
                             THEN LetIn(u) \cup {w} ELSE LetIn(u) \ {w}
<1>1. AskingOK'
  BY DEF AskingOK, Moves
<1> QED
  BY <1>1 DEF InFlight, LetIn, Moves

LEMMA WorkRests ==
  ASSUME AskingOK, UNCHANGED work
  PROVE  AskingOK' /\ \A u \in Callers : InFlight(u)' = InFlight(u) /\ LetIn(u)' = LetIn(u)
  BY DEF AskingOK, InFlight, LetIn

LEMMA PlansRest ==
  ASSUME PlansOK, UNCHANGED <<plans, subs>>
  PROVE  PlansOK'
  BY DEF PlansOK

\* A request answered by one statement that counts no stream.
LEMMA ServedKeeps ==
  ASSUME QuotasInv, NEW op, Served(op), PlansOK',
         UNCHANGED <<logged, streamed, unlogged, allowance>>
  PROVE  QuotasInv'
<1>1. requests \in 0..MaxRequests /\ MaxRequests \in Nat
  BY ServingAssumption DEF QuotasInv, CountsOK
<1>2. requests' = requests + 1 /\ requests' <= MaxRequests /\ UNCHANGED work
  BY <1>1 DEF Served, Arrive
<1>3. AskingOK' /\ \A u \in Callers : InFlight(u)' = InFlight(u) /\ LetIn(u)' = LetIn(u)
  BY <1>2, WorkRests DEF QuotasInv
<1> QED
  BY <1>2, <1>3, UsageKeeps

\* A step of a request that is, or becomes, no stream.
LEMMA TaskKeeps ==
  ASSUME QuotasInv, NEW w \in Workers, NEW task, work' = [work EXCEPT ![w] = task],
         task.pc \notin StreamPcs,
         task.pc \in {"free", "count", "preamble"} => task \in Asking,
         requests' \in {requests, requests + 1}, requests' <= MaxRequests,
         UNCHANGED <<plans, subs, logged, streamed, unlogged, allowance>>
  PROVE  QuotasInv'
<1>0. work'[w] = task /\ Moves(w)
  BY DEF QuotasInv, AskingOK, Moves
<1>1. AskingOK' /\ \A u \in Callers : InFlight(u)' \subseteq InFlight(u) /\ LetIn(u)' \subseteq LetIn(u)
  BY <1>0, MovesOne DEF QuotasInv, StreamPcs
<1>2. PlansOK'
  BY PlansRest DEF QuotasInv
<1> QED
  BY <1>1, <1>2, UsageKeeps

LEMMA WorkersCounted ==
  ASSUME AskingOK, NEW w \in Workers, Moves(w), NEW u \in Callers
  PROVE  /\ {AskedBy(u), Lets(u), AskedBy(u)', Lets(u)'} \subseteq Nat
         /\ (w \in InFlight(u) <=> w \in InFlight(u)') => AskedBy(u)' = AskedBy(u)
         /\ w \in InFlight(u) /\ w \notin InFlight(u)' => AskedBy(u)' = AskedBy(u) - 1
         /\ w \in InFlight(u)' /\ w \notin InFlight(u) => AskedBy(u)' = AskedBy(u) + 1
         /\ (w \in LetIn(u) <=> w \in LetIn(u)') => Lets(u)' = Lets(u)
         /\ w \in LetIn(u) /\ w \notin LetIn(u)' => Lets(u)' = Lets(u) - 1
<1>1. /\ InFlight(u) \in SUBSET Workers /\ LetIn(u) \in SUBSET Workers
      /\ InFlight(u)' \in SUBSET Workers /\ LetIn(u)' \in SUBSET Workers
      /\ InFlight(u)' \ {w} = InFlight(u) \ {w} /\ LetIn(u)' \ {w} = LetIn(u) \ {w}
  BY DEF InFlight, LetIn, Moves
<1>2. PICK S \in SUBSET Workers, T \in SUBSET Workers : S = InFlight(u) /\ T = InFlight(u)'
  BY <1>1, Zenon
<1>3. PICK X \in SUBSET Workers, Y \in SUBSET Workers : X = LetIn(u) /\ Y = LetIn(u)'
  BY <1>1, Zenon
<1>4. /\ AskedBy(u) = Cardinality(S) /\ AskedBy(u)' = Cardinality(T)
      /\ Lets(u) = Cardinality(X) /\ Lets(u)' = Cardinality(Y)
  BY <1>2, <1>3, Zenon DEF AskedBy, Lets
<1>5. T \ {w} = S \ {w} /\ Y \ {w} = X \ {w}
  BY <1>1, <1>2, <1>3, Zenon
<1>6. /\ AskedBy(u) \in Nat /\ AskedBy(u)' \in Nat
      /\ (w \in S <=> w \in T) => AskedBy(u)' = AskedBy(u)
      /\ w \in S /\ w \notin T => AskedBy(u)' = AskedBy(u) - 1
      /\ w \in T /\ w \notin S => AskedBy(u)' = AskedBy(u) + 1
  BY <1>4, <1>5, OneMoreOrLess
<1>7. /\ Lets(u) \in Nat /\ Lets(u)' \in Nat
      /\ (w \in X <=> w \in Y) => Lets(u)' = Lets(u)
      /\ w \in X /\ w \notin Y => Lets(u)' = Lets(u) - 1
  BY <1>4, <1>5, OneMoreOrLess
<1> QED
  BY <1>2, <1>3, <1>6, <1>7

LEMMA CountsAreNat ==
  ASSUME NEW u \in Callers
  PROVE  /\ AskedBy(u) \in Nat /\ Lets(u) \in Nat /\ Lets(u) <= Cardinality(Workers)
         /\ InFlight(u) # {} => AskedBy(u) >= 1
<1>1. InFlight(u) \in SUBSET Workers /\ LetIn(u) \in SUBSET Workers
  BY DEF InFlight, LetIn
<1>2. /\ IsFiniteSet(InFlight(u)) /\ Cardinality(InFlight(u)) \in Nat /\ Cardinality(LetIn(u)) \in Nat
      /\ Cardinality(LetIn(u)) <= Cardinality(Workers)
  BY <1>1, WorkersAreFinite
<1>3. InFlight(u) # {} => Cardinality(InFlight(u)) # 0
  BY <1>2, FS_EmptySet, Zenon
<1> QED
  BY <1>2, <1>3 DEF AskedBy, Lets

-----------------------------------------------------------------------------
(* The stream.                                                             *)

LEMMA CheckRateKeeps ==
  ASSUME QuotasInv, NEW w \in Workers, NEW u \in Callers, CheckRate(w, u)
  PROVE  QuotasInv'
<1>1. CASE Served("stream")
  BY <1>1, PlansRest, ServedKeeps DEF CheckRate, QuotasInv
<1>2. CASE Begin(w, "stream", StreamTask(u))
  <2>1. /\ work' = [work EXCEPT ![w] = StreamTask(u)] /\ requests' = requests + 1
        /\ requests \in 0..MaxRequests /\ MaxRequests \in Nat /\ requests < MaxRequests
        /\ UNCHANGED <<plans, subs, logged, streamed, unlogged, allowance>>
    BY <1>2, ServingAssumption DEF CheckRate, Begin, Arrive, QuotasInv, CountsOK
  <2>2. /\ StreamTask(u) \in Asking /\ StreamTask(u).pc = "find" /\ StreamTask(u).u = u
    BY DEF StreamTask, Asking, StreamPcs
  <2>3. /\ AskingOK'
        /\ \A v \in Callers :
             /\ InFlight(v)' = IF v = u THEN InFlight(v) \cup {w} ELSE InFlight(v) \ {w}
             /\ LetIn(v)' = LetIn(v) \ {w}
    <3>1. work'[w] = StreamTask(u) /\ Moves(w)
      BY <2>1, <2>2 DEF QuotasInv, AskingOK, Moves
    <3> QED
      BY <2>2, <3>1, MovesOne DEF QuotasInv, StreamPcs
  <2>4. CountsOK' /\ PlansOK'
    BY <2>1, PlansRest DEF QuotasInv, CountsOK
  <2>5. \A v \in Callers : {logged[v], streamed[v], allowance[v]} \subseteq Nat
    BY DEF QuotasInv, CountsOK
  <2>6. work'[w] = StreamTask(u) /\ Moves(w)
    BY <2>1, <2>2 DEF QuotasInv, AskingOK, Moves
  <2>7. ASSUME NEW v \in Callers
        PROVE  streamed'[v] + AskedBy(v)' <= requests' /\ logged'[v] + Lets(v)' + 1 <= allowance'[v] + Cardinality(Workers)
    <3>1. /\ {AskedBy(v), Lets(v), AskedBy(v)', Lets(v)'} \subseteq Nat
          /\ AskedBy(v)' <= AskedBy(v) + 1 /\ Lets(v)' <= Lets(v)
      BY <2>3, <2>6, WorkersCounted DEF QuotasInv
    <3> QED
      BY <2>1, <2>5, <3>1, WorkersAreFinite DEF QuotasInv, Requested, RoomLeft
  <2> QED
    BY <2>3, <2>4, <2>7 DEF QuotasInv, Requested, RoomLeft
<1> QED
  BY <1>1, <1>2 DEF CheckRate

LEMMA FindKeeps ==
  ASSUME QuotasInv, NEW w \in Workers, FindUserWithPlan(w)
  PROVE  QuotasInv'
<1> DEFINE task == [work[w] EXCEPT !.pc = "used", !.limit = PlanLimit(work[w].u)]
<1>1. /\ work' = [work EXCEPT ![w] = task] /\ work[w] \in Asking /\ work[w].pc = "find"
      /\ requests' = requests /\ requests <= MaxRequests
      /\ UNCHANGED <<plans, subs, logged, streamed, unlogged, allowance>>
  BY ServingAssumption
     DEF FindUserWithPlan, At, Goto, quotasVars, quotaVars, QuotasInv, AskingOK, CountsOK, StreamPcs
<1>2. PlanLimit(work[w].u) \in Int
  BY <1>1 DEF PlanLimit, QuotasInv, PlansOK, PlanRow, Asking
<1>3. task \in Asking /\ task.pc = "used" /\ task.u = work[w].u
  BY <1>1, <1>2 DEF Asking, StreamPcs
<1> HIDE DEF task
<1>4. w \in InFlight(work[w].u)
  BY <1>1 DEF InFlight, StreamPcs
<1>5. work'[w] = task /\ Moves(w)
  BY <1>1, <1>3 DEF QuotasInv, AskingOK, Moves
<1>6. AskingOK' /\ \A u \in Callers : InFlight(u)' \subseteq InFlight(u) /\ LetIn(u)' \subseteq LetIn(u)
  BY <1>3, <1>4, <1>5, MovesOne DEF QuotasInv, StreamPcs
<1> QED
  BY <1>1, <1>6, UsageKeeps, PlansRest DEF QuotasInv

LEMMA AllowedFits ==
  ASSUME QuotasInv, NEW w \in Workers, work[w].pc \in StreamPcs, NEW u \in Callers, work[w].u = u
  PROVE  /\ work[w].limit \in Int
         /\ Allowed(work[w].limit) \in Nat \ {0}
         /\ WithinQuota(logged[u], work[w].limit) => logged[u] + 1 <= Allowed(work[w].limit)
<1>1. w \in InFlight(u) /\ work[w].limit \in Int
  BY DEF InFlight, QuotasInv, AskingOK, Asking
<1>2. AskedBy(u) \in Nat /\ AskedBy(u) >= 1
  BY <1>1, CountsAreNat
<1>3. /\ {logged[u], streamed[u], unlogged[u]} \subseteq Nat
      /\ streamed[u] = logged[u] + unlogged[u] /\ streamed[u] + AskedBy(u) <= requests
      /\ requests \in 0..MaxRequests /\ MaxRequests \in Nat
  BY ServingAssumption DEF QuotasInv, CountsOK, Requested
<1> QED
  BY <1>1, <1>2, <1>3 DEF Allowed, WithinQuota

\* Whoever is let in is below the limit of the row read, or of an unlimited
\* plan; what the limit then leaves room for is the workers' number at most.
LEMMA CheckQuotaKeeps ==
  ASSUME QuotasInv, NEW w \in Workers, CheckQuota(w)
  PROVE  QuotasInv'
<1> DEFINE u == work[w].u
<1>1. /\ work[w] \in Asking /\ work[w].pc = "used" /\ u \in Callers
      /\ requests' = requests /\ requests <= MaxRequests
      /\ UNCHANGED <<plans, subs, logged, streamed, unlogged>>
  BY ServingAssumption DEF CheckQuota, At, QuotasInv, AskingOK, CountsOK, StreamPcs, Asking
<1>2. CASE Finish(w) /\ UNCHANGED allowance
  BY <1>1, <1>2, TaskKeeps DEF Finish, Goto, Idle, StreamPcs
<1>3. CASE /\ WithinQuota(logged[u], work[w].limit)
           /\ Goto(w, [work[w] EXCEPT !.pc = "stream"])
           /\ allowance' = [allowance EXCEPT ![u] = Max({@, Allowed(work[w].limit)})]
  <2>1. /\ work'[w] = [work[w] EXCEPT !.pc = "stream"] /\ work'[w] \in Asking /\ Moves(w)
        /\ work'[w].pc = "stream" /\ work'[w].u = u
    BY <1>1, <1>3 DEF Goto, QuotasInv, AskingOK, Moves, Asking, StreamPcs
  <2>2. AskingOK' /\ \A v \in Callers : InFlight(v)' = IF v = u THEN InFlight(v) \cup {w} ELSE InFlight(v) \ {w}
    BY <2>1, MovesOne DEF QuotasInv, StreamPcs
  <2>3. \A v \in Callers \ {u} : LetIn(v)' = LetIn(v) \ {w}
    BY <2>1, MovesOne DEF QuotasInv
  <2>4. w \in InFlight(u) /\ \A v \in Callers \ {u} : w \notin InFlight(v)
    BY <1>1 DEF InFlight, StreamPcs
  <2>5. /\ Allowed(work[w].limit) \in Nat /\ logged[u] + 1 <= Allowed(work[w].limit)
    BY <1>1, <1>3, AllowedFits DEF StreamPcs
  <2>6. {allowance, logged, streamed} \subseteq [Callers -> Nat]
    BY DEF QuotasInv, CountsOK
  <2>7. /\ Max({allowance[u], Allowed(work[w].limit)}) \in Nat
        /\ Max({allowance[u], Allowed(work[w].limit)}) >= Allowed(work[w].limit)
    <3> DEFINE S == {allowance[u], Allowed(work[w].limit)}
    <3>1. S \in SUBSET Nat /\ S # {} /\ Allowed(work[w].limit) \in S
      BY <1>1, <2>5, <2>6
    <3>2. IsFiniteSet(S)
      <4>1. S = {allowance[u]} \cup {Allowed(work[w].limit)}
        OBVIOUS
      <4>2. IsFiniteSet({allowance[u]})
        BY FS_Singleton
      <4> QED
        BY <4>1, <4>2, FS_AddElement, Zenon
    <3> HIDE DEF S
    <3>3. Max(S) \in Nat /\ Max(S) >= Allowed(work[w].limit)
      BY <3>1, <3>2, MaxIsLargest
    <3> QED
      BY <3>3 DEF S
  <2>8. /\ allowance' \in [Callers -> Nat] /\ allowance'[u] >= Allowed(work[w].limit)
        /\ \A v \in Callers \ {u} : allowance'[v] = allowance[v]
    BY <1>1, <1>3, <2>6, <2>7
  <2>9. CountsOK'
    BY <1>1, <2>8 DEF QuotasInv, CountsOK
  <2>10. Requested'
    <3>1. ASSUME NEW v \in Callers PROVE AskedBy(v)' = AskedBy(v)
      BY <2>1, <2>2, <2>4, WorkersCounted DEF QuotasInv
    <3> QED
      BY <1>1, <3>1 DEF QuotasInv, Requested
  <2>11. RoomLeft'
    <3>1. ASSUME NEW v \in Callers \ {u}
          PROVE  logged'[v] + Lets(v)' + 1 <= allowance'[v] + Cardinality(Workers)
      <4>1. {Lets(v), Lets(v)'} \subseteq Nat /\ Lets(v)' <= Lets(v)
        BY <2>1, <2>3, WorkersCounted DEF QuotasInv
      <4> QED
        BY <1>1, <2>6, <2>8, <4>1, WorkersAreFinite DEF QuotasInv, RoomLeft
    <3>2. ASSUME NEW v \in Callers
          PROVE  Lets(v)' \in Nat /\ Lets(v)' <= Cardinality(Workers)
      <4>1. LetIn(v)' \in SUBSET Workers
        BY DEF LetIn
      <4> QED
        BY <4>1, WorkersAreFinite DEF Lets
    <3>3. ASSUME NEW v \in Callers, v = u
          PROVE  logged'[v] + Lets(v)' + 1 <= allowance'[v] + Cardinality(Workers)
      <4>1. /\ logged'[v] + 1 <= allowance'[v]
            /\ logged'[v] \in Nat /\ allowance'[v] \in Nat
        BY <1>1, <2>5, <2>6, <2>8, <3>3
      <4> HIDE DEF u
      <4> QED
        BY <3>2, <4>1, WorkersAreFinite
    <3> QED
      BY <3>1, <3>3 DEF RoomLeft
  <2> QED
    BY <1>1, <2>2, <2>9, <2>10, <2>11, PlansRest DEF QuotasInv
<1> QED
  BY <1>2, <1>3 DEF CheckQuota

LEMMA FinishStreamKeeps ==
  ASSUME QuotasInv, NEW w \in Workers, FinishStream(w)
  PROVE  QuotasInv'
<1> DEFINE u == work[w].u
<1>1. /\ work[w] \in Asking /\ work[w].pc = "stream" /\ u \in Callers
      /\ requests' = requests /\ requests <= MaxRequests
      /\ Finish(w) /\ UNCHANGED <<plans, subs, allowance>>
  BY ServingAssumption DEF FinishStream, At, QuotasInv, AskingOK, CountsOK, StreamPcs, Asking
<1>2. CASE UNCHANGED <<logged, streamed, unlogged>>
  BY <1>1, <1>2, TaskKeeps DEF Finish, Goto, Idle, StreamPcs
<1>3. CASE /\ streamed' = [streamed EXCEPT ![u] = @ + 1]
           /\ \/ logged' = [logged EXCEPT ![u] = @ + 1] /\ UNCHANGED unlogged
              \/ unlogged' = [unlogged EXCEPT ![u] = @ + 1] /\ UNCHANGED logged
  <2>1. work'[w] = Idle /\ Moves(w) /\ Idle.pc \notin StreamPcs /\ Idle.pc # "stream"
    BY <1>1 DEF Finish, Goto, QuotasInv, AskingOK, Moves, Idle, StreamPcs
  <2>2. AskingOK' /\ \A v \in Callers : InFlight(v)' = InFlight(v) \ {w} /\ LetIn(v)' = LetIn(v) \ {w}
    BY <2>1, MovesOne DEF QuotasInv
  <2>3. w \in InFlight(u) /\ w \in LetIn(u)
    BY <1>1 DEF InFlight, LetIn, StreamPcs
  <2>4. ASSUME NEW v \in Callers
        PROVE  /\ {AskedBy(v), Lets(v), AskedBy(v)', Lets(v)'} \subseteq Nat
               /\ AskedBy(v)' <= IF v = u THEN AskedBy(v) - 1 ELSE AskedBy(v)
               /\ Lets(v)' <= IF v = u THEN Lets(v) - 1 ELSE Lets(v)
    BY <2>1, <2>2, <2>3, WorkersCounted DEF QuotasInv
  <2>5. /\ {logged, streamed, unlogged, allowance} \subseteq [Callers -> Nat]
        /\ \A v \in Callers : streamed[v] = logged[v] + unlogged[v]
    BY DEF QuotasInv, CountsOK
  <2>6. /\ {logged', streamed', unlogged', allowance'} \subseteq [Callers -> Nat]
        /\ \A v \in Callers : streamed'[v] = logged'[v] + unlogged'[v]
        /\ \A v \in Callers : /\ logged'[v] <= IF v = u THEN logged[v] + 1 ELSE logged[v]
                            /\ streamed'[v] = IF v = u THEN streamed[v] + 1 ELSE streamed[v]
    BY <1>1, <1>3, <2>5
  <2>7. CountsOK'
    BY <1>1, <2>6 DEF QuotasInv, CountsOK
  <2>8. ASSUME NEW v \in Callers
        PROVE  streamed'[v] + AskedBy(v)' <= requests' /\ logged'[v] + Lets(v)' + 1 <= allowance'[v] + Cardinality(Workers)
    <3>1. /\ {logged[v], logged'[v], streamed[v], allowance[v], requests} \subseteq Nat /\ allowance' = allowance
      BY <1>1, <2>5, <2>6, ServingAssumption DEF QuotasInv, CountsOK
    <3>2. streamed[v] + AskedBy(v) <= requests /\ logged[v] + Lets(v) + 1 <= allowance[v] + Cardinality(Workers)
      BY DEF QuotasInv, Requested, RoomLeft
    <3> QED
      BY <1>1, <2>4, <2>6, <3>1, <3>2, WorkersAreFinite
  <2> QED
    BY <1>1, <2>2, <2>7, <2>8, PlansRest DEF QuotasInv, Requested, RoomLeft
<1> QED
  BY <1>2, <1>3 DEF FinishStream

\* Only the streams let in before midnight count for the new day.
LEMMA MidnightKeeps ==
  ASSUME QuotasInv, Midnight
  PROVE  QuotasInv'
<1>1. /\ requests \in 0..MaxRequests /\ MaxRequests \in Nat
      /\ requests' = requests + 1 /\ requests' <= MaxRequests
      /\ UNCHANGED <<work, plans, subs>>
  BY ServingAssumption DEF Midnight, Served, Arrive, QuotasInv, CountsOK
<1>2. AskingOK' /\ \A u \in Callers : InFlight(u)' = InFlight(u) /\ LetIn(u)' = LetIn(u)
  BY <1>1, WorkRests DEF QuotasInv
<1>3. ASSUME NEW u \in Callers
      PROVE  AskedBy(u)' = AskedBy(u) /\ Lets(u)' = Lets(u)
  BY <1>2, Zenon DEF AskedBy, Lets
<1>4. ASSUME NEW u \in Callers
      PROVE  /\ Max({Allowed(l) : l \in Streaming(u)} \cup {0}) \in Nat
             /\ LetIn(u) # {} => Max({Allowed(l) : l \in Streaming(u)} \cup {0}) >= 1
  <2> DEFINE S == {Allowed(l) : l \in Streaming(u)} \cup {0}
             T == {Allowed(l) : l \in Streaming(u)}
             f == [w \in LetIn(u) |-> Allowed(work[w].limit)]
  <2>1. \A w \in LetIn(u) : Allowed(work[w].limit) \in Nat \ {0}
    BY AllowedFits DEF LetIn, StreamPcs
  <2>2. T = {f[w] : w \in LetIn(u)}
    BY DEF Streaming, LetIn
  <2>3. IsFiniteSet(LetIn(u))
    <3>1. LetIn(u) \in SUBSET Workers
      BY DEF LetIn
    <3> QED
      BY <3>1, WorkersAreFinite
  <2>4. f \in Surjection(LetIn(u), T)
    BY <2>2 DEF Surjection
  <2>5. IsFiniteSet(T)
    <3> HIDE DEF T, f
    <3> QED
      BY <2>3, <2>4, FS_Surjection
  <2>6. IsFiniteSet(S)
    <3>1. S = T \cup {0}
      OBVIOUS
    <3> HIDE DEF S, T
    <3> QED
      BY <2>5, <3>1, FS_AddElement, Zenon
  <2>7. S \in SUBSET Nat /\ S # {} /\ (LetIn(u) # {} => \E n \in S : n >= 1)
    BY <2>1, <2>2
  <2> HIDE DEF S, T
  <2>8. Max(S) \in S /\ \A n \in S : Max(S) >= n
    BY <2>6, <2>7, MaxIsLargest
  <2>9. Max(S) \in Nat
    BY <2>7, <2>8
  <2>10. ASSUME LetIn(u) # {} PROVE Max(S) >= 1
    <3>1. PICK n \in S : n >= 1
      BY <2>7, <2>10
    <3>2. n \in Nat /\ Max(S) >= n
      BY <2>7, <2>8
    <3> QED
      BY <2>9, <3>1, <3>2
  <2> QED
    BY <2>9, <2>10 DEF S
<1> DEFINE top(u) == Max({Allowed(l) : l \in Streaming(u)} \cup {0})
<1>5. /\ logged' = [u \in Callers |-> 0] /\ streamed' = [u \in Callers |-> 0]
      /\ unlogged' = [u \in Callers |-> 0] /\ allowance' = [u \in Callers |-> top(u)]
  BY DEF Midnight
<1>6. \A u \in Callers : top(u) \in Nat /\ (LetIn(u) # {} => top(u) >= 1)
  BY <1>4
<1> HIDE DEF top
<1>7. /\ allowance' \in [Callers -> Nat]
      /\ \A u \in Callers : logged'[u] = 0 /\ streamed'[u] = 0 /\ (LetIn(u) # {} => allowance'[u] >= 1)
  BY <1>5, <1>6
<1>8. CountsOK'
  BY <1>1, <1>5, <1>7 DEF CountsOK
<1>9. ASSUME NEW u \in Callers
      PROVE  streamed'[u] + AskedBy(u)' <= requests' /\ logged'[u] + Lets(u)' + 1 <= allowance'[u] + Cardinality(Workers)
  <2>1. LetIn(u) = {} => Lets(u) = 0
    BY FS_EmptySet DEF Lets
  <2>2. streamed[u] \in Nat /\ allowance'[u] \in Nat /\ streamed[u] + AskedBy(u) <= requests
    BY <1>7 DEF QuotasInv, CountsOK, Requested
  <2> QED
    BY <1>1, <1>3, <1>7, <2>1, <2>2, CountsAreNat, WorkersAreFinite
<1> QED
  BY <1>1, <1>2, <1>8, <1>9, PlansRest DEF QuotasInv, Requested, RoomLeft

-----------------------------------------------------------------------------
(* POST /rewrite, the trials, and what moves the plans.                    *)

LEMMA RewriteKeeps ==
  ASSUME QuotasInv, NEW w \in Workers, NEW u \in Callers, NEW valid \in BOOLEAN, Rewrite(w, u, valid)
  PROVE  QuotasInv'
<1> DEFINE paid == subs[u] # NoRow /\ plans[subs[u].plan].period # "none"
           task == [pc |-> IF paid THEN "count" ELSE "free", u |-> u,
                    limit |-> IF paid THEN plans[subs[u].plan].limit ELSE 0]
<1>1. UNCHANGED <<plans, subs, logged, streamed, unlogged, allowance>>
  BY DEF Rewrite, quotasVars, quotaVars
<1>2. CASE Served("rewrite")
  BY <1>1, <1>2, ServedKeeps, PlansRest DEF QuotasInv
<1>3. CASE Begin(w, "rewrite", task)
  <2>1. /\ work' = [work EXCEPT ![w] = task] /\ requests' = requests + 1 /\ requests' <= MaxRequests
    BY <1>3, ServingAssumption DEF Begin, Arrive, QuotasInv, CountsOK
  <2>2. task \in Asking /\ task.pc \notin StreamPcs
    BY DEF Asking, StreamPcs, QuotasInv, PlansOK, PlanRow
  <2> HIDE DEF task
  <2> QED
    BY <1>1, <2>1, <2>2, TaskKeeps
<1> QED
  BY <1>2, <1>3 DEF Rewrite

\* A step of request w from pc on to task.
LEMMA GoesOn ==
  ASSUME QuotasInv, NEW w \in Workers, NEW task, Goto(w, task), UNCHANGED <<ops, requests, aborts>>,
         UNCHANGED <<plans, subs, logged, streamed, unlogged, allowance>>,
         task.pc \notin StreamPcs,
         task.pc \in {"free", "count", "preamble"} => task \in Asking
  PROVE  QuotasInv'
<1>1. work' = [work EXCEPT ![w] = task] /\ requests' = requests /\ requests <= MaxRequests
  BY ServingAssumption DEF Goto, QuotasInv, CountsOK
<1> QED
  BY <1>1, TaskKeeps

LEMMA FreePlanKeeps ==
  ASSUME QuotasInv, NEW w \in Workers, FreePlanDailyLimit(w)
  PROVE  QuotasInv'
<1> DEFINE limits == IF FreePlans = {} THEN {FreeDailyLimit} ELSE {plans[p].limit : p \in FreePlans}
<1>1. limits \subseteq Int
  BY DEF FreePlans, Existing, FreeDailyLimit, QuotasInv, PlansOK, PlanRow
<1>2. PICK l \in limits : Goto(w, [work[w] EXCEPT !.pc = "count", !.limit = l])
  BY DEF FreePlanDailyLimit
<1> DEFINE task == [work[w] EXCEPT !.pc = "count", !.limit = l]
<1>3. task \in Asking /\ task.pc = "count"
  BY <1>1, <1>2 DEF FreePlanDailyLimit, At, Asking, StreamPcs, QuotasInv, AskingOK
<1> HIDE DEF task
<1> QED
  BY <1>2, <1>3, GoesOn DEF FreePlanDailyLimit, At, quotasVars, quotaVars, StreamPcs, task

LEMMA CountTodayKeeps ==
  ASSUME QuotasInv, NEW w \in Workers, CountToday(w)
  PROVE  QuotasInv'
<1> DEFINE task == [work[w] EXCEPT !.pc = "preamble"]
<1>1. task \in Asking /\ task.pc = "preamble"
  BY DEF CountToday, At, Asking, StreamPcs, QuotasInv, AskingOK
<1>2. /\ UNCHANGED <<ops, requests, aborts>>
      /\ UNCHANGED <<plans, subs, logged, streamed, unlogged, allowance>>
  BY DEF CountToday, At, quotasVars, quotaVars
<1>3. CASE Finish(w)
  BY <1>2, <1>3, GoesOn DEF Finish, Idle, StreamPcs
<1>4. CASE Goto(w, task)
  <2> HIDE DEF task
  <2> QED
    BY <1>1, <1>2, <1>4, GoesOn DEF StreamPcs
<1> QED
  BY <1>3, <1>4 DEF CountToday

\* A request that ends, or does what is no stream, and counts nothing.
LEMMA EndKeeps ==
  ASSUME QuotasInv, NEW w \in Workers,
         \/ Preamble(w) \/ CallAI(w) \/ UpsertUserContext(w) \/ QuotasAbort(w)
  PROVE  QuotasInv'
<1>1. UNCHANGED <<plans, subs, logged, streamed, unlogged, allowance>>
  BY DEF Preamble, CallAI, UpsertUserContext, QuotasAbort, quotasVars, quotaVars
<1>2. requests' = requests /\ requests <= MaxRequests
  BY ServingAssumption
     DEF Preamble, CallAI, UpsertUserContext, QuotasAbort, At, Abort, QuotasInv, CountsOK
<1>3. CASE Finish(w)
  <2>1. work' = [work EXCEPT ![w] = Idle] /\ Idle.pc = "idle"
    BY <1>3 DEF Finish, Goto, Idle
  <2> HIDE DEF Idle
  <2> QED
    BY <1>1, <1>2, <2>1, TaskKeeps DEF StreamPcs
<1>4. CASE Preamble(w)
  <2>1. PICK told \in {FALSE, profiles[work[w].u] # NoRow /\ profiles[work[w].u].enabled} :
          Goto(w, [pc |-> "ai", personal |-> told])
    BY <1>4 DEF Preamble
  <2> DEFINE task == [pc |-> "ai", personal |-> told]
  <2>2. work' = [work EXCEPT ![w] = task] /\ task.pc = "ai"
    BY <2>1 DEF Goto
  <2> HIDE DEF task
  <2> QED
    BY <1>1, <1>2, <2>2, TaskKeeps DEF StreamPcs
<1> QED
  BY <1>3, <1>4 DEF CallAI, UpsertUserContext, QuotasAbort, Abort

\* A request that is taken up and is no stream.
LEMMA BeginKeeps ==
  ASSUME QuotasInv, NEW w \in Workers, NEW op, NEW task, Begin(w, op, task),
         task.pc \in {"ai", "profile"},
         UNCHANGED <<plans, subs, logged, streamed, unlogged, allowance>>
  PROVE  QuotasInv'
<1>1. work' = [work EXCEPT ![w] = task] /\ requests' = requests + 1 /\ requests' <= MaxRequests
  BY ServingAssumption DEF Begin, Arrive, QuotasInv, CountsOK
<1> QED
  BY <1>1, TaskKeeps DEF StreamPcs

LEMMA TrialKeeps ==
  ASSUME QuotasInv, NEW w \in Workers, NEW ip \in Addresses, TrialRewrite(w, ip)
  PROVE  QuotasInv'
<1> DEFINE task == [pc |-> "ai", personal |-> FALSE]
<1>1. UNCHANGED <<plans, subs, logged, streamed, unlogged, allowance>>
  BY DEF TrialRewrite, quotaVars
<1>2. CASE Served("trial")
  BY <1>1, <1>2, ServedKeeps, PlansRest DEF QuotasInv
<1>3. CASE Begin(w, "trial", task)
  <2>1. task.pc = "ai"
    OBVIOUS
  <2> HIDE DEF task
  <2> QED
    BY <1>1, <1>3, <2>1, BeginKeeps
<1> QED
  BY <1>2, <1>3 DEF TrialRewrite

LEMMA PutProfileKeeps ==
  ASSUME QuotasInv, NEW w \in Workers, NEW u \in Callers, NEW b \in ProfileBodies, PutProfile(w, u, b)
  PROVE  QuotasInv'
<1> DEFINE task == [pc |-> "profile", u |-> u, row |-> MergedProfile(profiles[u], b), named |-> DOMAIN b]
<1>1. UNCHANGED <<plans, subs, logged, streamed, unlogged, allowance>>
  BY DEF PutProfile, quotasVars, quotaVars
<1>2. CASE Served("profile")
  BY <1>1, <1>2, ServedKeeps, PlansRest DEF QuotasInv
<1>3. CASE Begin(w, "profile", task)
  <2>1. task.pc = "profile"
    OBVIOUS
  <2> HIDE DEF task
  <2> QED
    BY <1>1, <1>3, <2>1, BeginKeeps
<1> QED
  BY <1>2, <1>3 DEF PutProfile

LEMMA QuickKeeps ==
  ASSUME QuotasInv,
         \/ NextMinute \/ MidnightUTC
         \/ \E u \in Callers : DeleteProfile(u)
         \/ \E i \in 1..MaxSamples, q \in {"approved", "any"} : Review(i, q)
  PROVE  QuotasInv'
<1>1. UNCHANGED <<plans, subs, logged, streamed, unlogged, allowance>>
  BY DEF NextMinute, MidnightUTC, DeleteProfile, Review, quotaVars
<1>2. Served("minute") \/ Served("trial") \/ Served("profile") \/ Served("review")
  BY DEF NextMinute, MidnightUTC, DeleteProfile, Review
<1> QED
  BY <1>1, <1>2, ServedKeeps, PlansRest DEF QuotasInv

LEMMA PlanWritten ==
  ASSUME PlansOK, UNCHANGED subs,
         plans' \in [PlanIds -> PlanRow \cup {NoRow}],
         \A p \in PlanIds : plans[p] \in PlanRow => plans'[p] \in PlanRow
  PROVE  PlansOK'
<1>1. subs' = [u \in Callers |-> subs'[u]]
  BY DEF PlansOK
<1>2. ASSUME NEW u \in Callers, subs'[u] # NoRow
      PROVE  subs'[u].plan \in PlanIds /\ plans'[subs'[u].plan] \in PlanRow
  <2>1. subs[u] # NoRow /\ subs'[u] = subs[u]
    BY <1>2
  <2>2. subs[u].plan \in PlanIds /\ plans[subs[u].plan] \in PlanRow
    BY <2>1 DEF PlansOK
  <2> QED
    BY <2>1, <2>2
<1> QED
  BY <1>1, <1>2, Zenon DEF PlansOK

\* No plan is ever removed, so every row has the plan it names.
LEMMA PlansKeep ==
  ASSUME QuotasInv,
         \/ \E b \in PlanBodies : CreatePlan(b) \/ \E p \in PlanIds : UpdatePlan(p, b)
         \/ \E p \in PlanIds : SoftDeletePlan(p)
         \/ \E u \in Callers : SubscriptionMoves(u)
  PROVE  QuotasInv'
<1>1. /\ UNCHANGED <<logged, streamed, unlogged, allowance>>
      /\ Served("plans") \/ Served("subscription")
  BY DEF CreatePlan, UpdatePlan, SoftDeletePlan, SubscriptionMoves
<1>2. PlansOK
  BY DEF QuotasInv
<1>3. plans \in [PlanIds -> PlanRow \cup {NoRow}]
  BY <1>2 DEF PlansOK
<1>4. ASSUME \E b \in PlanBodies : CreatePlan(b) PROVE PlansOK'
  <2>1. PICK b \in PlanBodies, p \in PlanIds :
          plans' = [plans EXCEPT ![p] = [b EXCEPT !.active = TRUE]] /\ UNCHANGED subs
    BY <1>4 DEF CreatePlan
  <2>2. [b EXCEPT !.active = TRUE] \in PlanRow
    BY QuotasAssumption DEF PlanRow
  <2>3. UNCHANGED subs /\ plans' \in [PlanIds -> PlanRow \cup {NoRow}]
    BY <2>1, <2>2, <1>3
  <2>4. \A q \in PlanIds : plans[q] \in PlanRow => plans'[q] \in PlanRow
    BY <2>1, <2>2, <1>3
  <2> QED
    BY <1>2, <2>3, <2>4, PlanWritten
<1>5. ASSUME \E b \in PlanBodies, p \in PlanIds : UpdatePlan(p, b) PROVE PlansOK'
  <2>1. PICK b \in PlanBodies, p \in PlanIds : plans' = [plans EXCEPT ![p] = b] /\ UNCHANGED subs
    BY <1>5 DEF UpdatePlan
  <2>2. b \in PlanRow
    BY QuotasAssumption
  <2>3. UNCHANGED subs /\ plans' \in [PlanIds -> PlanRow \cup {NoRow}]
    BY <2>1, <2>2, <1>3
  <2>4. \A q \in PlanIds : plans[q] \in PlanRow => plans'[q] \in PlanRow
    BY <2>1, <2>2, <1>3
  <2> QED
    BY <1>2, <2>3, <2>4, PlanWritten
<1>6. ASSUME \E p \in PlanIds : SoftDeletePlan(p) PROVE PlansOK'
  <2>1. PICK p \in PlanIds : plans' = [plans EXCEPT ![p].active = FALSE] /\ UNCHANGED subs /\ p \in Existing(plans)
    BY <1>6 DEF SoftDeletePlan
  <2>2. [plans[p] EXCEPT !.active = FALSE] \in PlanRow
    BY <1>2, <2>1 DEF PlansOK, PlanRow, Existing
  <2>3. plans' = [plans EXCEPT ![p] = [plans[p] EXCEPT !.active = FALSE]]
    BY <2>1
  <2>4. UNCHANGED subs /\ plans' \in [PlanIds -> PlanRow \cup {NoRow}]
    BY <2>1, <2>2, <2>3, <1>3
  <2>5. \A q \in PlanIds : plans[q] \in PlanRow => plans'[q] \in PlanRow
    BY <2>2, <2>3, <1>3
  <2> QED
    BY <1>2, <2>4, <2>5, PlanWritten
<1>7. ASSUME \E u \in Callers : SubscriptionMoves(u) PROVE PlansOK'
  <2>1. PICK u \in Callers, row \in {NoRow} \cup [plan : Existing(plans), over : BOOLEAN] :
          subs' = [subs EXCEPT ![u] = row] /\ UNCHANGED plans
    BY <1>7 DEF SubscriptionMoves
  <2>2. /\ plans \in [PlanIds -> PlanRow \cup {NoRow}] /\ subs = [v \in Callers |-> subs[v]]
        /\ \A v \in Callers : subs[v] # NoRow => subs[v].plan \in PlanIds /\ plans[subs[v].plan] \in PlanRow
    BY <1>2 DEF PlansOK
  <2>3. row # NoRow => row.plan \in PlanIds /\ plans[row.plan] \in PlanRow
    <3>1. row # NoRow => row.plan \in Existing(plans)
      BY <2>1
    <3> QED
      BY <2>2, <3>1 DEF Existing
  <2>4. subs' = [v \in Callers |-> IF v = u THEN row ELSE subs[v]]
    BY <2>1, <2>2
  <2>5. ASSUME NEW v \in Callers, subs'[v] # NoRow
        PROVE  subs'[v].plan \in PlanIds /\ plans[subs'[v].plan] \in PlanRow
    <3>1. CASE v = u
      BY <2>3, <2>4, <2>5, <3>1
    <3>2. CASE v # u
      BY <2>2, <2>4, <2>5, <3>2
    <3> QED
      BY <3>1, <3>2
  <2>6. subs' = [v \in Callers |-> subs'[v]] /\ plans' = plans
    BY <2>1, <2>4
  <2>7. \A v \in Callers : subs'[v] # NoRow => subs'[v].plan \in PlanIds /\ plans'[subs'[v].plan] \in PlanRow
    BY <2>5, <2>6
  <2>8. plans' \in [PlanIds -> PlanRow \cup {NoRow}]
    BY <2>2, <2>6
  <2> QED
    BY <2>6, <2>7, <2>8, Zenon DEF PlansOK
<1>8. PlansOK'
  BY <1>4, <1>5, <1>6, <1>7, Zenon
<1> QED
  BY <1>1, <1>8, ServedKeeps

-----------------------------------------------------------------------------
LEMMA QuotasStep == QuotasInv /\ [QuotasNext]_<<servingVars, quotasVars>> => QuotasInv'
<1> SUFFICES ASSUME QuotasInv, [QuotasNext]_<<servingVars, quotasVars>> PROVE QuotasInv'
  OBVIOUS
<1>1. ASSUME NEW w \in Workers, Streams(w) PROVE QuotasInv'
  BY <1>1, CheckRateKeeps, FindKeeps, CheckQuotaKeeps, FinishStreamKeeps DEF Streams
<1>2. ASSUME NEW w \in Workers, Rewrites(w) PROVE QuotasInv'
  BY <1>2, RewriteKeeps, TrialKeeps, FreePlanKeeps, CountTodayKeeps, EndKeeps DEF Rewrites
<1>3. ASSUME NEW w \in Workers,
             \/ QuotasAbort(w) \/ UpsertUserContext(w)
             \/ \E u \in Callers, b \in ProfileBodies : PutProfile(w, u, b)
      PROVE  QuotasInv'
  BY <1>3, EndKeeps, PutProfileKeeps
<1>4. CASE \/ NextMinute \/ MidnightUTC
           \/ \E u \in Callers : DeleteProfile(u)
           \/ \E i \in 1..MaxSamples, q \in {"approved", "any"} : Review(i, q)
  BY <1>4, QuickKeeps
<1>5. CASE \/ \E b \in PlanBodies : CreatePlan(b) \/ \E p \in PlanIds : UpdatePlan(p, b)
           \/ \E p \in PlanIds : SoftDeletePlan(p)
           \/ \E u \in Callers : SubscriptionMoves(u)
  BY <1>5, PlansKeep
<1>6. CASE UNCHANGED <<servingVars, quotasVars>>
  <2>1. /\ UNCHANGED <<plans, subs, logged, streamed, unlogged, allowance, requests, work>>
        /\ requests <= MaxRequests
    BY <1>6, ServingAssumption DEF servingVars, quotasVars, quotaVars, QuotasInv, CountsOK
  <2>2. AskingOK' /\ \A u \in Callers : InFlight(u)' = InFlight(u) /\ LetIn(u)' = LetIn(u)
    BY <2>1, WorkRests DEF QuotasInv
  <2> QED
    BY <2>1, <2>2, UsageKeeps, PlansRest DEF QuotasInv
<1> QED
  BY <1>1, <1>2, <1>3, <1>4, <1>5, <1>6, MidnightKeeps DEF QuotasNext

\* The daily limit bounds what a user's streams may finish in a day (Execute
\* compares the count of usage_logs with the plan's limit before the stream and
\* writes the row after it): the excess is one less than the requests served
\* together, and the streams whose usage row the database refused.
THEOREM QuotaAlwaysBounded == QuotasSpec => []QuotaBounded
<1>1. QuotasInv => QuotaBounded
  <2> SUFFICES ASSUME QuotasInv, NEW u \in Callers
               PROVE  streamed[u] <= allowance[u] + Cardinality(Workers) - 1 + unlogged[u]
    BY DEF QuotaBounded
  <2>1. /\ {streamed[u], logged[u], unlogged[u], allowance[u]} \subseteq Nat
        /\ streamed[u] = logged[u] + unlogged[u]
        /\ logged[u] + Lets(u) + 1 <= allowance[u] + Cardinality(Workers)
    BY DEF QuotasInv, CountsOK, RoomLeft
  <2> QED
    BY <2>1, CountsAreNat, WorkersAreFinite
<1> QED
  BY <1>1, QuotasInitially, QuotasStep, PTL DEF QuotasSpec

-----------------------------------------------------------------------------
(* The other counters, the rows kept for training, and the switch of a     *)
(* profile, which a merge with a row read earlier must not turn back on.   *)

RateOK == rate \in [Callers -> Nat] /\ \A u \in Callers : rate[u] <= requests
SamplesOK == \A i \in Existing(samples) : samples[i] \in {"pending", "approved", "any"}

TrialsOK ==
  /\ {trial, tried, opened} \subseteq [Addresses -> Nat]
  /\ \A ip \in Addresses : tried[ip] <= Min({trial[ip], TrialLimit}) + opened[ip]

\* A profile under way to be written keeps personalisation off, or means to
\* switch it on.
OffOrAsked(task) == "enabled" \in task.named \/ ~task.row.enabled

ProfilesOK ==
  /\ profiles = [u \in Callers |-> profiles[u]] /\ private \subseteq Callers
  /\ \A u \in Callers : profiles[u] # NoRow => "enabled" \in DOMAIN profiles[u]
  /\ \A u \in private : profiles[u] # NoRow => ~profiles[u].enabled
  /\ work = [w \in Workers |-> work[w]]
  /\ \A w \in Workers : work[w].pc = "profile" =>
       /\ work[w].u \in Callers /\ "enabled" \in DOMAIN work[w].row
       /\ work[w].u \in private => OffOrAsked(work[w])

CountersOK == QuotasInv /\ RateOK /\ SamplesOK /\ TrialsOK /\ ProfilesOK

LEMMA MinOfTwo ==
  ASSUME NEW m \in Nat, NEW n \in Nat
  PROVE  Min({m, n}) = IF m <= n THEN m ELSE n
<1> DEFINE least == IF m <= n THEN m ELSE n
<1>1. least \in {m, n} /\ \A y \in {m, n} : least <= y
  OBVIOUS
<1>2. \A x \in {m, n} : (\A y \in {m, n} : x <= y) => x = least
  OBVIOUS
<1> QED
  BY <1>1, <1>2 DEF Min

LEMMA CountersInitially == ServingInit /\ QuotasInit => CountersOK
<1> SUFFICES ASSUME ServingInit, QuotasInit PROVE CountersOK
  OBVIOUS
<1>1. \A w \in Workers : work[w].pc = "idle"
  BY DEF ServingInit, Idle
<1>2. RateOK /\ SamplesOK
  BY DEF QuotasInit, ServingInit, RateOK, SamplesOK, Existing
<1>3. \A n \in {0} : Min({n, TrialLimit}) = 0
  BY QuotasAssumption, MinOfTwo
<1>4. TrialsOK
  BY <1>3 DEF QuotasInit, TrialsOK
<1>5. ProfilesOK
  BY <1>1 DEF QuotasInit, ServingInit, ProfilesOK
<1> QED
  BY <1>2, <1>4, <1>5, QuotasInitially DEF CountersOK

LEMMA RateStep ==
  ASSUME RateOK, QuotasInv, [QuotasNext]_<<servingVars, quotasVars>>
  PROVE  RateOK'
<1>0. requests \in Nat
  BY ServingAssumption DEF QuotasInv, CountsOK
<1>1. ASSUME NEW w \in Workers, NEW u \in Callers, CheckRate(w, u) PROVE RateOK'
  BY <1>0, <1>1 DEF CheckRate, Served, Begin, Arrive, RateOK
<1>2. CASE NextMinute
  BY <1>0, <1>2 DEF NextMinute, Served, Arrive, RateOK
<1>3. CASE UNCHANGED rate /\ requests' \in {requests, requests + 1}
  BY <1>0, <1>3 DEF RateOK
<1>4. ASSUME NEW w \in Workers,
             \/ FindUserWithPlan(w) \/ CheckQuota(w) \/ FinishStream(w)
             \/ FreePlanDailyLimit(w) \/ CountToday(w) \/ Preamble(w) \/ CallAI(w)
             \/ UpsertUserContext(w) \/ QuotasAbort(w)
      PROVE  RateOK'
  BY <1>3, <1>4 DEF FindUserWithPlan, CheckQuota, FinishStream, FreePlanDailyLimit, CountToday, Preamble,
     CallAI, UpsertUserContext, QuotasAbort, Abort, At, quotasVars, quotaVars
<1>5. ASSUME NEW w \in Workers,
             \/ \E u \in Callers, valid \in BOOLEAN : Rewrite(w, u, valid)
             \/ \E ip \in Addresses : TrialRewrite(w, ip)
             \/ \E u \in Callers, b \in ProfileBodies : PutProfile(w, u, b)
      PROVE  RateOK'
  BY <1>3, <1>5 DEF Rewrite, TrialRewrite, PutProfile, Served, Begin, Arrive, quotasVars, quotaVars
<1>6. CASE \/ Midnight \/ MidnightUTC
           \/ \E b \in PlanBodies : CreatePlan(b) \/ \E p \in PlanIds : UpdatePlan(p, b)
           \/ \E p \in PlanIds : SoftDeletePlan(p)
           \/ \E u \in Callers : SubscriptionMoves(u) \/ DeleteProfile(u)
           \/ \E i \in 1..MaxSamples, q \in {"approved", "any"} : Review(i, q)
  BY <1>3, <1>6 DEF Midnight, MidnightUTC, CreatePlan, UpdatePlan, SoftDeletePlan, SubscriptionMoves,
     DeleteProfile, Review, Served, Arrive, quotaVars
<1>7. CASE UNCHANGED <<servingVars, quotasVars>>
  BY <1>3, <1>7 DEF servingVars, quotasVars, quotaVars
<1> QED
  BY <1>1, <1>2, <1>4, <1>5, <1>6, <1>7 DEF QuotasNext, Streams, Rewrites

LEMMA SampledOK ==
  ASSUME SamplesOK, Sampled \/ UNCHANGED samples
  PROVE  SamplesOK'
<1>1. CASE UNCHANGED samples
  BY <1>1 DEF SamplesOK, Existing
<1>2. CASE Sampled
  <2>1. PICK n : UNCHANGED samples \/ samples' = [samples EXCEPT ![n] = "pending"]
    BY <1>2 DEF Sampled
  <2> QED
    BY <1>1, <2>1 DEF SamplesOK, Existing
<1> QED
  BY <1>1, <1>2

LEMMA SamplesStep ==
  ASSUME SamplesOK, [QuotasNext]_<<servingVars, quotasVars>>
  PROVE  SamplesOK'
<1>1. CASE UNCHANGED samples
  BY <1>1, SampledOK
<1>2. ASSUME NEW w \in Workers, FinishStream(w) \/ CallAI(w) PROVE SamplesOK'
  BY <1>2, SampledOK DEF FinishStream, CallAI
<1>3. ASSUME NEW i \in 1..MaxSamples, NEW q \in {"approved", "any"}, Review(i, q) PROVE SamplesOK'
  BY <1>3 DEF Review, SamplesOK, Existing
<1>4. ASSUME NEW w \in Workers,
             \/ FindUserWithPlan(w) \/ CheckQuota(w)
             \/ FreePlanDailyLimit(w) \/ CountToday(w) \/ Preamble(w)
             \/ UpsertUserContext(w) \/ QuotasAbort(w)
             \/ \E u \in Callers : CheckRate(w, u)
             \/ \E u \in Callers, valid \in BOOLEAN : Rewrite(w, u, valid)
             \/ \E ip \in Addresses : TrialRewrite(w, ip)
             \/ \E u \in Callers, b \in ProfileBodies : PutProfile(w, u, b)
      PROVE  SamplesOK'
  BY <1>1, <1>4 DEF CheckRate, FindUserWithPlan, CheckQuota, FreePlanDailyLimit, CountToday, Preamble,
     Rewrite, TrialRewrite, PutProfile, UpsertUserContext, QuotasAbort, quotasVars
<1>5. CASE \/ NextMinute \/ Midnight \/ MidnightUTC
           \/ \E b \in PlanBodies : CreatePlan(b) \/ \E p \in PlanIds : UpdatePlan(p, b)
           \/ \E p \in PlanIds : SoftDeletePlan(p)
           \/ \E u \in Callers : SubscriptionMoves(u) \/ DeleteProfile(u)
  BY <1>1, <1>5 DEF NextMinute, Midnight, MidnightUTC, CreatePlan, UpdatePlan, SoftDeletePlan,
     SubscriptionMoves, DeleteProfile
<1>6. CASE UNCHANGED <<servingVars, quotasVars>>
  BY <1>1, <1>6 DEF quotasVars
<1> QED
  BY <1>1, <1>2, <1>3, <1>4, <1>5, <1>6 DEF QuotasNext, Streams, Rewrites

\* The counter of an address grows with each request, and the trials let in
\* with it until it has reached the limit; what comes after that is let in
\* only where Redis was in error.
LEMMA TrialLetIn ==
  ASSUME TrialsOK, NEW w \in Workers, NEW ip \in Addresses, TrialRewrite(w, ip)
  PROVE  TrialsOK'
<1>1. /\ trial \in [Addresses -> Nat] /\ tried \in [Addresses -> Nat] /\ opened \in [Addresses -> Nat]
      /\ TrialLimit \in Nat
      /\ \A a \in Addresses : tried[a] <= Min({trial[a], TrialLimit}) + opened[a]
  BY QuotasAssumption DEF TrialsOK
<1> DEFINE Counts(n, t, o) ==
             /\ trial' = [trial EXCEPT ![ip] = @ + n] /\ tried' = [tried EXCEPT ![ip] = @ + t]
             /\ opened' = [opened EXCEPT ![ip] = @ + o]
             /\ t <= o \/ (n = 1 /\ trial[ip] + 1 <= TrialLimit)
<1>2. PICK n \in {0, 1}, t \in {0, 1}, o \in {0, 1} : Counts(n, t, o)
  <2>1. CASE Served("trial") /\ trial' = [trial EXCEPT ![ip] = @ + 1] /\ UNCHANGED <<tried, opened>>
    <3>1. Counts(1, 0, 0)
      BY <1>1, <2>1
    <3> QED
      BY <3>1, Zenon
  <2>2. CASE /\ trial' = [trial EXCEPT ![ip] = @ + 1] /\ UNCHANGED opened
             /\ ~TrialOver(trial'[ip]) /\ tried' = [tried EXCEPT ![ip] = @ + 1]
    <3>1. trial'[ip] = trial[ip] + 1 /\ trial[ip] \in Nat
      BY <1>1, <2>2
    <3>2. trial[ip] + 1 <= TrialLimit
      BY <1>1, <2>2, <3>1 DEF TrialOver
    <3>3. opened' = [opened EXCEPT ![ip] = @ + 0]
      BY <1>1, <2>2
    <3>4. Counts(1, 1, 0)
      BY <2>2, <3>2, <3>3
    <3> QED
      BY <3>4, Zenon
  <2>3. CASE /\ \E n \in {0, 1} : trial' = [trial EXCEPT ![ip] = @ + n]
             /\ tried' = [tried EXCEPT ![ip] = @ + 1] /\ opened' = [opened EXCEPT ![ip] = @ + 1]
    <3>1. PICK m \in {0, 1} : trial' = [trial EXCEPT ![ip] = @ + m]
      BY <2>3
    <3>2. 1 <= 1
      OBVIOUS
    <3>3. Counts(m, 1, 1)
      BY <2>3, <3>1, <3>2, Zenon
    <3> QED
      BY <3>3, Zenon
  <2> QED
    BY <2>1, <2>2, <2>3 DEF TrialRewrite
<1>3. {trial', tried', opened'} \subseteq [Addresses -> Nat]
  BY <1>1, <1>2
<1>4. ASSUME NEW a \in Addresses PROVE tried'[a] <= Min({trial'[a], TrialLimit}) + opened'[a]
  <2>1. /\ trial'[a] = IF a = ip THEN trial[a] + n ELSE trial[a]
        /\ tried'[a] = IF a = ip THEN tried[a] + t ELSE tried[a]
        /\ opened'[a] = IF a = ip THEN opened[a] + o ELSE opened[a]
    BY <1>1, <1>2
  <2>2. {trial[a], tried[a], opened[a], trial'[a]} \subseteq Nat
    BY <1>1, <1>3
  <2>3. /\ Min({trial[a], TrialLimit}) = IF trial[a] <= TrialLimit THEN trial[a] ELSE TrialLimit
        /\ Min({trial'[a], TrialLimit}) = IF trial'[a] <= TrialLimit THEN trial'[a] ELSE TrialLimit
    BY <1>1, <2>2, MinOfTwo
  <2>4. tried[a] <= Min({trial[a], TrialLimit}) + opened[a]
    BY <1>1
  <2>5. n \in Nat /\ t \in Nat /\ o \in Nat /\ t <= 1 /\ (t <= o \/ (a = ip => n = 1 /\ trial[a] + 1 <= TrialLimit))
    BY <1>2
  <2>6. CASE a = ip
    BY <1>1, <2>1, <2>2, <2>3, <2>4, <2>5, <2>6
  <2>7. CASE a # ip
    BY <2>1, <2>4, <2>7
  <2> QED
    BY <2>6, <2>7
<1> QED
  BY <1>3, <1>4 DEF TrialsOK

LEMMA TrialsStep ==
  ASSUME TrialsOK, [QuotasNext]_<<servingVars, quotasVars>>
  PROVE  TrialsOK'
<1>1. CASE UNCHANGED trialVars
  BY <1>1 DEF TrialsOK, trialVars
<1>2. ASSUME NEW w \in Workers, NEW ip \in Addresses, TrialRewrite(w, ip) PROVE TrialsOK'
  BY <1>2, TrialLetIn
<1>3. CASE MidnightUTC
  <2>1. \A n \in {0} : Min({n, TrialLimit}) = 0
    BY QuotasAssumption, MinOfTwo
  <2> QED
    BY <1>3, <2>1 DEF MidnightUTC, TrialsOK
<1>4. ASSUME NEW w \in Workers,
             \/ FindUserWithPlan(w) \/ CheckQuota(w) \/ FinishStream(w)
             \/ FreePlanDailyLimit(w) \/ CountToday(w) \/ Preamble(w) \/ CallAI(w)
             \/ UpsertUserContext(w) \/ QuotasAbort(w)
             \/ \E u \in Callers : CheckRate(w, u)
             \/ \E u \in Callers, valid \in BOOLEAN : Rewrite(w, u, valid)
             \/ \E u \in Callers, b \in ProfileBodies : PutProfile(w, u, b)
      PROVE  TrialsOK'
  BY <1>1, <1>4 DEF CheckRate, FindUserWithPlan, CheckQuota, FinishStream, FreePlanDailyLimit, CountToday,
     Preamble, CallAI, Rewrite, PutProfile, UpsertUserContext, QuotasAbort, quotasVars
<1>5. CASE \/ NextMinute \/ Midnight
           \/ \E b \in PlanBodies : CreatePlan(b) \/ \E p \in PlanIds : UpdatePlan(p, b)
           \/ \E p \in PlanIds : SoftDeletePlan(p)
           \/ \E u \in Callers : SubscriptionMoves(u) \/ DeleteProfile(u)
           \/ \E i \in 1..MaxSamples, q \in {"approved", "any"} : Review(i, q)
  BY <1>1, <1>5 DEF NextMinute, Midnight, CreatePlan, UpdatePlan, SoftDeletePlan,
     SubscriptionMoves, DeleteProfile, Review
<1>6. CASE UNCHANGED <<servingVars, quotasVars>>
  BY <1>1, <1>6 DEF quotasVars
<1> QED
  BY <1>1, <1>2, <1>3, <1>4, <1>5, <1>6 DEF QuotasNext, Streams, Rewrites

-----------------------------------------------------------------------------
(* A step that writes no profile leaves the requests that do where they are. *)

LEMMA ProfilesRest ==
  ASSUME ProfilesOK, UNCHANGED profileVars, work' = [x \in Workers |-> work'[x]],
         \A x \in Workers : work'[x].pc = "profile" => work'[x] = work[x]
  PROVE  ProfilesOK'
  BY DEF ProfilesOK, profileVars, OffOrAsked

LEMMA ProfilesTask ==
  ASSUME ProfilesOK, UNCHANGED profileVars, NEW w \in Workers, NEW task, Goto(w, task), task.pc # "profile"
  PROVE  ProfilesOK'
<1>1. /\ work' = [x \in Workers |-> work'[x]]
      /\ \A x \in Workers : work'[x].pc = "profile" => work'[x] = work[x]
  BY DEF Goto, ProfilesOK
<1> QED
  BY <1>1, ProfilesRest

\* What is merged into a row with personalisation off keeps it off.
LEMMA MergeKeepsOff ==
  ASSUME ProfilesOK, NEW u \in Callers, NEW b \in ProfileBodies
  PROVE  /\ "enabled" \in DOMAIN MergedProfile(profiles[u], b)
         /\ u \in private => "enabled" \in DOMAIN b \/ ~MergedProfile(profiles[u], b).enabled
<1> DEFINE old == IF profiles[u] = NoRow THEN NoProfile ELSE profiles[u]
<1>1. "enabled" \in DOMAIN old /\ (u \in private => ~old.enabled)
  BY DEF ProfilesOK, NoProfile
<1>2. MergedProfile(profiles[u], b) = [c \in DOMAIN old |-> IF c \in DOMAIN b THEN b[c] ELSE old[c]]
  BY DEF MergedProfile
<1> HIDE DEF old
<1> QED
  BY <1>1, <1>2

LEMMA PutProfileOff ==
  ASSUME ProfilesOK, NEW w \in Workers, NEW u \in Callers, NEW b \in ProfileBodies, PutProfile(w, u, b)
  PROVE  ProfilesOK'
<1> DEFINE row == MergedProfile(profiles[u], b)
           task == [pc |-> "profile", u |-> u, row |-> row, named |-> DOMAIN b]
<1>1. UNCHANGED profileVars
  BY DEF PutProfile, quotasVars
<1>2. CASE UNCHANGED work
  BY <1>1, <1>2, ProfilesRest DEF ProfilesOK
<1>3. CASE work' = [work EXCEPT ![w] = task]
  <2>1. "enabled" \in DOMAIN row /\ (u \in private => "enabled" \in DOMAIN b \/ ~row.enabled)
    BY MergeKeepsOff
  <2>2. task.u = u /\ task.row = row /\ task.named = DOMAIN b
    OBVIOUS
  <2>3. task.u \in Callers /\ "enabled" \in DOMAIN task.row /\ (task.u \in private => OffOrAsked(task))
    BY <2>1, <2>2 DEF OffOrAsked
  <2> HIDE DEF task
  <2> QED
    BY <1>1, <1>3, <2>3 DEF ProfilesOK, profileVars, OffOrAsked
<1> QED
  BY <1>2, <1>3 DEF PutProfile, Served, Begin

\* The row written is the one merged before; nobody else's write is under way
\* when personalisation counts as switched off.
LEMMA UpsertOff ==
  ASSUME ProfilesOK, NEW w \in Workers, UpsertUserContext(w)
  PROVE  ProfilesOK'
<1> DEFINE u == work[w].u
           row == work[w].row
           alone == ~ \E x \in Workers \ {w} : Profiling(x, u)
<1>1. /\ u \in Callers /\ "enabled" \in DOMAIN row /\ (u \in private => OffOrAsked(work[w]))
      /\ work' = [work EXCEPT ![w] = Idle]
      /\ profiles' = [profiles EXCEPT ![u] = row]
      /\ private' = IF "enabled" \in work[w].named
                    THEN IF ~row.enabled /\ alone THEN private \cup {u} ELSE private \ {u}
                    ELSE private
  BY DEF UpsertUserContext, At, Finish, Goto, ProfilesOK
<1>2. /\ profiles' = [v \in Callers |-> profiles'[v]] /\ private' \subseteq Callers
      /\ \A v \in Callers : profiles'[v] # NoRow => "enabled" \in DOMAIN profiles'[v]
  BY <1>1 DEF ProfilesOK
<1>3. \A v \in private' : profiles'[v] # NoRow => ~profiles'[v].enabled
  <2>1. \A v \in private' \ {u} : v \in private /\ profiles'[v] = profiles[v]
    BY <1>1 DEF ProfilesOK
  <2>2. u \in private' => ~row.enabled /\ profiles'[u] = row
    BY <1>1 DEF OffOrAsked, ProfilesOK
  <2> QED
    BY <2>1, <2>2 DEF ProfilesOK
<1>4. work' = [x \in Workers |-> work'[x]] /\ work'[w].pc = "idle"
      /\ \A x \in Workers \ {w} : work'[x] = work[x]
  BY <1>1 DEF ProfilesOK, Idle
<1>5. ASSUME NEW x \in Workers, work'[x].pc = "profile"
      PROVE  /\ work'[x].u \in Callers /\ "enabled" \in DOMAIN work'[x].row
             /\ work'[x].u \in private' => OffOrAsked(work'[x])
  <2>1. x \in Workers \ {w} /\ work'[x] = work[x] /\ work[x].pc = "profile"
    BY <1>4, <1>5
  <2>2. /\ work[x].u \in Callers /\ "enabled" \in DOMAIN work[x].row
        /\ work[x].u \in private => OffOrAsked(work[x])
    BY <2>1 DEF ProfilesOK
  <2>3. work[x].u \in private' => work[x].u \in private
    BY <1>1, <2>1 DEF Profiling
  <2> QED
    BY <2>1, <2>2, <2>3
<1> HIDE DEF u, row, alone
<1> QED
  BY <1>2, <1>3, <1>4, <1>5 DEF ProfilesOK, OffOrAsked

LEMMA DeleteOff ==
  ASSUME ProfilesOK, NEW u \in Callers, DeleteProfile(u)
  PROVE  ProfilesOK'
<1>1. /\ UNCHANGED work /\ profiles' = [profiles EXCEPT ![u] = NoRow]
      /\ private' = IF \E x \in Workers : Profiling(x, u) THEN private ELSE private \cup {u}
  BY DEF DeleteProfile, Served
<1>2. /\ profiles' = [v \in Callers |-> profiles'[v]] /\ private' \subseteq Callers
      /\ \A v \in Callers : profiles'[v] = NoRow \/ (v # u /\ profiles'[v] = profiles[v])
      /\ \A v \in private' : v \in private \/ v = u
  BY <1>1 DEF ProfilesOK
<1>3. profiles'[u] = NoRow
  BY <1>1 DEF ProfilesOK
<1>4. \A x \in Workers : work[x].pc = "profile" /\ work[x].u \in private' => work[x].u \in private
  BY <1>1 DEF Profiling
<1> QED
  BY <1>1, <1>2, <1>3, <1>4 DEF ProfilesOK, OffOrAsked

LEMMA ProfilesStep ==
  ASSUME ProfilesOK, QuotasInv, [QuotasNext]_<<servingVars, quotasVars>>
  PROVE  ProfilesOK'
<1>1. CASE UNCHANGED <<work, profileVars>>
  BY <1>1, ProfilesRest DEF ProfilesOK
<1>2. ASSUME NEW w \in Workers, Finish(w), UNCHANGED profileVars PROVE ProfilesOK'
  BY <1>2, ProfilesTask DEF Finish, Idle
<1>3. ASSUME NEW w \in Workers,
             FindUserWithPlan(w) \/ CheckQuota(w) \/ FreePlanDailyLimit(w) \/ CountToday(w)
      PROVE  ProfilesOK'
  <2>1. UNCHANGED profileVars /\ work[w] \in Asking
    BY <1>3 DEF FindUserWithPlan, CheckQuota, FreePlanDailyLimit, CountToday, At, quotasVars,
       QuotasInv, AskingOK, StreamPcs
  <2>2. ASSUME NEW task, Goto(w, task), task.pc # "profile" PROVE ProfilesOK'
    BY <2>1, <2>2, ProfilesTask
  <2>3. ASSUME NEW l PROVE [work[w] EXCEPT !.pc = "used", !.limit = l].pc = "used"
    BY <2>1 DEF Asking
  <2>4. ASSUME NEW l PROVE [work[w] EXCEPT !.pc = "count", !.limit = l].pc = "count"
    BY <2>1 DEF Asking
  <2>5. /\ [work[w] EXCEPT !.pc = "stream"].pc = "stream"
        /\ [work[w] EXCEPT !.pc = "preamble"].pc = "preamble"
    BY <2>1 DEF Asking
  <2>6. CASE FindUserWithPlan(w)
    BY <2>2, <2>3, <2>6 DEF FindUserWithPlan
  <2>7. CASE FreePlanDailyLimit(w)
    BY <2>2, <2>4, <2>7 DEF FreePlanDailyLimit
  <2>8. CASE CheckQuota(w) \/ CountToday(w)
    BY <1>2, <2>1, <2>2, <2>5, <2>8 DEF CheckQuota, CountToday
  <2> QED
    BY <1>3, <2>6, <2>7, <2>8
<1>4. ASSUME NEW w \in Workers, Preamble(w) PROVE ProfilesOK'
  <2>1. PICK task : Goto(w, task) /\ task.pc = "ai"
    BY <1>4 DEF Preamble
  <2> QED
    BY <1>4, <2>1, ProfilesTask DEF Preamble, quotasVars
<1>5. ASSUME NEW w \in Workers,
             \/ \E u \in Callers : CheckRate(w, u)
             \/ \E u \in Callers, valid \in BOOLEAN : Rewrite(w, u, valid)
             \/ \E ip \in Addresses : TrialRewrite(w, ip)
      PROVE  ProfilesOK'
  <2>1. UNCHANGED profileVars
    BY <1>5 DEF CheckRate, Rewrite, TrialRewrite, quotasVars
  <2>2. ASSUME NEW op, NEW task, Begin(w, op, task), task.pc # "profile" PROVE ProfilesOK'
    BY <2>1, <2>2, ProfilesTask DEF Begin, Goto
  <2>3. ASSUME NEW op, Served(op) PROVE ProfilesOK'
    BY <1>1, <2>1, <2>3 DEF Served
  <2>4. ASSUME NEW u \in Callers, CheckRate(w, u) PROVE ProfilesOK'
    BY <2>2, <2>3, <2>4 DEF CheckRate, StreamTask
  <2>5. ASSUME NEW u \in Callers, NEW valid \in BOOLEAN, Rewrite(w, u, valid) PROVE ProfilesOK'
    BY <2>2, <2>3, <2>5 DEF Rewrite
  <2>6. ASSUME NEW ip \in Addresses, TrialRewrite(w, ip) PROVE ProfilesOK'
    <3>1. \/ Served("trial")
          \/ Begin(w, "trial", [pc |-> "ai", personal |-> FALSE])
      BY <2>6 DEF TrialRewrite
    <3> QED
      BY <2>2, <2>3, <3>1
  <2> QED
    BY <1>5, <2>4, <2>5, <2>6
<1>6. ASSUME NEW w \in Workers, FinishStream(w) \/ CallAI(w) \/ QuotasAbort(w) PROVE ProfilesOK'
  BY <1>2, <1>6 DEF FinishStream, CallAI, QuotasAbort, Abort, quotasVars
<1>7. ASSUME NEW w \in Workers,
             UpsertUserContext(w) \/ \E u \in Callers, b \in ProfileBodies : PutProfile(w, u, b)
      PROVE  ProfilesOK'
  BY <1>7, UpsertOff, PutProfileOff
<1>8. ASSUME NEW u \in Callers, DeleteProfile(u) PROVE ProfilesOK'
  BY <1>8, DeleteOff
<1>9. CASE \/ NextMinute \/ Midnight \/ MidnightUTC
           \/ \E b \in PlanBodies : CreatePlan(b) \/ \E p \in PlanIds : UpdatePlan(p, b)
           \/ \E p \in PlanIds : SoftDeletePlan(p)
           \/ \E u \in Callers : SubscriptionMoves(u)
           \/ \E i \in 1..MaxSamples, q \in {"approved", "any"} : Review(i, q)
  BY <1>1, <1>9 DEF NextMinute, Midnight, MidnightUTC, CreatePlan, UpdatePlan, SoftDeletePlan,
     SubscriptionMoves, Review, Served
<1>10. CASE UNCHANGED <<servingVars, quotasVars>>
  BY <1>1, <1>10 DEF servingVars, quotasVars
<1> QED
  BY <1>3, <1>4, <1>5, <1>6, <1>7, <1>8, <1>9, <1>10 DEF QuotasNext, Streams, Rewrites

LEMMA CountersStep == CountersOK /\ [QuotasNext]_<<servingVars, quotasVars>> => CountersOK'
  BY QuotasStep, RateStep, SamplesStep, TrialsStep, ProfilesStep DEF CountersOK

LEMMA CountersTyped == CountersOK => QuotasTypeOK
<1> SUFFICES ASSUME CountersOK PROVE QuotasTypeOK
  OBVIOUS
<1>1. ASSUME NEW u \in Callers
      PROVE  /\ {logged[u], rate[u], streamed[u], unlogged[u]} \subseteq 0..MaxRequests
             /\ allowance[u] \in Nat
             /\ subs[u] # NoRow => subs[u].plan \in Existing(plans)
  <2>1. /\ {logged[u], rate[u], streamed[u], unlogged[u], allowance[u]} \subseteq Nat
        /\ streamed[u] = logged[u] + unlogged[u] /\ rate[u] <= requests
        /\ streamed[u] + AskedBy(u) <= requests
        /\ requests \in 0..MaxRequests /\ MaxRequests \in Nat
    BY ServingAssumption DEF CountersOK, QuotasInv, CountsOK, Requested, RateOK
  <2>2. AskedBy(u) \in Nat
    BY CountsAreNat
  <2>3. {logged[u], rate[u], streamed[u], unlogged[u]} \subseteq 0..MaxRequests
    BY <2>1, <2>2
  <2>4. subs[u] # NoRow => subs[u].plan \in Existing(plans)
    BY QuotasAssumption DEF CountersOK, QuotasInv, PlansOK, Existing
  <2> QED
    BY <2>1, <2>3, <2>4
<1> QED
  BY <1>1, Zenon DEF CountersOK, SamplesOK, TrialsOK, ProfilesOK, QuotasTypeOK

\* The counters stay within what was asked, a row names a plan there is, an
\* address is let in for no more trials than the limit and Redis' errors allow
\* (TrialRewrite), and whoever switched personalisation off keeps it off
\* whatever else they change about the profile (Put merges the row it read).
THEOREM QuotasTyped == QuotasSpec => []QuotasTypeOK
  BY CountersInitially, CountersStep, CountersTyped, PTL DEF QuotasSpec

-----------------------------------------------------------------------------
(***************************************************************************)
(* Apple's keys: the cache heals, whatever the number of keys, the time    *)
(* they are cached and the number of requests.                             *)
(***************************************************************************)
\* The variables of the cache and of Apple.
CacheOK ==
  /\ hour \in 0..MaxHour
  /\ issued \in 1..MaxKeys
  /\ published \subseteq 1..issued /\ issued \in published
  /\ withdrawn \in [1..MaxKeys -> Nat]
  /\ cached \in [keys : SUBSET (1..issued), until : Nat]
  /\ trusted \in Nat /\ misses \in Nat

\* A key that is published, or is yet to be, has not been withdrawn.
Unwithdrawn == \A k \in 1..MaxKeys : k \in published \/ k > issued => withdrawn[k] = MaxHour

\* A cached key was published KeysTTL before the cache's time is up.
CachedWasPublished ==
  /\ cached.until <= hour + KeysTTL
  /\ \A k \in cached.keys : cached.until <= withdrawn[k] + KeysTTL

\* The newest key cached is younger than every miss, and every published key up
\* to it is cached: what a request may miss was published since.
MissesPaidFor ==
  cached.keys # {} =>
    \E f \in cached.keys : misses < f /\ \A k \in published : k <= f => k \in cached.keys

\* RotationHeals, with what the cache remembers of the rotations before it.
AppleInv == CacheOK /\ Unwithdrawn /\ CachedWasPublished /\ MissesPaidFor /\ RotationHeals

LEMMA AppleInitially == ServingInit /\ AppleInit => AppleInv
  BY AppleKeysAssumption DEF AppleInit, AppleInv, CacheOK, Unwithdrawn, CachedWasPublished, MissesPaidFor, RotationHeals

\* A look-up in keys that are as good as cached ones.
LEMMA LookUpKeepsInv ==
  ASSUME AppleInv, NEW w, NEW keys \in [keys : SUBSET (1..issued), until : Nat],
         hour <= keys.until, keys.until <= hour + KeysTTL,
         \A k \in keys.keys : keys.until <= withdrawn[k] + KeysTTL,
         \E f \in keys.keys : misses < f /\ \A k \in published : k <= f => k \in keys.keys,
         LookUp(w, keys), UNCHANGED upstream
  PROVE  AppleInv'
<1> DEFINE kid == work[w].kid
<1> USE AppleKeysAssumption DEF AppleInv
<1>0. /\ cached' = Bust(keys, kid)
      /\ trusted' = IF kid \in keys.keys /\ hour - withdrawn[kid] > trusted THEN hour - withdrawn[kid] ELSE trusted
      /\ misses' = IF kid \in published \ keys.keys THEN misses + 1 ELSE misses
      /\ hour' = hour /\ published' = published /\ issued' = issued /\ withdrawn' = withdrawn
  BY DEF LookUp, upstream
<1> HIDE DEF kid
<1>1. /\ cached' \in [keys : SUBSET (1..issued), until : Nat]
      /\ cached'.until = keys.until
      /\ cached'.keys = IF kid \in keys.keys THEN keys.keys ELSE {}
  BY <1>0 DEF Bust
<1>2. trusted' \in Nat /\ trusted' <= KeysTTL
  <2>1. CASE kid \in keys.keys
    <3>1. kid \in 1..MaxKeys /\ withdrawn[kid] \in Nat
      BY <2>1 DEF CacheOK
    <3>2. hour <= withdrawn[kid] + KeysTTL
      BY <2>1, <3>1 DEF CacheOK
    <3> DEFINE age == hour - withdrawn[kid]
    <3>3. age \in Int /\ age <= KeysTTL
      BY <3>1, <3>2 DEF CacheOK
    <3>4. trusted' = IF age > trusted THEN age ELSE trusted
      BY <1>0, <2>1
    <3> HIDE DEF age
    <3> QED BY <3>3, <3>4 DEF CacheOK, RotationHeals
  <2>2. CASE kid \notin keys.keys
    BY <1>0, <2>2 DEF CacheOK, RotationHeals
  <2> QED BY <2>1, <2>2
<1>3. PICK f \in keys.keys : misses < f /\ \A k \in published : k <= f => k \in keys.keys
  OBVIOUS
<1>4. misses' \in Nat /\ misses' <= issued - 1
  <2>1. CASE kid \in published \ keys.keys
    <3>1. kid \in 1..issued /\ f < kid
      BY <1>3, <2>1 DEF CacheOK
    <3>2. misses' = misses + 1
      BY <1>0, <2>1
    <3> QED BY <1>3, <3>1, <3>2 DEF CacheOK
  <2>2. CASE kid \notin published \ keys.keys
    BY <1>0, <2>2 DEF CacheOK, RotationHeals
  <2> QED BY <2>1, <2>2
<1>5. CacheOK'
  BY <1>0, <1>1, <1>2, <1>4 DEF CacheOK
<1>6. Unwithdrawn'
  BY <1>0 DEF Unwithdrawn
<1>7. CachedWasPublished'
  BY <1>0, <1>1 DEF CachedWasPublished
<1>8. MissesPaidFor'
  BY <1>0, <1>1, <1>3 DEF MissesPaidFor
<1>9. RotationHeals'
  BY <1>0, <1>2, <1>4 DEF RotationHeals
<1> QED BY <1>5, <1>6, <1>7, <1>8, <1>9

LEMMA CacheStep == AppleInv /\ [AppleNext]_<<servingVars, appleVars>> => AppleInv'
<1> SUFFICES ASSUME AppleInv, [AppleNext]_<<servingVars, appleVars>> PROVE AppleInv'
  OBVIOUS
<1> USE AppleKeysAssumption DEF AppleInv
\* Nothing of the cache, of Apple or of the observers changes.
<1>1. ASSUME UNCHANGED <<upstream, cached, trusted, misses>> PROVE AppleInv'
  BY <1>1 DEF upstream, CacheOK, Unwithdrawn, CachedWasPublished, MissesPaidFor, RotationHeals
<1>2. ASSUME NEW w \in Workers, NEW kid \in 1..issued, VerifyApple(w, kid) PROVE AppleInv'
  BY <1>1, <1>2 DEF VerifyApple, appleVars, upstream
<1>3. ASSUME NEW w \in Workers, Lock(w) PROVE AppleInv'
  BY <1>1, <1>3 DEF Lock
<1>4. ASSUME NEW w \in Workers, FetchFails(w) PROVE AppleInv'
  BY <1>1, <1>4 DEF FetchFails
<1>5. ASSUME NEW w \in Workers, ApplePublicKey(w) PROVE AppleInv'
  <2>1. LookUp(w, cached) /\ UNCHANGED upstream /\ cached.keys # {} /\ hour <= cached.until
    BY <1>5 DEF ApplePublicKey, Stale, CacheOK
  <2> QED BY <2>1, LookUpKeepsInv DEF CacheOK, CachedWasPublished, MissesPaidFor
<1>6. ASSUME NEW w \in Workers, FetchAppleKeys(w) PROVE AppleInv'
  <2> DEFINE keys == Fetched(published)
  <2>1. LookUp(w, keys) /\ UNCHANGED upstream
    BY <1>6 DEF FetchAppleKeys
  <2>2. keys \in [keys : SUBSET (1..issued), until : Nat] /\ keys.keys = published /\ keys.until = hour + KeysTTL
    BY DEF Fetched, CacheOK
  <2>3. \A k \in keys.keys : keys.until <= withdrawn[k] + KeysTTL
    BY <2>2 DEF CacheOK, Unwithdrawn
  <2>4. issued \in keys.keys /\ misses < issued /\ \A k \in published : k <= issued => k \in keys.keys
    BY <2>2 DEF CacheOK, RotationHeals
  <2>5. hour <= keys.until /\ keys.until <= hour + KeysTTL
    BY <2>2 DEF CacheOK
  <2> HIDE DEF keys
  <2> QED BY <2>1, <2>2, <2>3, <2>4, <2>5, LookUpKeepsInv
<1>7. ASSUME NEW kid \in published, Withdraw(kid) PROVE AppleInv'
  BY <1>7, SMTT(30) DEF Withdraw, CacheOK, Unwithdrawn, CachedWasPublished, MissesPaidFor, RotationHeals
<1>8. ASSUME Publish PROVE AppleInv'
  BY <1>8 DEF Publish, CacheOK, Unwithdrawn, CachedWasPublished, MissesPaidFor, RotationHeals
<1>9. ASSUME Hour PROVE AppleInv'
  BY <1>9 DEF Hour, CacheOK, Unwithdrawn, CachedWasPublished, MissesPaidFor, RotationHeals
<1>10. ASSUME AppleRestart PROVE AppleInv'
  BY <1>10 DEF AppleRestart, upstream, CacheOK, Unwithdrawn, CachedWasPublished, MissesPaidFor, RotationHeals
<1>11. CASE UNCHANGED <<servingVars, appleVars>>
  BY <1>1, <1>11 DEF appleVars, upstream
<1> QED BY <1>2, <1>3, <1>4, <1>5, <1>6, <1>7, <1>8, <1>9, <1>10, <1>11 DEF AppleNext

\* A rotation of Apple's keys heals (auth/social_apple.go:75-137): a withdrawn
\* key is accepted for KeysTTL at most, and there are no more genuine sign-ins
\* refused for a missing key than new keys, for every number of workers,
\* requests and keys and however fetches fail and the process restarts.
THEOREM RotationAlwaysHeals == AppleSpec => []RotationHeals
<1>1. AppleInv => RotationHeals
  BY DEF AppleInv
<1> QED BY <1>1, AppleInitially, CacheStep, PTL DEF AppleSpec

-----------------------------------------------------------------------------
(* The mutex: whoever holds it is fetching, and nobody else is.            *)

LockHeld ==
  /\ work = [w \in Workers |-> work[w]] /\ \A w \in Workers : "pc" \in DOMAIN work[w]
  /\ held # NoRow => held \in Workers /\ work[held].pc = "download"
  /\ \A w \in Workers : work[w].pc = "download" => held = w

LEMMA LockInitially == ServingInit /\ AppleInit => LockHeld
  BY DEF ServingInit, AppleInit, LockHeld, Idle

\* A request comes to or leaves the lock.
LEMMA LockPassed ==
  ASSUME LockHeld, NEW w \in Workers, NEW t, work' = [work EXCEPT ![w] = t], "pc" \in DOMAIN t, t.pc # "download",
         IF work[w].pc = "download" THEN held' = NoRow ELSE held' = held
  PROVE  LockHeld'
<1>1. work' = [v \in Workers |-> work'[v]] /\ work'[w] = t /\ \A v \in Workers \ {w} : work'[v] = work[v]
  BY DEF LockHeld
<1>2. \A v \in Workers : work'[v].pc = "download" => v # w /\ held = v
  BY <1>1 DEF LockHeld
<1>3. CASE work[w].pc = "download"
  BY <1>1, <1>2, <1>3 DEF LockHeld
<1>4. CASE work[w].pc # "download"
  BY <1>1, <1>2, <1>4 DEF LockHeld
<1> QED
  BY <1>3, <1>4

LEMMA LockStep == LockHeld /\ [AppleNext]_<<servingVars, appleVars>> => LockHeld'
<1> SUFFICES ASSUME LockHeld, [AppleNext]_<<servingVars, appleVars>> PROVE LockHeld'
  OBVIOUS
<1>0. "pc" \in DOMAIN Idle /\ Idle.pc = "idle"
  BY DEF Idle
<1>1. ASSUME UNCHANGED <<work, held>> PROVE LockHeld'
  BY <1>1 DEF LockHeld
<1>2. ASSUME NEW w \in Workers, NEW kid \in 1..issued, VerifyApple(w, kid) PROVE LockHeld'
  <2> DEFINE t == [pc |-> "lock", kid |-> kid]
  <2>1. work' = [work EXCEPT ![w] = t] /\ work[w] = Idle /\ held' = held
    BY <1>2 DEF VerifyApple, Begin, appleVars
  <2>2. "pc" \in DOMAIN t /\ t.pc = "lock"
    OBVIOUS
  <2> HIDE DEF t
  <2> QED
    BY <1>0, <2>1, <2>2, LockPassed
<1>3. ASSUME NEW w \in Workers, Lock(w) PROVE LockHeld'
  <2> DEFINE t == [work[w] EXCEPT !.pc = "download"]
  <2>1. held = NoRow /\ held' = w /\ work' = [work EXCEPT ![w] = t]
    BY <1>3 DEF Lock, Goto
  <2>2. "pc" \in DOMAIN t /\ t.pc = "download"
    BY DEF LockHeld
  <2> HIDE DEF t
  <2>3. \A v \in Workers : work[v].pc # "download"
    BY <2>1, AppleKeysAssumption DEF LockHeld
  <2> QED
    BY <2>1, <2>2, <2>3 DEF LockHeld
<1>4. ASSUME NEW w \in Workers, FetchFails(w) PROVE LockHeld'
  BY <1>0, <1>4, LockPassed DEF FetchFails, At, Finish, Goto
<1>5. ASSUME NEW w \in Workers, FetchAppleKeys(w) PROVE LockHeld'
  BY <1>0, <1>5, LockPassed DEF FetchAppleKeys, LookUp, At, Finish, Goto
<1>6. ASSUME NEW w \in Workers, ApplePublicKey(w) PROVE LockHeld'
  BY <1>0, <1>6, LockPassed DEF ApplePublicKey, LookUp, At, Finish, Goto
<1>7. ASSUME AppleRestart PROVE LockHeld'
  BY <1>0, <1>7 DEF AppleRestart, LockHeld
<1>8. CASE \/ \E kid \in published : Withdraw(kid)
           \/ Publish \/ Hour
           \/ UNCHANGED <<servingVars, appleVars>>
  BY <1>1, <1>8 DEF Withdraw, Publish, Hour, servingVars, appleVars
<1> QED
  BY <1>2, <1>3, <1>4, <1>5, <1>6, <1>7, <1>8 DEF AppleNext

\* One request at a time fetches Apple's keys, and the others wait for it at
\* the mutex (auth/social_apple.go:75); the keys cached are keys Apple issued.
THEOREM AppleTyped == AppleSpec => []AppleTypeOK
<1>1. AppleInv /\ LockHeld => AppleTypeOK
  BY DEF AppleInv, CacheOK, LockHeld, AppleTypeOK
<1> QED
  BY <1>1, AppleInitially, CacheStep, LockInitially, LockStep, PTL DEF AppleSpec

-----------------------------------------------------------------------------
(***************************************************************************)
(* Mail: nobody on the suppression list is written to, and who runs out is *)
(* reminded of it, whatever the number of addresses, sends, reports and    *)
(* half-days, and however statements, runs of the job and the process fail.*)
(***************************************************************************)
Types == {"other", "reminder", "expired"}
Letter == [to : Subscribers, type : Types, pc : {"check", "deliver", "log", "done"},
           log : {"none", "suppressed", "skipped", "failed", "sent"} \cup ReportKinds,
           handed : BOOLEAN, early : BOOLEAN]

\* A send that began when its address was listed gets no further than the look-up.
HeldBack(m) == m.early => m.to \in barred /\ ~m.handed /\ m.pc \in {"check", "done"}

MailsOK == mails \in Seq(Letter) /\ \A i \in DOMAIN mails : HeldBack(mails[i])
TermsOK == terms = [u \in Subscribers |-> terms[u]]
ReturnsOK == \A e \in returns \cup heard : e.mail \in DOMAIN mails /\ e.kind \in ReportKinds
Listed == \A e \in heard : Hard(e) => mails[e.mail].to \in barred

MailInv == MailsOK /\ TermsOK /\ ReturnsOK /\ Listed

LEMMA MailInitially == ServingInit /\ MailInit => MailInv
  BY DEF MailInit, MailInv, MailsOK, TermsOK, ReturnsOK, Listed

-----------------------------------------------------------------------------
(* What may happen to the sends.                                           *)

\* Those there are stay who they are for, and new ones begin with the look-up.
Carried ==
  /\ mails' \in Seq(Letter) /\ DOMAIN mails \subseteq DOMAIN mails'
  /\ \A i \in DOMAIN mails :
       /\ mails'[i].to = mails[i].to /\ mails'[i].early = mails[i].early
       /\ mails[i].early => ~mails'[i].handed /\ mails'[i].pc \in {"check", "done"}
  /\ \A i \in DOMAIN mails' \ DOMAIN mails : HeldBack(mails'[i])

LEMMA CarriedKeeps ==
  ASSUME MailInv, Carried, TermsOK', barred \subseteq barred'
  PROVE  /\ MailsOK' /\ \A i \in DOMAIN mails : mails[i].to \in barred => mails'[i].to \in barred'
  BY DEF MailInv, MailsOK, Carried, HeldBack

LEMMA CalmKeeps ==
  ASSUME MailInv, Carried, TermsOK', UNCHANGED listVars
  PROVE  MailInv'
<1>1. UNCHANGED <<barred, returns, heard>>
  BY DEF listVars
<1>2. MailsOK' /\ \A i \in DOMAIN mails : mails[i].to \in barred => mails'[i].to \in barred'
  BY <1>1, CarriedKeeps
<1>3. ReturnsOK'
  BY <1>1 DEF MailInv, ReturnsOK, Carried
<1>4. Listed'
  BY <1>1, <1>2 DEF MailInv, ReturnsOK, Listed, Hard
<1> QED
  BY <1>2, <1>3, <1>4 DEF MailInv

LEMMA SameCarries == ASSUME MailInv, UNCHANGED mails PROVE Carried
  BY DEF MailInv, MailsOK, Carried, HeldBack

\* One send is edited.
LEMMA EditCarries ==
  ASSUME MailInv, NEW i \in DOMAIN mails, NEW m \in Letter,
         m.to = mails[i].to, m.early = mails[i].early,
         m.early => ~m.handed /\ m.pc \in {"check", "done"},
         mails' = [mails EXCEPT ![i] = m]
  PROVE  Carried
<1>1. mails' \in Seq(Letter) /\ DOMAIN mails' = DOMAIN mails
  BY ExceptSeq DEF MailInv, MailsOK
<1> QED
  BY <1>1 DEF MailInv, MailsOK, Carried, HeldBack

\* SetToSeq names members of the set.
LEMMA SetToSeqIsMember ==
  ASSUME NEW S, IsFiniteSet(S)
  PROVE  Cardinality(S) \in Nat /\ SetToSeq(S) \in [1..Cardinality(S) -> S]
<1>1. Cardinality(S) \in Nat /\ ExistsBijection(1..Cardinality(S), S)
  BY FS_CardinalityType
<1>2. PICK f \in [1..Cardinality(S) -> S] : IsInjective(f)
  BY <1>1 DEF ExistsBijection, Bijection, Injection, IsInjective
<1> QED
  BY <1>1, <1>2 DEF SetToSeq

\* Messages are added.
LEMMA PostCarries ==
  ASSUME MailInv, NEW us \in SUBSET Subscribers, NEW type \in Types, mails' = Post(us, type)
  PROVE  Carried
<1> DEFINE new == [i \in 1..Cardinality(us) |-> Message(SetToSeq(us)[i], type)]
<1>1. Cardinality(us) \in Nat /\ SetToSeq(us) \in [1..Cardinality(us) -> us]
  BY MailAssumption, FS_Subset, SetToSeqIsMember
<1>2. ASSUME NEW u \in Subscribers PROVE Message(u, type) \in Letter /\ HeldBack(Message(u, type))
  <2>1. CASE u \in barred
    <3>1. Message(u, type) = [to |-> u, type |-> type, pc |-> "check", log |-> "none", handed |-> FALSE, early |-> TRUE]
      BY <2>1, Zenon DEF Message
    <3> QED
      BY <2>1, <3>1 DEF Letter, HeldBack
  <2>2. CASE u \notin barred
    <3>1. (u \in barred) = FALSE
      BY <2>2
    <3>2. Message(u, type) = [to |-> u, type |-> type, pc |-> "check", log |-> "none", handed |-> FALSE, early |-> FALSE]
      BY <3>1, Zenon DEF Message
    <3> QED
      BY <2>2, <3>2 DEF Letter, HeldBack
  <2> QED
    BY <2>1, <2>2
<1>3. new \in Seq(Letter) /\ \A i \in DOMAIN new : HeldBack(new[i])
  BY <1>1, <1>2
<1>4. mails \in Seq(Letter) /\ mails' = mails \o new
  BY DEF MailInv, MailsOK, Post
<1> HIDE DEF new
<1>5. /\ mails' \in Seq(Letter) /\ Len(mails') = Len(mails) + Len(new)
      /\ \A i \in 1 .. Len(mails') : mails'[i] = IF i <= Len(mails) THEN mails[i] ELSE new[i - Len(mails)]
  BY <1>3, <1>4, ConcatProperties
<1>6. \A i \in DOMAIN mails : i \in DOMAIN mails' /\ mails'[i] = mails[i]
  BY <1>3, <1>4, <1>5
<1>7. \A i \in DOMAIN mails' \ DOMAIN mails : HeldBack(mails'[i])
  BY <1>3, <1>4, <1>5
<1> QED
  BY <1>5, <1>6, <1>7 DEF MailInv, MailsOK, Carried, HeldBack

-----------------------------------------------------------------------------
(* One step per action.                                                    *)

LEMMA MailStep == MailInv /\ [MailNext]_<<servingVars, mailVars>> => MailInv'
<1> SUFFICES ASSUME MailInv, [MailNext]_<<servingVars, mailVars>> PROVE MailInv'
  OBVIOUS
<1>0. /\ mails \in Seq(Letter) /\ \A i \in DOMAIN mails : mails[i] \in Letter /\ HeldBack(mails[i])
      /\ \A u \in Subscribers : {u} \in SUBSET Subscribers
  BY DEF MailInv, MailsOK
<1>1. ASSUME UNCHANGED <<listVars, mails>>, TermsOK' PROVE MailInv'
  BY <1>1, SameCarries, CalmKeeps
<1>2. ASSUME NEW i \in DOMAIN mails, NEW m \in Letter,
             m.to = mails[i].to, m.early = mails[i].early,
             m.early => ~m.handed /\ m.pc \in {"check", "done"},
             mails' = [mails EXCEPT ![i] = m], UNCHANGED <<listVars, terms>>
      PROVE  MailInv'
  BY <1>2, EditCarries, CalmKeeps DEF MailInv, TermsOK
<1>3. ASSUME NEW us \in SUBSET Subscribers, NEW type \in Types, mails' = Post(us, type),
             TermsOK', UNCHANGED listVars
      PROVE  MailInv'
  BY <1>3, PostCarries, CalmKeeps
<1>4. ASSUME NEW i \in DOMAIN mails, NEW status \in {"suppressed", "skipped", "failed", "sent"},
             mails[i].early => ~mails[i].handed, Ends(i, status), UNCHANGED <<listVars, terms>>
      PROVE  MailInv'
  <2> DEFINE m == [mails[i] EXCEPT !.pc = "done", !.log = status]
  <2>1. /\ m \in Letter /\ m.to = mails[i].to /\ m.early = mails[i].early
        /\ m.early => ~m.handed /\ m.pc \in {"check", "done"}
    BY <1>0, <1>4 DEF Letter
  <2>2. mails' = [mails EXCEPT ![i] = m]
    BY <1>0, <1>4 DEF Ends
  <2> QED
    BY <1>2, <1>4, <2>1, <2>2
<1>5. ASSUME NEW u \in Subscribers, SendMail(u) PROVE MailInv'
  BY <1>0, <1>3, <1>5 DEF SendMail, jobVars, MailInv, TermsOK, Types
<1>6. ASSUME NEW u \in Subscribers, Unsubscribe(u) \/ \E d \in Terms : Subscribe(u, d) PROVE MailInv'
  BY <1>1, <1>6 DEF Subscribe, Unsubscribe, MailInv, TermsOK
<1>7. ASSUME NEW i \in DOMAIN mails, IsSuppressed(i) PROVE MailInv'
  <2>1. UNCHANGED <<listVars, terms>> /\ (mails[i].early => ~mails[i].handed)
    BY <1>0, <1>7 DEF IsSuppressed, Sending, jobVars, HeldBack
  <2>2. CASE mails[i].to \in barred
    BY <1>4, <1>7, <2>1, <2>2 DEF IsSuppressed
  <2>3. CASE mails[i].to \notin barred
    <3> DEFINE m == [mails[i] EXCEPT !.pc = "deliver"]
    <3>1. m \in Letter /\ m.to = mails[i].to /\ m.early = mails[i].early /\ ~m.early
      BY <1>0, <2>3 DEF Letter, HeldBack
    <3>2. mails' = [mails EXCEPT ![i] = m]
      BY <1>7, <2>3 DEF IsSuppressed
    <3> QED
      BY <1>2, <2>1, <3>1, <3>2
  <2> QED
    BY <2>2, <2>3
<1>8. ASSUME NEW i \in DOMAIN mails, Deliver(i) PROVE MailInv'
  <2>1. UNCHANGED <<listVars, terms>> /\ ~mails[i].early
    BY <1>0, <1>8 DEF Deliver, Sending, jobVars, HeldBack
  <2>2. CASE Ends(i, "skipped") \/ Ends(i, "failed")
    BY <1>4, <2>1, <2>2
  <2>3. CASE mails' = [mails EXCEPT ![i].pc = "log", ![i].handed = TRUE]
    <3> DEFINE m == [mails[i] EXCEPT !.pc = "log", !.handed = TRUE]
    <3>1. m \in Letter /\ m.to = mails[i].to /\ m.early = mails[i].early /\ ~m.early
      BY <1>0, <2>1 DEF Letter
    <3>2. mails' = [mails EXCEPT ![i] = m]
      BY <1>0, <2>3
    <3> QED
      BY <1>2, <2>1, <3>1, <3>2
  <2> QED
    BY <1>8, <2>2, <2>3 DEF Deliver
<1>9. ASSUME NEW i \in DOMAIN mails, LogSend(i) PROVE MailInv'
  <2>1. UNCHANGED <<listVars, terms>> /\ ~mails[i].early
    BY <1>0, <1>9 DEF LogSend, Sending, jobVars, HeldBack
  <2> QED
    BY <1>4, <1>9, <2>1 DEF LogSend
<1>10. ASSUME NEW i \in DOMAIN mails, NEW k \in ReportKinds, ReportOn(i, k) PROVE MailInv'
  <2>1. returns' = returns \cup {[mail |-> i, kind |-> k]} /\ UNCHANGED <<mails, barred, heard, terms>>
    BY <1>10 DEF ReportOn, jobVars
  <2> QED
    BY <2>1 DEF MailInv, MailsOK, HeldBack, TermsOK, ReturnsOK, Listed, Hard
<1>11. ASSUME NEW e \in returns, RejectReport(e) PROVE MailInv'
  <2>1. returns' = returns \ {e} /\ UNCHANGED <<mails, barred, heard, terms>>
    BY <1>11 DEF RejectReport, jobVars
  <2> QED
    BY <2>1 DEF MailInv, MailsOK, HeldBack, TermsOK, ReturnsOK, Listed, Hard
<1>12. ASSUME NEW e \in returns, NEW n \in 0..2, ReceiveReport(e, n) PROVE MailInv'
  <2>1. e.mail \in DOMAIN mails /\ e.kind \in ReportKinds
    BY DEF MailInv, ReturnsOK
  <2>2. Carried
    <3>1. CASE UNCHANGED mails
      BY <3>1, SameCarries
    <3>2. CASE MarkByProviderID(e)
      <4> DEFINE m == [mails[e.mail] EXCEPT !.log = IF @ = "none" THEN @ ELSE e.kind]
      <4>1. /\ m \in Letter /\ m.to = mails[e.mail].to /\ m.early = mails[e.mail].early
            /\ m.early => ~m.handed /\ m.pc \in {"check", "done"}
        BY <1>0, <2>1 DEF Letter, HeldBack
      <4>2. mails' = [mails EXCEPT ![e.mail] = m]
        BY <3>2 DEF MarkByProviderID
      <4> QED
        BY <2>1, <4>1, <4>2, EditCarries
    <3> QED
      BY <1>12, <3>1, <3>2 DEF ReceiveReport
  <2>3. /\ barred \subseteq barred' /\ (n = 2 => mails[e.mail].to \in barred')
        /\ returns' \subseteq returns /\ heard \subseteq heard' /\ heard' \subseteq heard \cup {e}
        /\ e \in heard' \ heard => n = Statements(e)
        /\ UNCHANGED terms
    BY <1>12 DEF ReceiveReport, Final, jobVars
  <2>4. MailsOK' /\ TermsOK' /\ \A i \in DOMAIN mails : mails[i].to \in barred => mails'[i].to \in barred'
    BY <2>2, <2>3, CarriedKeeps DEF MailInv, TermsOK
  <2>5. ReturnsOK'
    BY <2>1, <2>2, <2>3 DEF MailInv, ReturnsOK, Carried
  <2>6. Listed'
    <3> SUFFICES ASSUME NEW x \in heard', Hard(x) PROVE mails'[x.mail].to \in barred'
      BY DEF Listed, Hard
    <3>1. CASE x \in heard
      BY <2>4, <3>1 DEF MailInv, Listed, ReturnsOK
    <3>2. CASE x \notin heard
      <4>1. x = e /\ n = 2
        BY <2>3, <3>2 DEF Statements
      <4> QED
        BY <2>1, <2>2, <2>3, <4>1 DEF Carried
    <3> QED
      BY <3>1, <3>2
  <2> QED
    BY <2>4, <2>5, <2>6 DEF MailInv
<1>13. CASE RunOnce
  <2>1. {u \in Existing(terms) : DueForRenewal(u)} \in SUBSET Subscribers
    BY DEF Existing, MailInv, TermsOK
  <2>2. TermsOK' /\ UNCHANGED listVars
    BY <1>13 DEF RunOnce, TermsOK
  <2> QED
    BY <1>3, <1>13, <2>1, <2>2 DEF RunOnce, Types
<1>14. CASE ExpireLapsed
  <2>1. {u \in Existing(terms) : terms[u].status # "expired" /\ terms[u].over < halfday} \in SUBSET Subscribers
    BY DEF Existing, MailInv, TermsOK
  <2>2. TermsOK' /\ UNCHANGED listVars
    BY <1>14 DEF ExpireLapsed, TermsOK
  <2> QED
    BY <1>3, <1>14, <2>1, <2>2 DEF ExpireLapsed, Types
<1>15. CASE Exit
  <2>1. mails' = [i \in DOMAIN mails |-> [mails[i] EXCEPT !.pc = "done"]] /\ UNCHANGED <<listVars, terms>>
    BY <1>15 DEF Exit
  <2>2. Carried
    <3>1. \A i \in DOMAIN mails : [mails[i] EXCEPT !.pc = "done"] \in Letter
      BY <1>0 DEF Letter
    <3>2. mails' \in Seq(Letter) /\ DOMAIN mails' = DOMAIN mails
      BY <1>0, <2>1, <3>1
    <3> QED
      BY <1>0, <2>1, <3>2 DEF Carried, HeldBack, Letter
  <2> QED
    BY <2>1, <2>2, CalmKeeps DEF MailInv, TermsOK
<1>16. CASE MissRun \/ FailSecondPass \/ NextHalfday \/ \E k \in {"set", "empty", "garbled"} : SaveMailKey(k)
  <2>1. UNCHANGED <<listVars, mails>>
    BY <1>16 DEF MissRun, FailSecondPass, NextHalfday, SaveMailKey
  <2>2. TermsOK'
    BY <1>16 DEF MissRun, FailSecondPass, NextHalfday, SaveMailKey, Unsteady, jobVars, MailInv, TermsOK
  <2> QED
    BY <1>1, <2>1, <2>2
<1>17. CASE UNCHANGED <<servingVars, mailVars>>
  BY <1>1, <1>17 DEF mailVars, jobVars, MailInv, TermsOK
<1> QED
  BY <1>5, <1>6, <1>7, <1>8, <1>9, <1>10, <1>11, <1>12, <1>13, <1>14, <1>15, <1>16, <1>17 DEF MailNext

\* Every bounce or complaint that is no longer repeated is on the suppression
\* list, and no send that begins once its address is listed reaches the
\* provider (email/webhook_responder.go:34, email/repo_pg.go:80).
THEOREM SuppressionAlwaysHolds == MailSpec => []SuppressionHolds
<1>1. MailInv => SuppressionHolds
  BY DEF MailInv, MailsOK, HeldBack, Listed, SuppressionHolds
<1> QED
  BY <1>1, MailInitially, MailStep, PTL DEF MailSpec

-----------------------------------------------------------------------------
(* The reminders.  The job looks three days ahead, give or take half a day, *)
(* and fires every second half-day: a row that ends at an even half-day is  *)
(* in its window once, one that ends at an odd one twice, at both edges.    *)

Term == [status : {"active", "cancelled", "expired"}, over : Nat, steady : BOOLEAN, reminded : Nat]

\* The job fired at every even half-day so far, but for the present one.
ClockOK ==
  /\ halfday \in Nat /\ fired \in Int /\ fired <= halfday
  /\ halfday % 2 = 1 => fired = halfday - 1
  /\ halfday % 2 = 0 => fired = halfday \/ fired = halfday - 2 \/ (halfday = 0 /\ fired = -1)

\* The hours of the job by which a row that ends at over has had its first
\* and its last window.
FirstPast(over) == IF over % 2 = 1 THEN over - 7 ELSE over - 6
LastPast(over)  == IF over % 2 = 1 THEN over - 5 ELSE over - 6

\* A row has as many reminders as windows are past, at most, and one at least
\* when the last is and no run was missed; now is the half-day, ran the one the
\* job fired last.
ReminderOK(t, now, ran) ==
  /\ t.status = "expired" => t.over < now
  /\ t.steady => t.status # "cancelled"
  /\ ran < FirstPast(t.over) => t.reminded = 0
  /\ ran < LastPast(t.over) => t.reminded <= 1
  /\ t.reminded <= (IF t.over % 2 = 1 THEN 2 ELSE 1)
  /\ t.steady /\ ran >= LastPast(t.over) => t.reminded >= 1

RowOK(u) == terms[u] \in Term /\ ReminderOK(terms[u], halfday, fired)

RemindInv == ClockOK /\ terms = [u \in Subscribers |-> terms[u]] /\ \A u \in Existing(terms) : RowOK(u)

LEMMA RemindInitially == MailInit => RemindInv
  BY DEF MailInit, RemindInv, ClockOK, Existing

\* A row that is left alone, or is steady no more, or has run out.
LEMMA ReminderStays ==
  ASSUME NEW now \in Nat, NEW then \in Nat, then >= now, NEW ran \in Int,
         NEW t \in Term, NEW s \in Term, ReminderOK(t, now, ran),
         s.over = t.over, s.reminded = t.reminded, s.steady => t.steady,
         s.status = "expired" => t.status = "expired" \/ s.over < now,
         s.steady => s.status # "cancelled"
  PROVE  ReminderOK(s, then, ran)
<1>1. t.over \in Nat /\ t.reminded \in Nat
  BY DEF Term
<1> QED
  BY <1>1 DEF ReminderOK, FirstPast, LastPast

\* What a run does to a row.
LEMMA RunReminds ==
  ASSUME NEW now \in Nat, NEW ran \in Int, ran = now - 2 \/ (now = 0 /\ ran = -1), now % 2 = 0,
         NEW t \in Term, NEW s \in Term, ReminderOK(t, now, ran),
         s.over = t.over, s.status = t.status, s.steady = t.steady,
         s.reminded = IF t.status = "active" /\ t.over - now \in 5..7 THEN t.reminded + 1
                      ELSE t.reminded
  PROVE  ReminderOK(s, now, now)
<1>1. t.over \in Nat /\ t.reminded \in Nat /\ t.status \in {"active", "cancelled", "expired"}
  BY DEF Term
<1>2. PICK k \in Nat : now = 2 * k
  OBVIOUS
<1>3. CASE t.over % 2 = 1
  <2>1. PICK j \in Nat : t.over = 2 * j + 1
    BY <1>1, <1>3
  <2> QED
    BY <1>1, <1>2, <1>3, <2>1 DEF ReminderOK, FirstPast, LastPast
<1>4. CASE t.over % 2 = 0
  <2>1. PICK j \in Nat : t.over = 2 * j
    BY <1>1, <1>4
  <2> QED
    BY <1>1, <1>2, <1>4, <2>1 DEF ReminderOK, FirstPast, LastPast
<1> QED
  BY <1>1, <1>3, <1>4

\* A new row is before its last window, if it is long enough to be reminded of.
LEMMA NewTerm ==
  ASSUME NEW now \in Nat, NEW ran \in Int, ran <= now, NEW d \in Nat \ {0},
         NEW t \in Term, t.status = "active", t.over = now + d, t.steady <=> d >= Shortest, t.reminded = 0
  PROVE  ReminderOK(t, now, ran)
<1>1. d >= 7 => ran < LastPast(t.over)
  BY DEF LastPast
<1>2. t.over > now /\ (t.steady => d >= 7)
  BY DEF Shortest
<1>3. t.over \in Nat /\ LastPast(t.over) \in Int
  BY DEF LastPast
<1> QED
  BY <1>1, <1>2, <1>3 DEF ReminderOK

\* The job does not fire, and rows are written but none is made.
LEMMA TermsStay ==
  ASSUME RemindInv, UNCHANGED <<halfday, fired>>, terms' = [u \in Subscribers |-> terms'[u]],
         \A u \in Existing(terms)' : u \in Existing(terms) /\ RowOK(u)'
  PROVE  RemindInv'
<1>1. ClockOK'
  BY DEF RemindInv, ClockOK
<1> QED
  BY <1>1 DEF RemindInv

LEMMA TermsSame == ASSUME RemindInv, UNCHANGED <<halfday, fired, terms>> PROVE RemindInv'
  BY DEF RemindInv, ClockOK, Existing, RowOK

LEMMA SubscribeReminds ==
  ASSUME RemindInv, NEW u \in Subscribers, NEW d \in Terms, Subscribe(u, d)
  PROVE  RemindInv'
<1> DEFINE t == [status |-> "active", over |-> halfday + d, steady |-> d >= Shortest, reminded |-> 0]
<1>1. UNCHANGED <<halfday, fired>> /\ terms' = [terms EXCEPT ![u] = t]
  BY DEF Subscribe
<1>2. d \in Nat \ {0} /\ halfday \in Nat /\ fired \in Int /\ fired <= halfday
  BY MailAssumption DEF RemindInv, ClockOK
<1>3. t \in Term /\ t.status = "active" /\ t.over = halfday + d /\ (t.steady <=> d >= Shortest)
      /\ t.reminded = 0
  <2>1. (d >= Shortest) \in BOOLEAN
    BY <1>2 DEF Shortest
  <2>2. ASSUME NEW b \in BOOLEAN, NEW o \in Nat
        PROVE  [status |-> "active", over |-> o, steady |-> b, reminded |-> 0] \in Term
    BY DEF Term
  <2>3. halfday + d \in Nat
    BY <1>2
  <2> QED
    BY <2>1, <2>2, <2>3
<1> HIDE DEF t
<1>4. ReminderOK(t, halfday, fired)
  BY <1>2, <1>3, NewTerm
<1>5. terms' = [v \in Subscribers |-> terms'[v]] /\ terms'[u] = t
      /\ \A v \in Existing(terms)' : v = u \/ (v \in Existing(terms) /\ terms'[v] = terms[v])
  BY <1>1 DEF Existing, RemindInv
<1>6. \A v \in Existing(terms)' : RowOK(v)'
  BY <1>1, <1>3, <1>4, <1>5 DEF RemindInv, RowOK
<1>7. ClockOK'
  BY <1>1 DEF RemindInv, ClockOK
<1> QED
  BY <1>5, <1>6, <1>7 DEF RemindInv

LEMMA UnsubscribeReminds ==
  ASSUME RemindInv, NEW u \in Subscribers, Unsubscribe(u)
  PROVE  RemindInv'
<1> DEFINE t == [[terms[u] EXCEPT !.status = "cancelled"] EXCEPT !.steady = FALSE]
<1>1. UNCHANGED <<halfday, fired>> /\ terms' = [terms EXCEPT ![u] = t] /\ u \in Existing(terms)
  BY DEF Unsubscribe, Existing, RemindInv
<1>2. terms[u] \in Term /\ ReminderOK(terms[u], halfday, fired) /\ halfday \in Nat /\ fired \in Int
  BY <1>1 DEF RemindInv, RowOK, ClockOK
<1>3. /\ t \in Term /\ t.over = terms[u].over /\ t.reminded = terms[u].reminded
      /\ t.steady = FALSE /\ t.status = "cancelled"
  BY <1>2 DEF Term
<1> HIDE DEF t
<1>4. ReminderOK(t, halfday, fired)
  BY <1>2, <1>3, ReminderStays
<1>5. terms' = [v \in Subscribers |-> terms'[v]] /\ terms'[u] = t
      /\ \A v \in Existing(terms)' : v \in Existing(terms) /\ (v # u => terms'[v] = terms[v])
  BY <1>1 DEF Existing, RemindInv
<1>6. \A v \in Existing(terms)' : RowOK(v)'
  BY <1>1, <1>3, <1>4, <1>5 DEF RemindInv, RowOK
<1> QED
  BY <1>1, <1>5, <1>6, TermsStay

LEMMA RunOnceReminds ==
  ASSUME RemindInv, RunOnce
  PROVE  RemindInv'
<1> DEFINE due == {u \in Existing(terms) : DueForRenewal(u)}
<1>1. /\ UNCHANGED halfday /\ fired' = halfday /\ halfday % 2 = 0 /\ fired < halfday
      /\ terms' = [u \in Subscribers |-> IF u \in due THEN [terms[u] EXCEPT !.reminded = @ + 1] ELSE terms[u]]
  BY DEF RunOnce, AtHour
<1>2. halfday \in Nat /\ fired \in Int /\ (fired = halfday - 2 \/ (halfday = 0 /\ fired = -1))
  BY <1>1 DEF RemindInv, ClockOK
<1>3. \A u \in due : u \in Existing(terms)
  OBVIOUS
<1>4. \A u \in Existing(terms)' : u \in Existing(terms) /\ u \in Subscribers
  BY <1>1, <1>3 DEF Existing, RemindInv
<1>5. ASSUME NEW u \in Existing(terms), u \in Subscribers PROVE RowOK(u)'
  <2>1. terms[u] \in Term /\ ReminderOK(terms[u], halfday, fired)
    BY DEF RemindInv, RowOK
  <2>2. u \in due <=> terms[u].status = "active" /\ terms[u].over - halfday \in 5..7
    BY DEF DueForRenewal
  <2>3. terms'[u] = IF u \in due THEN [terms[u] EXCEPT !.reminded = @ + 1] ELSE terms[u]
    BY <1>1, <1>5
  <2> HIDE DEF due
  <2>4. /\ terms'[u] \in Term /\ terms'[u].over = terms[u].over /\ terms'[u].status = terms[u].status
        /\ terms'[u].steady = terms[u].steady
        /\ terms'[u].reminded = IF u \in due THEN terms[u].reminded + 1 ELSE terms[u].reminded
    BY <2>1, <2>3 DEF Term
  <2>5. ReminderOK(terms'[u], halfday, halfday)
    BY <1>1, <1>2, <2>1, <2>2, <2>4, RunReminds
  <2> QED
    BY <1>1, <2>4, <2>5 DEF RowOK
<1>6. ClockOK'
  BY <1>1, <1>2 DEF ClockOK
<1>7. terms' = [u \in Subscribers |-> terms'[u]]
  BY <1>1
<1> QED
  BY <1>4, <1>5, <1>6, <1>7 DEF RemindInv

LEMMA ExpireReminds ==
  ASSUME RemindInv, ExpireLapsed
  PROVE  RemindInv'
<1> DEFINE lapsed == {u \in Existing(terms) : terms[u].status # "expired" /\ terms[u].over < halfday}
<1>1. /\ UNCHANGED <<halfday, fired>>
      /\ terms' = [u \in Subscribers |-> IF u \in lapsed THEN [terms[u] EXCEPT !.status = "expired"] ELSE terms[u]]
  BY DEF ExpireLapsed
<1>2. halfday \in Nat /\ fired \in Int
  BY DEF RemindInv, ClockOK
<1>3. \A u \in Existing(terms)' : u \in Existing(terms) /\ u \in Subscribers
  BY <1>1 DEF Existing, RemindInv
<1>4. ASSUME NEW u \in Existing(terms), u \in Subscribers PROVE RowOK(u)'
  <2>1. terms[u] \in Term /\ ReminderOK(terms[u], halfday, fired)
    BY DEF RemindInv, RowOK
  <2>2. terms'[u] = IF u \in lapsed THEN [terms[u] EXCEPT !.status = "expired"] ELSE terms[u]
    BY <1>1, <1>4
  <2>3. u \in lapsed => terms[u].over < halfday
    OBVIOUS
  <2> HIDE DEF lapsed
  <2>4. /\ terms'[u] \in Term /\ terms'[u].over = terms[u].over /\ terms'[u].steady = terms[u].steady
        /\ terms'[u].reminded = terms[u].reminded
        /\ terms'[u].status = IF u \in lapsed THEN "expired" ELSE terms[u].status
    BY <2>1, <2>2 DEF Term
  <2>5. terms[u].steady => terms[u].status # "cancelled"
    BY <2>1 DEF ReminderOK
  <2>6. ReminderOK(terms'[u], halfday, fired)
    BY <1>2, <2>1, <2>3, <2>4, <2>5, ReminderStays
  <2> QED
    BY <1>1, <2>4, <2>6 DEF RowOK
<1>5. terms' = [u \in Subscribers |-> terms'[u]]
  BY <1>1
<1> QED
  BY <1>1, <1>3, <1>4, <1>5, TermsStay

\* A run is missed: what comes after it proves nothing of the rows there are.
LEMMA MissReminds ==
  ASSUME RemindInv, MissRun
  PROVE  RemindInv'
<1>1. UNCHANGED halfday /\ fired' = halfday /\ terms' = Unsteady /\ halfday % 2 = 0
  BY DEF MissRun, AtHour
<1>2. halfday \in Nat /\ fired \in Int /\ fired <= halfday /\ ClockOK'
  BY <1>1 DEF RemindInv, ClockOK
<1>3. \A u \in Existing(terms)' : u \in Existing(terms) /\ u \in Subscribers
  BY <1>1 DEF Existing, RemindInv, Unsteady
<1>4. ASSUME NEW u \in Existing(terms), u \in Subscribers PROVE RowOK(u)'
  <2>1. terms[u] \in Term /\ ReminderOK(terms[u], halfday, fired) /\ terms[u] # NoRow
    BY DEF RemindInv, RowOK, Existing
  <2>2. terms'[u] = [terms[u] EXCEPT !.steady = FALSE]
    BY <1>1, <1>4, <2>1 DEF Unsteady
  <2>3. /\ terms'[u] \in Term /\ terms'[u].over = terms[u].over /\ terms'[u].steady = FALSE
        /\ terms'[u].reminded = terms[u].reminded /\ terms'[u].status = terms[u].status
    BY <2>1, <2>2 DEF Term
  <2>4. ReminderOK(terms'[u], halfday, halfday)
    <3>1. terms[u].over \in Nat /\ terms[u].reminded \in Nat
      BY <2>1 DEF Term
    <3> QED
      BY <1>1, <1>2, <2>1, <2>3, <3>1 DEF ReminderOK, FirstPast, LastPast
  <2> QED
    BY <1>1, <2>3, <2>4 DEF RowOK
<1>5. terms' = [u \in Subscribers |-> terms'[u]]
  BY <1>1 DEF Unsteady
<1> QED
  BY <1>2, <1>3, <1>4, <1>5 DEF RemindInv

LEMMA HalfdayReminds ==
  ASSUME RemindInv, NextHalfday
  PROVE  RemindInv'
<1>1. halfday' = halfday + 1 /\ UNCHANGED <<fired, terms>> /\ ~AtHour
  BY DEF NextHalfday
<1>2. halfday \in Nat /\ fired \in Int /\ ClockOK'
  BY <1>1 DEF RemindInv, ClockOK, AtHour
<1>3. ASSUME NEW u \in Existing(terms) PROVE RowOK(u)'
  <2>1. terms[u] \in Term /\ ReminderOK(terms[u], halfday, fired)
    BY DEF RemindInv, RowOK
  <2>2. terms[u].steady => terms[u].status # "cancelled"
    BY <2>1 DEF ReminderOK
  <2>3. ReminderOK(terms[u], halfday + 1, fired)
    BY <1>2, <2>1, <2>2, ReminderStays
  <2> QED
    BY <1>1, <2>1, <2>3 DEF RowOK
<1> QED
  BY <1>1, <1>2, <1>3 DEF RemindInv, Existing

LEMMA RemindStep == RemindInv /\ [MailNext]_<<servingVars, mailVars>> => RemindInv'
<1> SUFFICES ASSUME RemindInv, [MailNext]_<<servingVars, mailVars>> PROVE RemindInv'
  OBVIOUS
<1>1. ASSUME NEW u \in Subscribers, SendMail(u) PROVE RemindInv'
  BY <1>1, TermsSame DEF SendMail, jobVars
<1>2. ASSUME NEW i \in DOMAIN mails, IsSuppressed(i) \/ Deliver(i) \/ LogSend(i) PROVE RemindInv'
  BY <1>2, TermsSame DEF IsSuppressed, Deliver, LogSend, Sending, jobVars
<1>3. ASSUME NEW i \in DOMAIN mails, NEW k \in ReportKinds, ReportOn(i, k) PROVE RemindInv'
  BY <1>3, TermsSame DEF ReportOn, jobVars
<1>4. ASSUME NEW e \in returns, RejectReport(e) \/ \E n \in 0..2 : ReceiveReport(e, n) PROVE RemindInv'
  BY <1>4, TermsSame DEF RejectReport, ReceiveReport, jobVars
<1>5. CASE \E k \in {"set", "empty", "garbled"} : SaveMailKey(k)
  BY <1>5, TermsSame DEF SaveMailKey, jobVars
<1>6. CASE FailSecondPass \/ Exit
  BY <1>6, TermsSame DEF FailSecondPass, Exit
<1>7. CASE UNCHANGED <<servingVars, mailVars>>
  BY <1>7, TermsSame DEF mailVars, jobVars
<1> QED
  BY <1>1, <1>2, <1>3, <1>4, <1>5, <1>6, <1>7, SubscribeReminds, UnsubscribeReminds, RunOnceReminds,
     ExpireReminds, MissReminds, HalfdayReminds
  DEF MailNext

\* A subscription that stayed active for three and a half days or more, with no
\* run of the job missed, has had its reminder before it is expired, and none
\* has more than one but that which ends on the edge of two windows
\* (subscription/cron.go:45, subscription/reader.go:236).
THEOREM RemindersAreSent == MailSpec => []RemindedOnce
<1>1. RemindInv => RemindedOnce
  <2> SUFFICES ASSUME RemindInv, NEW u \in Existing(terms)
               PROVE  /\ terms[u].reminded <= (IF terms[u].over % 2 = 1 THEN 2 ELSE 1)
                      /\ (terms[u].status = "expired" /\ terms[u].steady) => terms[u].reminded >= 1
    BY DEF RemindedOnce
  <2>1. terms[u] \in Term /\ ReminderOK(terms[u], halfday, fired)
    BY DEF RemindInv, RowOK
  <2>2. terms[u].over \in Nat
    BY <2>1 DEF Term
  <2>3. terms[u].status = "expired" => fired >= LastPast(terms[u].over)
    BY <2>1, <2>2 DEF RemindInv, ClockOK, ReminderOK, LastPast
  <2> QED
    BY <2>1, <2>3 DEF ReminderOK
<1> QED
  BY <1>1, RemindInitially, RemindStep, PTL DEF MailSpec
-----------------------------------------------------------------------------
(* What a send's log row may say once the provider was handed the message. *)

Unsent == {"suppressed", "skipped", "failed"}
Handed(m) ==
  /\ m.handed => m.pc \in {"log", "done"} /\ m.log \notin Unsent
  /\ m.pc \in {"check", "deliver"} => m.log = "none"
HandedOK == barred \subseteq Subscribers /\ \A i \in DOMAIN mails : Handed(mails[i])

LEMMA HandedInitially == MailInit => HandedOK
  BY DEF MailInit, HandedOK

\* A send is edited.
LEMMA EditHanded ==
  ASSUME MailInv, HandedOK, NEW i \in DOMAIN mails, NEW m, Handed(m), mails' = [mails EXCEPT ![i] = m],
         barred' \subseteq Subscribers
  PROVE  HandedOK'
<1>1. DOMAIN mails' = DOMAIN mails /\ \A j \in DOMAIN mails : mails'[j] = IF j = i THEN m ELSE mails[j]
  BY DEF MailInv, MailsOK
<1> QED
  BY <1>1 DEF HandedOK

\* Messages are added; none of them was handed over yet.
LEMMA PostHanded ==
  ASSUME MailInv, HandedOK, NEW us \in SUBSET Subscribers, NEW type, mails' = Post(us, type), UNCHANGED barred
  PROVE  HandedOK'
<1> DEFINE new == [i \in 1..Cardinality(us) |-> Message(SetToSeq(us)[i], type)]
<1>1. Cardinality(us) \in Nat
  BY MailAssumption, FS_Subset, SetToSeqIsMember
<1>2. new \in Seq({new[i] : i \in 1..Cardinality(us)}) /\ Len(new) = Cardinality(us)
  BY <1>1
<1>3. \A i \in 1..Len(new) : new[i].handed = FALSE /\ new[i].log = "none"
  BY <1>2 DEF Message
<1>4. mails \in Seq(Letter) /\ mails' = mails \o new
  BY DEF MailInv, MailsOK, Post
<1> DEFINE All == Letter \cup {new[i] : i \in 1..Cardinality(us)}
<1>5. mails \in Seq(All) /\ new \in Seq(All)
  <2>1. \A i \in 1..Len(new) : new[i] \in All
    BY <1>2
  <2>2. new = [i \in 1..Len(new) |-> new[i]] /\ Len(new) \in Nat
    BY <1>1, <1>2
  <2> HIDE DEF new, All
  <2>3. new \in Seq(All)
    BY <2>1, <2>2
  <2>4. mails \in Seq(All)
    BY <1>4 DEF All
  <2> QED
    BY <2>3, <2>4
<1> HIDE DEF new, All
<1>6. /\ mails' \in Seq(All) /\ Len(mails') = Len(mails) + Len(new)
      /\ \A i \in 1 .. Len(mails') : mails'[i] = IF i <= Len(mails) THEN mails[i] ELSE new[i - Len(mails)]
  BY <1>4, <1>5, ConcatProperties
<1>7. \A i \in 1..Len(mails') : Handed(mails'[i])
  <2> SUFFICES ASSUME NEW i \in 1..Len(mails') PROVE Handed(mails'[i])
    OBVIOUS
  <2>1. CASE i <= Len(mails)
    BY <1>5, <1>6, <2>1 DEF HandedOK
  <2>2. CASE ~(i <= Len(mails))
    <3>1. i - Len(mails) \in 1..Len(new) /\ mails'[i] = new[i - Len(mails)]
      BY <1>5, <1>6, <2>2
    <3> QED
      BY <1>3, <3>1 DEF Handed
  <2> QED
    BY <2>1, <2>2
<1> QED
  BY <1>6, <1>7 DEF HandedOK

LEMMA HandedStep == MailInv /\ HandedOK /\ [MailNext]_<<servingVars, mailVars>> => HandedOK'
<1> SUFFICES ASSUME MailInv, HandedOK, [MailNext]_<<servingVars, mailVars>> PROVE HandedOK'
  OBVIOUS
<1>0. /\ \A i \in DOMAIN mails : mails[i] \in Letter /\ Handed(mails[i])
      /\ barred \subseteq Subscribers /\ \A u \in Subscribers : {u} \in SUBSET Subscribers
  BY DEF MailInv, MailsOK, HandedOK
<1>1. ASSUME UNCHANGED <<barred, mails>> PROVE HandedOK'
  BY <1>1 DEF HandedOK
<1>2. ASSUME NEW i \in DOMAIN mails, ~mails[i].handed, NEW status, Ends(i, status), UNCHANGED barred
      PROVE  HandedOK'
  <2> DEFINE m == [mails[i] EXCEPT !.pc = "done", !.log = status]
  <2>1. mails' = [mails EXCEPT ![i] = m] /\ ~m.handed /\ m.pc = "done"
    BY <1>0, <1>2 DEF Ends, Letter
  <2> QED
    BY <1>0, <1>2, <2>1, EditHanded DEF Handed
<1>3. ASSUME NEW u \in Subscribers, SendMail(u) PROVE HandedOK'
  BY <1>0, <1>3, PostHanded DEF SendMail, listVars
<1>4. ASSUME NEW u \in Subscribers, Unsubscribe(u) \/ \E d \in Terms : Subscribe(u, d) PROVE HandedOK'
  BY <1>1, <1>4 DEF Subscribe, Unsubscribe, listVars
<1>5. ASSUME NEW i \in DOMAIN mails, IsSuppressed(i) PROVE HandedOK'
  <2>1. ~mails[i].handed /\ UNCHANGED barred /\ mails[i].log = "none"
    BY <1>0, <1>5 DEF IsSuppressed, Sending, Handed, listVars
  <2>2. CASE Ends(i, "suppressed")
    BY <1>2, <2>1, <2>2
  <2>3. CASE mails' = [mails EXCEPT ![i].pc = "deliver"]
    <3> DEFINE m == [mails[i] EXCEPT !.pc = "deliver"]
    <3>1. mails' = [mails EXCEPT ![i] = m] /\ ~m.handed /\ m.log = mails[i].log
      BY <1>0, <2>1, <2>3 DEF Letter
    <3> QED
      BY <1>0, <2>1, <3>1, EditHanded DEF Handed
  <2> QED
    BY <1>5, <2>2, <2>3 DEF IsSuppressed
<1>6. ASSUME NEW i \in DOMAIN mails, Deliver(i) PROVE HandedOK'
  <2>1. ~mails[i].handed /\ UNCHANGED barred /\ mails[i].log = "none"
    BY <1>0, <1>6 DEF Deliver, Sending, Handed, listVars
  <2>2. CASE Ends(i, "skipped") \/ Ends(i, "failed")
    BY <1>2, <2>1, <2>2
  <2>3. CASE mails' = [mails EXCEPT ![i].pc = "log", ![i].handed = TRUE]
    <3> DEFINE m == [mails[i] EXCEPT !.pc = "log", !.handed = TRUE]
    <3>1. mails' = [mails EXCEPT ![i] = m] /\ m.pc = "log" /\ m.log = "none"
      BY <1>0, <2>1, <2>3 DEF Letter
    <3> QED
      BY <1>0, <2>1, <3>1, EditHanded DEF Handed, Unsent
  <2> QED
    BY <1>6, <2>2, <2>3 DEF Deliver
<1>7. ASSUME NEW i \in DOMAIN mails, LogSend(i) PROVE HandedOK'
  <2> DEFINE m == [mails[i] EXCEPT !.pc = "done", !.log = "sent"]
  <2>1. mails' = [mails EXCEPT ![i] = m] /\ m.pc = "done" /\ m.log = "sent" /\ UNCHANGED barred
    BY <1>0, <1>7 DEF LogSend, Sending, Ends, Letter, listVars
  <2> QED
    BY <1>0, <2>1, EditHanded DEF Handed, Unsent
<1>8. ASSUME NEW e \in returns, NEW n \in 0..2, ReceiveReport(e, n) PROVE HandedOK'
  <2>1. e.mail \in DOMAIN mails /\ e.kind \in ReportKinds /\ e.kind \notin Unsent
    BY MailAssumption DEF MailInv, ReturnsOK, Unsent
  <2>2. barred' \subseteq Subscribers
    BY <1>0, <1>8, <2>1 DEF ReceiveReport, Letter
  <2>3. CASE UNCHANGED mails
    BY <2>2, <2>3 DEF HandedOK
  <2>4. CASE MarkByProviderID(e)
    <3> DEFINE m == [mails[e.mail] EXCEPT !.log = IF @ = "none" THEN @ ELSE e.kind]
    <3>1. /\ mails' = [mails EXCEPT ![e.mail] = m] /\ m.pc = mails[e.mail].pc /\ m.handed = mails[e.mail].handed
          /\ m.log = IF mails[e.mail].log = "none" THEN "none" ELSE e.kind
      BY <1>0, <2>1, <2>4 DEF MarkByProviderID, Letter
    <3>2. Handed(m)
      <4> HIDE DEF m
      <4> QED
        BY <1>0, <2>1, <3>1 DEF Handed, Unsent
    <3> QED
      BY <2>1, <2>2, <3>1, <3>2, EditHanded
  <2> QED
    BY <1>8, <2>3, <2>4 DEF ReceiveReport
<1>9. ASSUME \/ \E i \in DOMAIN mails, k \in ReportKinds : ReportOn(i, k)
             \/ \E e \in returns : RejectReport(e)
             \/ \E k \in {"set", "empty", "garbled"} : SaveMailKey(k)
             \/ MissRun \/ FailSecondPass \/ NextHalfday
             \/ UNCHANGED <<servingVars, mailVars>>
      PROVE  HandedOK'
  BY <1>1, <1>9 DEF ReportOn, RejectReport, SaveMailKey, MissRun, FailSecondPass, NextHalfday, mailVars, listVars
<1>10. CASE RunOnce
  <2>1. {u \in Existing(terms) : DueForRenewal(u)} \in SUBSET Subscribers
    BY DEF Existing, MailInv, TermsOK
  <2> QED
    BY <1>10, <2>1, PostHanded DEF RunOnce, listVars
<1>11. CASE ExpireLapsed
  <2>1. {u \in Existing(terms) : terms[u].status # "expired" /\ terms[u].over < halfday} \in SUBSET Subscribers
    BY DEF Existing, MailInv, TermsOK
  <2> QED
    BY <1>11, <2>1, PostHanded DEF ExpireLapsed, listVars
<1>12. CASE Exit
  <2>1. /\ DOMAIN mails' = DOMAIN mails /\ UNCHANGED barred
        /\ \A i \in DOMAIN mails : mails'[i] = [mails[i] EXCEPT !.pc = "done"]
    BY <1>12 DEF Exit, listVars
  <2>2. ASSUME NEW i \in DOMAIN mails PROVE Handed(mails'[i])
    <3>1. mails'[i].handed = mails[i].handed /\ mails'[i].log = mails[i].log /\ mails'[i].pc = "done"
      BY <1>0, <2>1 DEF Letter
    <3> QED
      BY <1>0, <3>1 DEF Handed
  <2> QED
    BY <1>0, <2>1, <2>2 DEF HandedOK
<1> QED
  BY <1>3, <1>4, <1>5, <1>6, <1>7, <1>8, <1>9, <1>10, <1>11, <1>12 DEF MailNext

\* The calendar stays within its bound.
LEMMA HalfdaysBounded == MailInv /\ halfday \in 0..MaxHalfday /\ [MailNext]_<<servingVars, mailVars>> => (halfday \in 0..MaxHalfday)'
<1> SUFFICES ASSUME halfday \in 0..MaxHalfday, [MailNext]_<<servingVars, mailVars>> PROVE halfday' \in 0..MaxHalfday
  OBVIOUS
<1>1. CASE UNCHANGED halfday
  BY <1>1
<1>2. CASE NextHalfday
  BY <1>2, MailAssumption DEF NextHalfday
<1>3. NextHalfday \/ UNCHANGED halfday
  BY DEF MailNext, SendMail, Unsubscribe, Subscribe, IsSuppressed, Deliver, LogSend, Sending, ReportOn, RejectReport,
         ReceiveReport, SaveMailKey, RunOnce, ExpireLapsed, MissRun, FailSecondPass, Exit, mailVars, jobVars
<1> QED
  BY <1>1, <1>2, <1>3

\* A message the provider was handed is never logged as suppressed, skipped or
\* failed, however reports overtake its row (email/service.go, email/repo_pg.go:33);
\* every report names a send, and the job does not run ahead of the clock.
THEOREM MailTyped == MailSpec => []MailTypeOK
<1>1. MailInv /\ RemindInv /\ HandedOK /\ halfday \in 0..MaxHalfday => MailTypeOK
  BY DEF MailInv, ReturnsOK, RemindInv, ClockOK, HandedOK, Handed, Unsent, MailTypeOK
<1>2. MailInit => halfday \in 0..MaxHalfday
  BY MailAssumption DEF MailInit
<1> QED
  BY <1>1, <1>2, MailInitially, MailStep, RemindInitially, RemindStep, HandedInitially, HandedStep, HalfdaysBounded, PTL DEF MailSpec

=============================================================================
