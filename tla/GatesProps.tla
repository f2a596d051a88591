------------------------------- MODULE GatesProps -------------------------------
(* What the gates promise.                                                 *)
EXTENDS Gates

\* Types; extension tokens are those of accounts that are there: a deletion takes
\* them along (auth.DeleteAccount), and none is minted for somebody who is gone.
GatesTypeOK ==
  /\ clock \in 0..MaxTime
  /\ \A p \in Holders : standing[p] = NoRow \/ standing[p].active \in BOOLEAN
  /\ lifetime \in Lifetimes
  /\ \A t \in jwts : t.use \in {"access", "refresh"} /\ t.sub \in Holders
  /\ extensions \subseteq {u \in Users : standing[u] # NoRow}

Since(p, gate) == IF IF gate = "console" THEN Administers(p, standing[p]) ELSE Member(standing[p])
                  THEN clock ELSE until[p][gate]

GatesSpec == ServingInit /\ GatesInit /\ [][GatesNext]_<<servingVars, gatesVars>>

\* Access lapses: whoever a JWT lets in was an active account, and past the
\* console's gate an active admin, at some moment of the last access lifetime there is.
\* Neither a refresh token, nor a refresh after the deactivation, nor a change
\* of the lifetimes in between carries anyone further (platform/auth/jwt.go:62,
\* auth/usecase.go:182, shared/admin_middleware.go:16).
AccessLapses ==
  (admitted # NoRow /\ admitted.by = "jwt" /\ admitted.gate # "public") =>
    \E l \in Lifetimes \cup {ManagerTTL} : clock - Since(admitted.sub, admitted.gate) <= l
=============================================================================
