----------------------------- MODULE AccountTables -----------------------------
(***************************************************************************)
(* The tables behind sign-in: users, the rows other tables keep for a      *)
(* user, extension_tokens and user_contexts, and the statements the auth,  *)
(* user, exttoken and usercontext packages run on them.                    *)
(*                                                                         *)
(* A mailed six-digit code is a fresh number, 0 standing for NULL: two     *)
(* codes are equal only when they are the same code.  A password and its   *)
(* hash are the same model value.                                          *)
(***************************************************************************)
EXTENDS Integers, FiniteSets, SecretCipher

CONSTANTS
  MaxUsers,      \* bound on accounts ever created; ids are not reused
  Addresses,     \* spellings of e-mail addresses
  Normal,        \* the lower-cased, trimmed spelling of each
  Passwords,
  SocialIds,     \* identities at the social providers
  Devices,
  NoRow, None

Ids == 1..MaxUsers

ASSUME AddressAssumption ==
  /\ Normal \in [Addresses -> Addresses]
  /\ \A e \in Addresses : Normal[Normal[e]] = Normal[e]
ASSUME IdAssumption == MaxUsers \in Nat /\ NoRow \notin Nat /\ None \notin Passwords

SocialKinds == {"google", "facebook", "tiktok", "apple"}
Providers   == SocialKinds \cup {"local"}

Code   == [n : Nat, until : Nat]
NoCode == [n |-> 0, until |-> 0]

User ==
  [email : Addresses, pw : Passwords \cup {None}, provider : Providers,
   social : SUBSET (SocialKinds \X SocialIds), active : BOOLEAN,
   verified : BOOLEAN, vcode : Code, rcode : Code, attempts : Nat]

(***************************************************************************)
(* Tables whose rows refer to a user.  The foreign keys of the first group *)
(* refuse to lose their user; those of the second go with the user or are  *)
(* set to NULL by the database.                                            *)
(***************************************************************************)
Holding   == {"payments", "usage_logs", "subscriptions", "bug_reports"}
Yielding  == {"extension_tokens", "feature_votes", "error_reports"}
Anonymous == {"bug_reports", "error_reports"}     \* the row stays, user_id NULL

Row   == [table : Holding \cup Yielding, user : Ids, n : Nat]
Token == [user : Ids, device : Devices, n : Nat, revoked : BOOLEAN]

CONSTANT Texts      \* values of a field of the writing profile
Profile == [job : Texts, notes : Sealed(Texts)]
NoProfile == [job |-> Blank, notes |-> Plain(Blank)]

ASSUME TextAssumption == Blank \in Texts /\ NoKey \in Keys
-----------------------------------------------------------------------------
(***************************************************************************)
(* users.                                                                  *)
(***************************************************************************)
Existing(us) == {u \in Ids : us[u] # NoRow}

GetAuthUserByEmail(us, e) == {u \in Existing(us) : us[u].email = e}

GetAuthUserByID(us, u) == {u} \cap Existing(us)

\* The projection with the codes; the callers normalise the address.
GetUserAuthState(us, e) == {u \in Existing(us) : us[u].email = Normal[e]}

\* Faulty variant: only accounts created with that provider are looked at.
FindBySocialProvider(us, kind, id) ==
  {u \in Existing(us) : us[u].provider = kind /\ <<kind, id>> \in us[u].social}

FindBySocialId(us, kind, id) == {u \in Existing(us) : <<kind, id>> \in us[u].social}

\* email and every social id but Apple's are unique.
Fits(us, u, r) ==
  \A v \in Existing(us) \ {u} :
    /\ us[v].email # r.email
    /\ \A s \in r.social \cap us[v].social : s[1] = "apple"

\* A new row is active and its columns default as the schema says.
CreateUser(email, pw, provider, social, verified, code) ==
  [email |-> email, pw |-> pw, provider |-> provider, social |-> social,
   active |-> TRUE, verified |-> verified, vcode |-> code, rcode |-> NoCode,
   attempts |-> 0]

UpdateUserVerification(r, on, code)  == [r EXCEPT !.verified = on, !.vcode = code]
SetEmailVerificationCode(r, code)    == [r EXCEPT !.vcode = code]
SetPasswordResetCode(r, code, tries) == [r EXCEPT !.rcode = code, !.attempts = tries]
SetPasswordResetAttempts(r, tries)   == [r EXCEPT !.attempts = tries]
UpdateUserPasswordHash(r, pw)        == [r EXCEPT !.pw = pw]
ResetPasswordHash(r, pw) == [r EXCEPT !.pw = pw, !.rcode = NoCode, !.attempts = 0]

\* Faulty variant: the id goes into a column of no provider.
LinkSocialBare(r, kind, id) == [r EXCEPT !.social = @ \cup {id}, !.verified = TRUE]

LinkSocial(r, kind, id) ==
  [r EXCEPT !.social = {s \in @ : s[1] # kind} \cup {<<kind, id>>}, !.verified = TRUE]

(***************************************************************************)
(* A patch names the columns it sets; the first query that covers one of   *)
(* them runs and the other columns of the patch are dropped.               *)
(***************************************************************************)
Update(r, patch) ==
  LET set == DOMAIN patch
  IN  IF "vcode" \in set THEN
        IF "verified" \in set
        THEN UpdateUserVerification(r, patch.verified, patch.vcode)
        ELSE SetEmailVerificationCode(r, patch.vcode)
      ELSE IF "rcode" \in set THEN SetPasswordResetCode(r, patch.rcode, patch.attempts)
      ELSE IF "attempts" \in set THEN SetPasswordResetAttempts(r, patch.attempts)
      ELSE IF "pw" \in set THEN ResetPasswordHash(r, patch.pw)
      ELSE LinkSocial(r, patch.kind, patch.social)

(***************************************************************************)
(* extension_tokens.                                                       *)
(***************************************************************************)
FindActiveTokenByHash(ts, t) == {x \in ts : x.n = t.n /\ ~x.revoked}

ListActiveTokens(ts, u) == {x \in ts : x.user = u /\ ~x.revoked}

Revoke(ts, R) == (ts \ R) \cup {[x EXCEPT !.revoked = TRUE] : x \in R}

\* Faulty variant: the tokens of the user's other devices go too.
RevokeActiveTokensOfUser(ts, u, d) == Revoke(ts, {x \in ts : x.user = u})

RevokeActiveTokensForDevice(ts, u, d) ==
  Revoke(ts, {x \in ts : x.user = u /\ x.device = d})

RevokeTokenByID(ts, n, u) == Revoke(ts, {x \in ts : x.n = n /\ x.user = u})

\* At most one active token for a user's device.
TokenFits(ts, u, d) == \A x \in ts : x.user = u /\ x.device = d => x.revoked
=============================================================================
