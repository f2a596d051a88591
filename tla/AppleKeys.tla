------------------------------- MODULE AppleKeys -------------------------------
(***************************************************************************)
(* Sign in with Apple (auth/social_apple.go): the process-wide cache of    *)
(* Apple's signing keys, guarded by one mutex that is held while the keys  *)
(* are fetched, while Apple publishes new keys and withdraws old ones and  *)
(* identity tokens signed with any of them arrive.                         *)
(***************************************************************************)
EXTENDS Serving

CONSTANTS
  MaxKeys,        \* Apple's keys are 1..MaxKeys, published in this order
  KeysTTL,        \* 24 hours
  MaxHour

ASSUME AppleKeysAssumption ==
  MaxKeys \in Nat \ {0} /\ KeysTTL \in Nat /\ MaxHour \in Nat /\ NoRow \notin Workers

VARIABLES
  hour,
  published,      \* what Apple's endpoint answers now
  issued,         \* the keys published so far
  withdrawn,      \* observer: when a key was withdrawn
  cached,         \* [keys, until]
  held,           \* the mutex: the worker that holds it, or NoRow
  trusted,       \* observer: the longest a withdrawn key was accepted after its withdrawal
  misses          \* observer: tokens refused although their key was published

appleVars == <<hour, published, issued, withdrawn, cached, held, trusted, misses>>
upstream == <<hour, published, issued, withdrawn>>

-----------------------------------------------------------------------------
(* One sign-in.                                                            *)

\* Any key a token may still be signed with; a key is not published yet, or no
\* longer, for some.
VerifyApple(w, kid) ==
  /\ Begin(w, "apple", [pc |-> "lock", kid |-> kid])
  /\ UNCHANGED appleVars

\* Faulty variant: the keys stay after a miss.
BustNothing(keys, kid) == keys

\* A kid that is not there drops the cache; there is no second try.
Bust(keys, kid) == IF kid \in keys.keys THEN keys ELSE [keys EXCEPT !.keys = {}]

\* The look-up in the keys of the cache, and the unlock.
LookUp(w, keys) ==
  LET kid == work[w].kid
  IN  /\ cached' = Bust(keys, kid)
      /\ trusted' = IF kid \in keys.keys /\ hour - withdrawn[kid] > trusted THEN hour - withdrawn[kid] ELSE trusted
      /\ misses' = IF kid \in published \ keys.keys THEN misses + 1 ELSE misses
      /\ held' = NoRow /\ Finish(w)

\* No keys, or keys past their time.
Stale == cached.keys = {} \/ cached.until < hour

Lock(w) ==
  /\ At(w, "lock") /\ held = NoRow /\ Stale
  /\ held' = w /\ Goto(w, [work[w] EXCEPT !.pc = "download"])
  /\ UNCHANGED <<upstream, cached, trusted, misses>>

ApplePublicKey(w) ==
  /\ At(w, "lock") /\ held = NoRow /\ ~Stale
  /\ LookUp(w, cached)
  /\ UNCHANGED upstream

Fetched(keys) == [keys |-> keys, until |-> hour + KeysTTL]

FetchAppleKeys(w) ==
  /\ At(w, "download")
  /\ LookUp(w, Fetched(published))
  /\ UNCHANGED upstream

\* The endpoint fails or the client is gone: what was cached stays.
FetchFails(w) ==
  /\ At(w, "download") /\ held' = NoRow /\ Finish(w)
  /\ UNCHANGED <<upstream, cached, trusted, misses>>

-----------------------------------------------------------------------------
(* Apple, the clock and the process.                                       *)

Publish ==
  /\ "apple" \in ops /\ issued < MaxKeys
  /\ issued' = issued + 1 /\ published' = published \cup {issued + 1}
  /\ UNCHANGED <<servingVars, hour, withdrawn, cached, held, trusted, misses>>

Withdraw(kid) ==
  /\ kid < issued
  /\ published' = published \ {kid} /\ withdrawn' = [withdrawn EXCEPT ![kid] = hour]
  /\ UNCHANGED <<servingVars, hour, issued, cached, held, trusted, misses>>

Hour ==
  /\ "apple" \in ops /\ hour < MaxHour /\ hour' = hour + 1
  /\ UNCHANGED <<servingVars, published, issued, withdrawn, cached, held, trusted, misses>>

\* A restart forgets the keys and the requests.
AppleRestart ==
  /\ "apple" \in ops /\ aborts < MaxAborts /\ aborts' = aborts + 1
  /\ work' = [w \in Workers |-> Idle] /\ held' = NoRow
  /\ cached' = [cached EXCEPT !.keys = {}]
  /\ UNCHANGED <<ops, requests, upstream, trusted, misses>>

-----------------------------------------------------------------------------
AppleInit ==
  /\ hour = 0 /\ published = {1} /\ issued = 1 /\ withdrawn = [k \in 1..MaxKeys |-> MaxHour]
  /\ cached = [keys |-> {}, until |-> 0] /\ held = NoRow
  /\ trusted = 0 /\ misses = 0

AppleNext ==
  \/ \E w \in Workers : \/ \E kid \in 1..issued : VerifyApple(w, kid)
                        \/ Lock(w) \/ ApplePublicKey(w) \/ FetchAppleKeys(w) \/ FetchFails(w)
  \/ \E kid \in published : Withdraw(kid)
  \/ Publish \/ Hour \/ AppleRestart
=============================================================================
