----------------------------- MODULE AppleKeysProps -----------------------------
(* What the cache of Apple's keys promises.                                *)
EXTENDS AppleKeys

AppleSpec == ServingInit /\ AppleInit /\ [][AppleNext]_<<servingVars, appleVars>>

\* Types; the keys are fetched by whoever holds the mutex and by nobody else,
\* through failed fetches and restarts (applePublicKey).
AppleTypeOK ==
  /\ published \subseteq 1..issued /\ issued \in published
  /\ cached.keys \subseteq 1..issued
  /\ held # NoRow => work[held].pc = "download"
  /\ \A w \in Workers : work[w].pc = "download" => held = w

\* A rotation of Apple's keys heals.  A token is accepted under a withdrawn key
\* only as long as the cache may live after the withdrawal, and each new key
\* costs at most one genuine sign-in, the one that finds it missing and drops
\* the cache: the next fetches, however the requests, the failed fetches and
\* the restarts fall (auth/social_apple.go:75).
RotationHeals ==
  /\ trusted <= KeysTTL
  /\ misses <= issued - 1
=============================================================================
