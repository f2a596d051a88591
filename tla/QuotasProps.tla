------------------------------ MODULE QuotasProps ------------------------------
(***************************************************************************)
(* What Quotas promises.                                                   *)
(***************************************************************************)
EXTENDS Quotas

QuotasSpec == ServingInit /\ QuotasInit /\ [][QuotasNext]_<<servingVars, quotasVars>>

\* Types; no address is let in for more trials a day than the limit and the
\* requests for which Redis was in error (TrialRewrite fails open); whoever
\* switched personalisation off, with no write of theirs under way, has it off
\* whatever else they change about the profile (Put merges).
QuotasTypeOK ==
  /\ \A u \in Callers :
       /\ {logged[u], rate[u], streamed[u], unlogged[u]} \subseteq 0..MaxRequests /\ allowance[u] \in Nat
       /\ subs[u] # NoRow => subs[u].plan \in Existing(plans)
  /\ \A ip \in Addresses : tried[ip] <= Min({trial[ip], TrialLimit}) + opened[ip]
  /\ \A i \in Existing(samples) : samples[i] \in {"pending", "approved", "any"}
  /\ \A u \in private : profiles[u] # NoRow => ~profiles[u].enabled

\* The daily limit bounds the streams a user finishes in a day: what gets past
\* it are the requests in flight together, each of which read the count before
\* the others logged (Execute, CheckQuota), the streams let in before midnight,
\* and streams whose usage row the database refused.
QuotaBounded ==
  \A u \in Callers : streamed[u] <= allowance[u] + Cardinality(Workers) - 1 + unlogged[u]
=============================================================================
