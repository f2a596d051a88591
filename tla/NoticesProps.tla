------------------------------ MODULE NoticesProps ------------------------------
(***************************************************************************)
(* What Notices promises.                                                  *)
(***************************************************************************)
EXTENDS Notices

NoticesSpec == ServingInit /\ NoticesInit /\ [][NoticesNext]_<<servingVars, noticesVars>>

\* Types; a server that is up has a whole App Store configuration or none.
NoticesTypeOK ==
  /\ DOMAIN keyring = Keyed /\ DOMAIN theirs = Keyed /\ DOMAIN built = Keyed
  /\ bought \subseteq DOMAIN MethodProvider /\ token \in Keys \cup {Unset}
  /\ sent \subseteq Notices /\ acted \subseteq Notices /\ notices \in 0..MaxNotices
  /\ running => (apple.bundle <=> apple.env # "")

\* A notice is acted on only under a secret, or for an App Store environment,
\* the server was given (VerifyWebhook of each strategy); and one that is whole
\* and says something of a purchase is acknowledged without effect only when
\* the webhook secret was unset or PayPal did not say how far a sale reaches.
NoticesHonoured ==
  /\ \A n \in acted : (IF n.from = "apple" THEN n.env ELSE n.key) \in saved
  /\ \A l \in lost : l.why = "unset" \/ (l.why = "lookup" /\ l.n.kind = "sale")
=============================================================================
