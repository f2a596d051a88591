-------------------------------- MODULE MailProps --------------------------------
(* What the mails and the daily job promise.                               *)
EXTENDS Mail

MailSpec == ServingInit /\ MailInit /\ [][MailNext]_<<servingVars, mailVars>>

\* Types; a message the provider was handed is never on record as suppressed,
\* skipped or failed, whatever happens to its address while it is under way and
\* however its reports overtake the row (LogSend, MarkByProviderID).
MailTypeOK ==
  /\ halfday \in 0..MaxHalfday /\ fired <= halfday
  /\ barred \subseteq Subscribers
  /\ \A e \in returns \cup heard : e.mail \in DOMAIN mails
  /\ \A i \in DOMAIN mails : mails[i].handed => mails[i].log \notin {"suppressed", "skipped", "failed"}

\* A subscription that runs out is announced once: a row that stayed active for
\* three and a half days and more without a run of the job missed has had its
\* reminder before it is expired, and none has two but the one that ends on the
\* very edge of two windows, which are closed at both ends
\* (subscription/cron.go:45, subscription/reader.go:236).
RemindedOnce ==
  \A u \in Existing(terms) :
    LET t == terms[u]
    IN  /\ t.reminded <= (IF t.over % 2 = 1 THEN 2 ELSE 1)
        /\ (t.status = "expired" /\ t.steady) => t.reminded >= 1

\* Nobody who bounced or complained is written to: each such report the
\* provider stops repeating is on the suppression list, however its statements
\* failed before, and no send that begins once the address is listed reaches
\* the provider (email/webhook_responder.go:34, email/repo_pg.go:80).
SuppressionHolds ==
  /\ \A e \in heard : Hard(e) => mails[e.mail].to \in barred
  /\ \A i \in DOMAIN mails : mails[i].early => ~mails[i].handed
=============================================================================
