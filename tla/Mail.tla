---------------------------------- MODULE Mail ----------------------------------
(***************************************************************************)
(* Transactional e-mail (package email) and the daily job that reminds     *)
(* subscribers and expires lapsed rows (subscription/cron.go).  A send is  *)
(* a goroutine nobody waits for: it looks the address up on the            *)
(* suppression list, resolves the credentials, calls the provider and      *)
(* writes the audit row.  The provider reports what became of a message by *)
(* a webhook it repeats until it is acknowledged, and a report may come    *)
(* before the row it is about.                                             *)
(*                                                                         *)
(* Time is counted in half-days; the job fires at every even one.          *)
(***************************************************************************)
EXTENDS Serving, SequencesExt

CONSTANTS
  Subscribers,       \* users, who stand for their addresses as well
  Terms,             \* lengths of a subscription, in half-days
  EnvMailKey,        \* RESEND_API_KEY is set
  ReportKinds,       \* what the provider reports
  MaxMails, MaxHalfday

ASSUME MailAssumption ==
  /\ Terms \subseteq Nat \ {0} /\ {MaxMails, MaxHalfday} \subseteq Nat
  /\ EnvMailKey \in BOOLEAN /\ IsFiniteSet(Subscribers)
  /\ ReportKinds \cap {"suppressed", "skipped", "failed"} = {}

VARIABLES
  halfday,
  fired,        \* the half-day the job fired last
  cron,         \* "idle", or "expire" between its two passes
  terms,        \* the newest subscription of each user
  mailKey,      \* app_settings.resend_api_key: "set", "empty" or "garbled" (it does not decrypt)
  mails,        \* the sends so far, with the status of their log row
  barred,       \* email_suppressions
  returns,      \* reports the provider will deliver again
  heard         \* observer: the ones it no longer will, having been understood

jobVars  == <<halfday, fired, cron, terms>>
listVars == <<barred, returns, heard>>
mailVars == <<jobVars, listVars, mailKey, mails>>

-----------------------------------------------------------------------------
(* Sending.                                                                *)

\* early is no column: the address was on the list when the send began.
Message(u, type) ==
  [to |-> u, type |-> type, pc |-> "check", log |-> "none", handed |-> FALSE, early |-> u \in barred]
Post(us, type) == mails \o [i \in 1..Cardinality(us) |-> Message(SetToSeq(us)[i], type)]

Others == {i \in DOMAIN mails : mails[i].type = "other"}

\* A handler sends a code, a receipt or a warning and answers.
SendMail(u) ==
  /\ Served("mail") /\ Cardinality(Others) < MaxMails
  /\ mails' = Post({u}, "other")
  /\ UNCHANGED <<jobVars, listVars, mailKey>>

Sending(i, pc) ==
  mails[i].pc = pc /\ "mail" \in ops /\ UNCHANGED <<servingVars, jobVars, listVars, mailKey>>
Ends(i, status) == mails' = [mails EXCEPT ![i].pc = "done", ![i].log = status]

IsSuppressed(i) ==
  /\ Sending(i, "check")
  /\ IF mails[i].to \in barred THEN Ends(i, "suppressed") ELSE mails' = [mails EXCEPT ![i].pc = "deliver"]

\* The setting replaces the environment; one that cannot be read does not fall back.
ResolveCredentials ==
  CASE mailKey = "set" -> TRUE [] mailKey = "empty" -> EnvMailKey [] mailKey = "garbled" -> FALSE

Deliver(i) ==
  /\ Sending(i, "deliver")
  /\ IF ~ResolveCredentials THEN Ends(i, "skipped")
     ELSE Ends(i, "failed") \/ mails' = [mails EXCEPT ![i].pc = "log", ![i].handed = TRUE]

LogSend(i) == Sending(i, "log") /\ Ends(i, "sent")

SaveMailKey(k) ==
  /\ Served("mailKey") /\ mailKey' = k
  /\ UNCHANGED <<jobVars, listVars, mails>>

-----------------------------------------------------------------------------
(* The provider's reports.                                                 *)

Hard(e) == e.kind \in {"bounced", "complained"}
Statements(e) == IF Hard(e) THEN 2 ELSE 1

ReportOn(i, k) ==
  LET e == [mail |-> i, kind |-> k]
  IN  /\ mails[i].handed /\ e \notin returns \cup heard
      /\ returns' = returns \cup {e}
      /\ UNCHANGED <<servingVars, jobVars, mailKey, mails, barred, heard>>

\* The row may not be there yet.
MarkByProviderID(e) ==
  mails' = [mails EXCEPT ![e.mail].log = IF @ = "none" THEN @ ELSE e.kind]

\* Faulty variant: what is not the store's doing is repeated, the rest is not.
FinalStore(why) == why \notin {"bad signature", "stale", "bad payload"}

\* A failure not known to be final is answered by a 5xx, and the report comes again.
Final(why) == why \in {"bad signature", "stale", "bad payload"}

\* n of the statements succeed.
ReceiveReport(e, n) ==
  /\ e \in returns /\ n \in 0..Statements(e)
  /\ IF n >= 1 THEN MarkByProviderID(e) ELSE UNCHANGED mails
  /\ barred' = IF n = 2 THEN barred \cup {mails[e.mail].to} ELSE barred
  /\ LET over == IF n = Statements(e) THEN TRUE ELSE Final("store")
     IN  /\ returns' = IF over THEN returns \ {e} ELSE returns
         /\ heard'   = IF over THEN heard \cup {e} ELSE heard
  /\ UNCHANGED <<servingVars, jobVars, mailKey>>

\* The webhook secret was rotated on one side only.
RejectReport(e) ==
  /\ e \in returns /\ Final("bad signature")
  /\ returns' = returns \ {e}
  /\ UNCHANGED <<servingVars, jobVars, mailKey, mails, barred, heard>>

-----------------------------------------------------------------------------
(* Subscriptions and the daily job.                                        *)

Shortest == 7

\* A grant or a renewal.  steady and reminded are no columns: the row has been
\* active ever since, for long enough, with no run missed; its reminders.
Subscribe(u, d) ==
  /\ Served("subscribe") /\ halfday + d <= MaxHalfday
  /\ terms' = [terms EXCEPT ![u] = [status |-> "active", over |-> halfday + d,
                                    steady |-> d >= Shortest, reminded |-> 0]]
  /\ UNCHANGED <<halfday, fired, cron, listVars, mailKey, mails>>

Unsubscribe(u) ==
  /\ Served("subscribe") /\ terms[u] # NoRow /\ terms[u].status = "active"
  /\ terms' = [terms EXCEPT ![u].status = "cancelled", ![u].steady = FALSE]
  /\ UNCHANGED <<halfday, fired, cron, listVars, mailKey, mails>>

\* Faulty variant: the window is wider than two runs are apart.
DueTwice(u) == terms[u].status = "active" /\ terms[u].over - halfday \in 5..8

\* now + 2.5 days <= expires_at <= now + 3.5 days.
DueForRenewal(u) == terms[u].status = "active" /\ terms[u].over - halfday \in 5..7

AtHour == halfday % 2 = 0 /\ fired < halfday

\* First pass: the reminders.
RunOnce ==
  /\ AtHour
  /\ LET due == {u \in Existing(terms) : DueForRenewal(u)}
     IN  /\ mails' = Post(due, "reminder")
         /\ terms' = [u \in Subscribers |-> IF u \in due THEN [terms[u] EXCEPT !.reminded = @ + 1] ELSE terms[u]]
  /\ fired' = halfday /\ cron' = "expire"
  /\ UNCHANGED <<servingVars, halfday, listVars, mailKey>>

\* Second pass: one statement, then a message to each.
ExpireLapsed ==
  /\ cron = "expire"
  /\ LET lapsed == {u \in Existing(terms) : terms[u].status # "expired" /\ terms[u].over < halfday}
     IN  /\ terms' = [u \in Subscribers |-> IF u \in lapsed THEN [terms[u] EXCEPT !.status = "expired"] ELSE terms[u]]
         /\ mails' = Post(lapsed, "expired")
  /\ cron' = "idle"
  /\ UNCHANGED <<servingVars, halfday, fired, listVars, mailKey>>

Unsteady == [u \in Subscribers |-> IF terms[u] = NoRow THEN NoRow ELSE [terms[u] EXCEPT !.steady = FALSE]]

\* The process is down at the hour, or the first statement fails: no run today.
MissRun ==
  /\ AtHour /\ aborts < MaxAborts /\ aborts' = aborts + 1
  /\ fired' = halfday /\ terms' = Unsteady
  /\ UNCHANGED <<ops, work, requests, halfday, cron, listVars, mailKey, mails>>

\* The second statement fails.
FailSecondPass ==
  /\ cron = "expire" /\ aborts < MaxAborts
  /\ aborts' = aborts + 1 /\ cron' = "idle"
  /\ UNCHANGED <<ops, work, requests, halfday, fired, terms, listVars, mailKey, mails>>

\* The process exits, with its goroutines.
Exit ==
  /\ aborts < MaxAborts /\ aborts' = aborts + 1
  /\ cron' = "idle"
  /\ mails' = [i \in DOMAIN mails |-> [mails[i] EXCEPT !.pc = "done"]]
  /\ UNCHANGED <<ops, work, requests, halfday, fired, terms, listVars, mailKey>>

NextHalfday ==
  /\ "subscribe" \in ops /\ halfday < MaxHalfday
  /\ ~AtHour /\ cron = "idle"
  /\ halfday' = halfday + 1
  /\ UNCHANGED <<servingVars, fired, cron, terms, listVars, mailKey, mails>>

-----------------------------------------------------------------------------
MailInit ==
  /\ halfday = 0 /\ fired = -1 /\ cron = "idle"
  /\ terms = [u \in Subscribers |-> NoRow]
  /\ mailKey = "empty" /\ mails = <<>>
  /\ barred = {} /\ returns = {} /\ heard = {}

MailNext ==
  \/ \E u \in Subscribers :
       SendMail(u) \/ Unsubscribe(u) \/ \E d \in Terms : Subscribe(u, d)
  \/ \E i \in DOMAIN mails :
       \/ IsSuppressed(i) \/ Deliver(i) \/ LogSend(i)
       \/ \E k \in ReportKinds : ReportOn(i, k)
  \/ \E e \in returns : RejectReport(e) \/ \E n \in 0..2 : ReceiveReport(e, n)
  \/ \E k \in {"set", "empty", "garbled"} : SaveMailKey(k)
  \/ RunOnce \/ ExpireLapsed \/ MissRun \/ FailSecondPass \/ Exit \/ NextHalfday
=============================================================================
