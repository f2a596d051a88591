------------------------------ MODULE ConsoleProps ------------------------------
(***************************************************************************)
(* What Console promises.                                                  *)
(***************************************************************************)
EXTENDS Console

ConsoleSpec == ServingInit /\ ConsoleInit /\ [][ConsoleNext]_<<servingVars, consoleVars>>

\* Types; an e-mail has one admin; an admin removed by DELETE is in the audit
\* log, for row and log commit together; a provider's or the settings' secret
\* is never the mask the console shows for it; while there is one settings row
\* it holds the secret asked for last; a hash was taken of the version it is
\* served with; one provider is the default at most, unless two promotions
\* overlapped, and the next promotion on its own repairs that.
ConsoleTypeOK ==
  /\ audit \subseteq AdminIds \X AdminIds /\ sessions \subseteq AdminIds
  /\ {unguarded, rivals} \subseteq BOOLEAN
  /\ \A a, b \in Existing(admins) : admins[a].email = admins[b].email => a = b
  /\ \A a \in Existing(admins) \ ActiveAdmins : unguarded \/ \E b \in AdminIds : <<b, a>> \in audit
  /\ \A p \in Existing(providers) : providers[p].key # "masked"
  /\ Len(settings) = 1 => settings[1].key = wanted /\ settings[1].methods # "unknown"
  /\ \A c \in Existing(releases) : releases[c].sha \in {"", releases[c].version}
  /\ policy \in Channels \cup {NoRow}
  /\ rivals \/ Cardinality(Defaults) <= 1

\* Some admin can still log in, unless a PATCH switched one off or two DELETEs
\* passed the last-admin guard side by side (Delete in admin_users_handler.go).
AdminRemains == unguarded \/ ActiveAdmins # {}

\* Whoever is told that there is nothing, no completion and no update, had
\* everything tried that was on offer all the while: every active provider
\* (DefaultCompleteFull, failoverOrder), both channels (getEffective).
FailoverExhausts == \A w \in Workers : work[w].pc = "nothing" => steady[w] \subseteq work[w].tried
=============================================================================
