----------------------------- MODULE StreamProps -----------------------------
(***************************************************************************)
(* What one streamed rewrite promises.                                     *)
(***************************************************************************)
EXTENDS RewriteStream

\* Two providers' tokens are never spliced, "done" means the whole answer of
\* one provider that ended well, and the response ends, whichever channel of
\* whichever goroutine is seen first (chain/provider.go:66-79).
Ans == INSTANCE Answer WITH Providers <- Leaves
AnswerSpec == Ans!Spec

\* A client that is still there gets an error only when it must: if it has
\* received nothing, every provider failed; otherwise the provider of its tokens
\* failed, and each one before it ("Provider errors BEFORE first token -> log,
\* try next", chain/provider.go:69).
ErrorIsReal ==
  reply = "error" /\ ~gone /\ outcomes # <<"refused">> =>
    LET last == IF delivered = <<>> THEN providers ELSE delivered[1].from
    IN \A p \in 1 .. last : verdict[p] = "failed"

\* Usage and training rows are written for a clean finish and for nothing else,
\* once, with the model that served the answer and its length: no error is
\* overlooked because the token channel was seen closed first
\* (usecase/rewrite.go:176-202), and provenance names the provider that won.  The
\* metric is bumped once, by whichever of its ends the goroutine came to
\* ("exactly once per request lifecycle", rewrite.go:157-159).
LogsCleanFinish ==
  /\ usage <= Len(training) /\ Len(training) <= 1
  /\ \A i \in DOMAIN training :
       LET m == training[i].model
       IN verdict[m] = "clean" /\ training[i].length = sent[m]
  /\ reply = "done" => Len(training) = 1
  /\ Len(outcomes) = IF use.pc = "done" THEN 1 ELSE 0
  /\ reply = "done" => outcomes = <<"ok">>

\* "a goroutine streams tokens + logs usage when the provider closes its
\* stream" (rewrite.go:66-67): a clean finish with the client still there is
\* counted against the daily quota.
CleanFinishIsCounted == outcomes = <<"ok">> /\ ~gone => usage = 1

-----------------------------------------------------------------------------
(***************************************************************************)
(* Every goroutine that can run does: they are goroutines of one process,  *)
(* and an adapter's call ends, at the latest by the HTTP client's timeout. *)
(* The server cancels a request's context once its handler has returned.   *)
(* Nothing is assumed of the client.                                       *)
(***************************************************************************)
Fairness ==
  /\ \A p \in Leaves : WF_vars(Leaf(p)) /\ WF_vars(Drain(p))
  /\ WF_vars(ChainStep) /\ WF_vars(UseStep) /\ WF_vars(HandlerStep)
  /\ WF_vars(handler.pc = "done" /\ ContextDone)

FairSpec == Spec /\ Fairness

\* No goroutine is stranded: whenever the client leaves, a write fails or a
\* provider breaks off, the handler, the use case, the chain and every adapter
\* return ("Leaking either is a goroutine leak on the provider side",
\* domain/ports.go:41-43).
NoneStranded == <>[]Over
=============================================================================
