---------------------------- MODULE RewriteStream ----------------------------
(***************************************************************************)
(* One POST /v1/rewrite: the goroutines that carry an answer from an AI    *)
(* provider to the client, and the channels between them.                  *)
(*                                                                         *)
(*   adapter p  ->  chain (two or more providers)  ->  use case  ->  handler *)
(*                                                                         *)
(* Each arrow is a pair of Go channels: tokens, unbuffered, and errors,    *)
(* with room for one.  An unbuffered send is an offer: the sender goes no  *)
(* further until the receiver has taken the token or the sender's select   *)
(* has withdrawn it because the request's context is done.  A goroutine    *)
(* that returns closes its error channel and then its token channel, two   *)
(* deferred calls run in reverse order.                                    *)
(***************************************************************************)
EXTENDS Naturals, Sequences

CONSTANTS
  MaxProviders,   \* the longest chain configured (AI_PROVIDERS)
  MaxTokens,      \* a provider's answer has at most this many tokens
  InsertMayFail   \* the usage_logs insert may fail for reasons of its own

ASSUME StreamAssumption ==
  MaxProviders \in Nat \ {0} /\ MaxTokens \in Nat /\ InsertMayFail \in BOOLEAN

Leaves == 1 .. MaxProviders
Use    == 0                     \* the channels the use case returns
Chain  == MaxProviders + 1      \* the channels the chain returns
Links  == 0 .. MaxProviders + 1

Tokens  == [from : Leaves, n : 1 .. MaxTokens]
Errors  == {"provider", "canceled", "exhausted"}
Verdicts == {"none", "clean", "failed", "canceled"}

VARIABLES
  providers,  \* how many providers are configured
  sse,        \* the client asked for text/event-stream
  gone,       \* the request's context is done
  link,       \* the channels of every producing goroutine, by producer
  sent,       \* tokens an adapter has read from its provider
  verdict,    \* how an adapter's stream ended
  chain,      \* the chain's goroutine: where it is in tryOne
  drained,    \* adapters whose tokens a drain goroutine consumes
  use,        \* the use case's goroutine
  served,     \* provenance: the adapter that stamped last
  usage,      \* usage_logs rows written
  training,   \* what the training log received: provenance and length
  outcomes,   \* metric outcomes recorded
  handler,    \* the HTTP handler
  delivered,  \* tokens written to the client, or collected for its JSON
  reply       \* how the response ended

vars == <<providers, sse, gone, link, sent, verdict, chain, drained, use,
          served, usage, training, outcomes, handler, delivered, reply>>

leafVars == <<sent, verdict>>
useVars  == <<use, usage, training, outcomes>>
outVars  == <<handler, delivered, reply>>
config   == <<providers, sse>>

TypeOK ==
  /\ providers \in Leaves
  /\ sse \in BOOLEAN /\ gone \in BOOLEAN
  /\ link \in [Links -> [state : {"idle", "open", "returning", "errsClosed", "closed"},
                         offer : SUBSET Tokens, err : SUBSET Errors]]
  /\ sent \in [Leaves -> 0 .. MaxTokens]
  /\ verdict \in [Leaves -> Verdicts]
  /\ chain \in [pc : {"next", "select", "done"}, at : 0 .. MaxProviders,
                committed : BOOLEAN, toksOpen : BOOLEAN, errsOpen : BOOLEAN]
  /\ drained \subseteq Leaves
  /\ use \in [pc : {"preflight", "select", "log", "done"}, errsOpen : BOOLEAN,
              count : 0 .. MaxProviders * MaxTokens]
  /\ served \in 0 .. MaxProviders
  /\ usage \in Nat
  /\ training \in Seq([model : Leaves, length : Nat])
  /\ outcomes \in Seq({"refused", "ok", "provider_failed", "client_gone"})
  /\ handler \in [pc : {"select", "drain", "done"}, errsOpen : BOOLEAN]
  /\ delivered \in Seq(Tokens)
  /\ reply \in {"none", "done", "error", "gone"}

-----------------------------------------------------------------------------
(***************************************************************************)
(* Channels.                                                               *)
(***************************************************************************)
Closed(c)     == link[c].state = "closed"
ErrsClosed(c) == link[c].state \in {"errsClosed", "closed"} /\ link[c].err = {}
Free(c)       == link[c].state = "open" /\ link[c].offer = {}

\* A token taken from c is offered on d, in one select and the next.
Forward(c, d) ==
  link' = [link EXCEPT ![c].offer = {}, ![d].offer = link[c].offer]

\* The goroutine behind c puts E on its error channel and returns; a token it
\* was still offering is withdrawn.
Return(l, c, E) ==
  [l EXCEPT ![c].state = "returning", ![c].offer = {}, ![c].err = E]

\* Stream makes the channels of c and starts its goroutine.
Open(l, c) == [l EXCEPT ![c].state = "open"]

\* The deferred closes, last deferred first: errors, then tokens.
NextClose(s) == IF s = "returning" THEN "errsClosed" ELSE "closed"

CloseStep(c) ==
  /\ link[c].state \in {"returning", "errsClosed"}
  /\ link' = [link EXCEPT ![c].state = NextClose(@)]
  /\ UNCHANGED <<config, gone, leafVars, chain, drained, useVars, served, outVars>>

-----------------------------------------------------------------------------
(***************************************************************************)
(* An adapter: one streaming call to a provider.                           *)
(***************************************************************************)
LeafUnchanged == UNCHANGED <<config, gone, chain, drained, useVars, served, outVars>>

LeafEmit(p) ==
  /\ Free(p) /\ sent[p] < MaxTokens
  /\ sent' = [sent EXCEPT ![p] = @ + 1]
  /\ link' = [link EXCEPT ![p].offer = {[from |-> p, n |-> sent[p] + 1]}]
  /\ UNCHANGED verdict /\ LeafUnchanged

LeafEnd(p, v, E) ==
  /\ link' = Return(link, p, E)
  /\ verdict' = [verdict EXCEPT ![p] = v]
  /\ UNCHANGED sent /\ LeafUnchanged

\* The terminal marker was read, or the body ended.
LeafFinish(p) == Free(p) /\ LeafEnd(p, "clean", {})

\* The call failed, answered with an error status, or broke off.
LeafFail(p) == Free(p) /\ LeafEnd(p, "failed", {"provider"})

\* The context is done: seen between two lines or while offering a token.
LeafCanceled(p) ==
  gone /\ link[p].state = "open" /\ LeafEnd(p, "canceled", {"canceled"})

Leaf(p) ==
  LeafEmit(p) \/ LeafFinish(p) \/ LeafFail(p) \/ LeafCanceled(p) \/ CloseStep(p)

-----------------------------------------------------------------------------
(***************************************************************************)
(* The failover chain.                                                     *)
(***************************************************************************)
ChainUnchanged == UNCHANGED <<config, gone, leafVars, useVars, outVars>>

\* Faulty variant: off by one, the last fallback is never tried.
AnyLeftButLast == chain.at + 1 < providers

AnyLeft == chain.at < providers

\* The next provider's Stream: it stamps its model and starts its goroutine.
ChainTry ==
  /\ chain.pc = "next" /\ AnyLeft
  /\ chain' = [pc |-> "select", at |-> chain.at + 1,
               committed |-> FALSE, toksOpen |-> TRUE, errsOpen |-> TRUE]
  /\ link' = Open(link, chain.at + 1)
  /\ served' = chain.at + 1
  /\ UNCHANGED drained /\ ChainUnchanged

ChainReturn(l, E) ==
  /\ link' = Return(l, Chain, E)
  /\ chain' = [chain EXCEPT !.pc = "done"]

ChainExhausted ==
  /\ chain.pc = "next" /\ ~AnyLeft
  /\ ChainReturn(link, {"exhausted"})
  /\ UNCHANGED <<drained, served>> /\ ChainUnchanged

\* The outer select of tryOne, reached when the last token was taken.
Selecting ==
  /\ chain.pc = "select" /\ link[Chain].offer = {}
  /\ chain.toksOpen \/ chain.errsOpen

ChainToken ==
  /\ Selecting /\ chain.toksOpen
  /\ link[chain.at].offer # {}
  /\ Forward(chain.at, Chain)
  /\ chain' = [chain EXCEPT !.committed = TRUE]
  /\ UNCHANGED <<drained, served>> /\ ChainUnchanged

ChainToksClosed ==
  /\ Selecting /\ chain.toksOpen /\ Closed(chain.at)
  /\ chain' = [chain EXCEPT !.toksOpen = FALSE]
  /\ UNCHANGED <<link, drained, served>> /\ ChainUnchanged

ChainErrsClosed ==
  /\ Selecting /\ chain.errsOpen /\ ErrsClosed(chain.at)
  /\ chain' = [chain EXCEPT !.errsOpen = FALSE]
  /\ UNCHANGED <<link, drained, served>> /\ ChainUnchanged

\* Both channels have closed without an error.
ChainClean ==
  /\ chain.pc = "select" /\ link[Chain].offer = {}
  /\ ~chain.toksOpen /\ ~chain.errsOpen
  /\ ChainReturn(link, {})
  /\ UNCHANGED <<drained, served>> /\ ChainUnchanged

\* Faulty variant: failover after the first token as well.
MayFailOverAlways == ~gone

\* May the chain still try another provider after an error?
MayFailOver == ~gone /\ ~chain.committed

\* The provider's error: it is fatal once a token has been passed on.
ChainError ==
  /\ Selecting /\ chain.errsOpen
  /\ link[chain.at].err # {}
  /\ drained' = drained \cup {chain.at}
  /\ LET e    == link[chain.at].err
         rest == [link EXCEPT ![chain.at].err = {}]
     IN \/ MayFailOver /\ link' = rest /\ chain' = [chain EXCEPT !.pc = "next"]
        \/ ~MayFailOver /\ ChainReturn(rest, IF gone THEN {"canceled"} ELSE e)
  /\ UNCHANGED served /\ ChainUnchanged

\* Faulty variant: no context case in the send, only in the outer select.
ChainCanceledOutside ==
  /\ gone /\ chain.pc = "select" /\ (chain.toksOpen \/ chain.errsOpen)
  /\ link[Chain].offer = {}
  /\ ChainReturn(link, {"canceled"})
  /\ drained' = drained \cup {chain.at}
  /\ UNCHANGED served /\ ChainUnchanged

\* The context is done, in the outer select or while a token is offered.
\* Nothing reads the error channel of the abandoned adapter any more.
ChainCanceled ==
  /\ gone /\ chain.pc = "select" /\ (chain.toksOpen \/ chain.errsOpen)
  /\ ChainReturn(link, {"canceled"})
  /\ drained' = IF link[Chain].offer = {} THEN drained \cup {chain.at} ELSE drained
  /\ UNCHANGED served /\ ChainUnchanged

ChainStep ==
  \/ ChainTry \/ ChainExhausted \/ ChainToken \/ ChainToksClosed \/ ChainErrsClosed
  \/ ChainClean \/ ChainError \/ ChainCanceled \/ CloseStep(Chain)

\* A drain goroutine takes what an abandoned adapter still offers.
Drain(p) ==
  /\ p \in drained /\ link[p].offer # {}
  /\ link' = [link EXCEPT ![p].offer = {}]
  /\ UNCHANGED <<config, gone, leafVars, chain, drained, useVars, served, outVars>>

-----------------------------------------------------------------------------
(***************************************************************************)
(* The use case.                                                           *)
(***************************************************************************)
UseUnchanged == UNCHANGED <<config, gone, leafVars, drained>>

\* A single configured provider is used as it is, without a chain.
Source == IF providers = 1 THEN 1 ELSE Chain

\* Rate limit, user and quota: refused before any channel exists.
UseRefuse ==
  /\ use.pc = "preflight"
  /\ use' = [use EXCEPT !.pc = "done"]
  /\ outcomes' = Append(outcomes, "refused")
  /\ handler' = [handler EXCEPT !.pc = "done"]
  /\ reply' = "error"
  /\ UNCHANGED <<config, gone, link, leafVars, chain, drained, served, usage, training, delivered>>

\* Faulty variant: only a chain's providers leave their model.
NotStamped == served

\* A single provider stamps its model when its Stream is called.
Stamped == IF Source = 1 THEN 1 ELSE served

UseAdmit ==
  /\ use.pc = "preflight"
  /\ use' = [use EXCEPT !.pc = "select"]
  /\ link' = Open(Open(link, Source), Use)
  /\ served' = Stamped
  /\ chain' = IF Source = Chain THEN [chain EXCEPT !.pc = "next"] ELSE chain
  /\ UNCHANGED <<usage, training, outcomes, outVars>> /\ UseUnchanged

UseSelecting == use.pc = "select" /\ link[Use].offer = {}

UseToken ==
  /\ UseSelecting /\ link[Source].offer # {}
  /\ Forward(Source, Use)
  /\ use' = [use EXCEPT !.count = @ + 1]
  /\ UNCHANGED <<chain, served, usage, training, outcomes, outVars>> /\ UseUnchanged

\* recordOutcome, then the error on the channel and the return.
UseEnd(outcome, E) ==
  /\ use' = [use EXCEPT !.pc = "done"]
  /\ outcomes' = Append(outcomes, outcome)
  /\ link' = Return(link, Use, E)
  /\ UNCHANGED <<chain, served, outVars>> /\ UseUnchanged

\* The context is done, in the outer select or while a token is offered.
UseCanceled ==
  /\ gone /\ use.pc = "select"
  /\ UseEnd("client_gone", {"canceled"})
  /\ UNCHANGED <<usage, training>>

UseErrsClosed ==
  /\ UseSelecting /\ use.errsOpen /\ ErrsClosed(Source)
  /\ use' = [use EXCEPT !.errsOpen = FALSE]
  /\ UNCHANGED <<link, chain, served, usage, training, outcomes, outVars>> /\ UseUnchanged

\* The provider's error, seen by the select.
UseError ==
  /\ UseSelecting /\ use.errsOpen /\ link[Source].err # {}
  /\ UseEnd("provider_failed", link[Source].err)
  /\ UNCHANGED <<usage, training>>

\* Faulty variant: a closed token channel taken for a clean finish.
LateErrorUnseen == FALSE

\* The provider's error, seen only after the token channel had closed.
LateError == use.errsOpen /\ link[Source].err # {}

UseToksClosed ==
  /\ UseSelecting /\ Closed(Source)
  /\ \/ gone /\ UseEnd("client_gone", {"canceled"})
     \/ ~gone /\ LateError /\ UseEnd("provider_failed", link[Source].err)
     \/ /\ ~gone /\ ~LateError
        /\ use' = [use EXCEPT !.pc = "log"]
        /\ UNCHANGED <<link, chain, served, outcomes, outVars>> /\ UseUnchanged
  /\ UNCHANGED <<usage, training>>

\* The id written to usage_logs must be a row of ai_providers: the pinned id
\* of a single provider is, the id chain.New makes is not.
Registered == providers = 1

InsertFails == ~Registered \/ InsertMayFail \/ gone

\* A clean finish: one usage row, unless the insert fails (which is only
\* warned of), one training row, one outcome.
UseLog ==
  /\ use.pc = "log"
  /\ \/ Registered /\ usage' = usage + 1
     \/ InsertFails /\ usage' = usage
  /\ training' = Append(training, [model |-> served, length |-> use.count])
  /\ UseEnd("ok", {})

UseStep ==
  \/ UseRefuse \/ UseAdmit \/ UseToken \/ UseCanceled \/ UseErrsClosed
  \/ UseError \/ UseToksClosed \/ UseLog \/ CloseStep(Use)

-----------------------------------------------------------------------------
(***************************************************************************)
(* The HTTP handler: streamSSE and streamJSON.                             *)
(***************************************************************************)
HandlerUnchanged == UNCHANGED <<config, leafVars, chain, drained, useVars, served>>

HandlerSelecting == handler.pc = "select" /\ link[Use].state # "idle"

TakeToken == link' = [link EXCEPT ![Use].offer = {}]

HandlerToken ==
  /\ HandlerSelecting
  /\ \E tok \in link[Use].offer : delivered' = Append(delivered, tok)
  /\ TakeToken
  /\ UNCHANGED <<gone, handler, reply>> /\ HandlerUnchanged

\* The write of a token fails: the client is dropped.
HandlerWriteFails ==
  /\ HandlerSelecting /\ sse /\ link[Use].offer # {}
  /\ TakeToken
  /\ handler' = [handler EXCEPT !.pc = "drain"] /\ reply' = "gone"
  /\ UNCHANGED <<gone, delivered>> /\ HandlerUnchanged

HandlerReturns == handler' = [handler EXCEPT !.pc = "done"] /\ UNCHANGED gone

HandlerToksClosed ==
  /\ HandlerSelecting /\ Closed(Use)
  /\ reply' = IF handler.errsOpen /\ link[Use].err # {} THEN "error" ELSE "done"
  /\ HandlerReturns
  /\ UNCHANGED <<link, delivered>> /\ HandlerUnchanged

HandlerErrsClosed ==
  /\ HandlerSelecting /\ handler.errsOpen /\ ErrsClosed(Use)
  /\ handler' = [handler EXCEPT !.errsOpen = FALSE]
  /\ UNCHANGED <<gone, link, delivered, reply>> /\ HandlerUnchanged

HandlerError ==
  /\ HandlerSelecting /\ handler.errsOpen /\ link[Use].err # {}
  /\ link' = [link EXCEPT ![Use].err = {}]
  /\ reply' = "error" /\ handler' = [handler EXCEPT !.pc = "drain"]
  /\ UNCHANGED <<gone, delivered>> /\ HandlerUnchanged

HandlerCanceled ==
  /\ HandlerSelecting /\ gone
  /\ reply' = "gone" /\ handler' = [handler EXCEPT !.pc = "drain"]
  /\ UNCHANGED <<gone, link, delivered>> /\ HandlerUnchanged

\* drain takes what comes until the channels have closed.
HandlerDrainTakes ==
  /\ handler.pc = "drain" /\ link[Use].offer # {}
  /\ TakeToken
  /\ UNCHANGED <<gone, handler, delivered, reply>> /\ HandlerUnchanged

HandlerDrained ==
  /\ handler.pc = "drain" /\ Closed(Use)
  /\ HandlerReturns
  /\ UNCHANGED <<link, delivered, reply>> /\ HandlerUnchanged

HandlerStep ==
  \/ HandlerToken \/ HandlerWriteFails \/ HandlerToksClosed \/ HandlerErrsClosed
  \/ HandlerError \/ HandlerCanceled \/ HandlerDrainTakes \/ HandlerDrained

-----------------------------------------------------------------------------
\* The context ends: the client leaves, or the handler has returned.
ContextDone ==
  /\ ~gone /\ gone' = TRUE
  /\ UNCHANGED <<config, link, leafVars, chain, drained, useVars, served, outVars>>

\* Every goroutine has returned.
Over ==
  /\ handler.pc = "done"
  /\ \A c \in Links : link[c].state \in {"idle", "closed"}

Terminated == Over /\ UNCHANGED vars

Init ==
  /\ providers \in Leaves
  /\ sse \in BOOLEAN /\ gone = FALSE
  /\ link = [c \in Links |-> [state |-> "idle", offer |-> {}, err |-> {}]]
  /\ sent = [p \in Leaves |-> 0] /\ verdict = [p \in Leaves |-> "none"]
  /\ chain = [pc |-> "done", at |-> 0, committed |-> FALSE,
              toksOpen |-> FALSE, errsOpen |-> FALSE]
  /\ drained = {}
  /\ use = [pc |-> "preflight", errsOpen |-> TRUE, count |-> 0]
  /\ served = 0 /\ usage = 0 /\ training = <<>> /\ outcomes = <<>>
  /\ handler = [pc |-> "select", errsOpen |-> TRUE]
  /\ delivered = <<>> /\ reply = "none"

Next ==
  \/ \E p \in Leaves : Leaf(p) \/ Drain(p)
  \/ ChainStep \/ UseStep \/ HandlerStep
  \/ ContextDone \/ Terminated

Spec == Init /\ [][Next]_vars
=============================================================================
