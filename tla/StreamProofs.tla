------------------------------ MODULE StreamProofs ------------------------------
(***************************************************************************)
(* One streamed rewrite, for any number of providers and tokens: its       *)
(* invariants, and that every step of its goroutines is a step of Answer   *)
(* or none.                                                                *)
(***************************************************************************)
EXTENDS StreamProps, TLAPS

\* The provider whose tokens are under way, 0 while the chain has tried none.
Lead == IF providers = 1 THEN 1 ELSE chain.at

\* A token offered on c counts as one.
Held(c) == IF link[c].offer = {} THEN 0 ELSE 1

Channel == [state : {"idle", "open", "returning", "errsClosed", "closed"},
            offer : SUBSET Tokens, err : SUBSET Errors]

Returned(c) == link[c].state \in {"returning", "errsClosed", "closed"}
Asked == link[Use].state # "idle"     \* the request was admitted

(***************************************************************************)
(* Every goroutine's channels against where it is.                         *)
(***************************************************************************)
ChannelsOK ==
  \A c \in Links : /\ link[c].offer # {} => link[c].state = "open"
                   /\ link[c].err # {} => Returned(c)

LeavesOK ==
  \A p \in Leaves :
    /\ verdict[p] = "none" <=> link[p].state \in {"idle", "open"}
    /\ link[p].state = "idle" => sent[p] = 0
    /\ link[p].offer \subseteq {[from |-> p, n |-> sent[p]]}
    /\ link[p].err # {} => verdict[p] \in {"failed", "canceled"}
    /\ verdict[p] = "canceled" => gone
    /\ verdict[p] \in {"failed", "canceled"} /\ link[p].err = {} => p \in drained
    /\ p > Lead => link[p].state = "idle"

SingleOK ==
  providers = 1 =>
    /\ chain.pc = "done" /\ chain.at = 0 /\ link[Chain].state = "idle" /\ drained = {}
    /\ link[1].state = "idle" <=> ~Asked
    /\ Asked => served = 1

ChainOK ==
  providers # 1 =>
    /\ served = chain.at /\ chain.at <= providers /\ drained \subseteq 1 .. chain.at
    /\ link[Chain].state = "idle" <=> ~Asked
    /\ link[Chain].state = "open" <=> chain.pc \in {"next", "select"}
    /\ ~Asked => chain.at = 0 /\ ~chain.committed
    /\ chain.pc = "next" => ~chain.committed /\ (chain.at # 0 => verdict[chain.at] = "failed")
    /\ \A p \in Leaves : p < chain.at => verdict[p] = "failed"
    /\ chain.pc = "select" =>
         /\ chain.at # 0 /\ chain.at \notin drained
         /\ ~chain.toksOpen => Closed(chain.at)
         /\ ~chain.errsOpen => ErrsClosed(chain.at)
    /\ Returned(Chain) /\ link[Chain].err = {} =>
         chain.at # 0 /\ verdict[chain.at] = "clean" /\ use.count = sent[chain.at]

UseOK ==
  /\ link[Use].state = "open" <=> use.pc \in {"select", "log"}
  /\ Asked <=> use.pc # "preflight" /\ outcomes # <<"refused">>
  /\ use.pc = "select" /\ ~use.errsOpen => ErrsClosed(Source)
  /\ use.pc = "preflight" => use.errsOpen
  /\ use.pc = "log" => /\ link[Use].offer = {} /\ Closed(Source)
                       /\ Lead # 0 /\ verdict[Lead] = "clean" /\ use.count = sent[Lead]

HandlerOK ==
  /\ reply = "none" <=> handler.pc = "select"
  /\ use.pc = "preflight" => reply = "none"
  /\ outcomes = <<"refused">> => reply = "error"
  /\ handler.pc = "select" /\ ~handler.errsOpen => ErrsClosed(Use)

\* Tokens go one by one from the provider to the client: what is on offer,
OffersOK ==
  /\ link[Chain].offer \subseteq {[from |-> Lead, n |-> use.count + 1]}
  /\ link[Use].offer \subseteq {[from |-> Lead, n |-> use.count]}

\* what was taken,
CountOK ==
  /\ Lead = 0 => use.count + Held(Chain) = 0
  /\ Lead # 0 => use.count + Held(Chain) + Held(Lead) <= sent[Lead]
  /\ (providers = 1 \/ chain.pc = "select") /\ verdict[Lead] # "canceled" =>
       use.count + Held(Chain) + Held(Lead) = sent[Lead]
  /\ chain.pc \in {"next", "select"} =>
       (chain.committed <=> use.count + Held(Chain) # 0)

\* and what has arrived.
DeliveredOK ==
  /\ \A i \in DOMAIN delivered : delivered[i] = [from |-> Lead, n |-> i]
  /\ Len(delivered) + Held(Use) <= use.count
  /\ reply = "none" /\ (use.pc # "done" \/ ~gone \/ outcomes = <<"ok">>) =>
       Len(delivered) + Held(Use) = use.count

\* What the request leaves behind.
LogsOK ==
  /\ outcomes = <<>> <=> use.pc # "done"
  /\ use.pc = "done" => \E o \in {"refused", "ok", "provider_failed", "client_gone"} : outcomes = <<o>>
  /\ usage <= Len(training)
  /\ outcomes # <<"ok">> => training = <<>>
  /\ outcomes = <<"ok">> =>
       /\ training = <<[model |-> Lead, length |-> use.count]>>
       /\ Lead # 0 /\ verdict[Lead] = "clean" /\ use.count = sent[Lead]
  /\ use.pc = "done" /\ reply = "none" /\ link[Use].err = {} => outcomes = <<"ok">>
  /\ reply = "done" => outcomes = <<"ok">>

\* Nobody else may be tried: the error is the last provider's, or that of the
\* one whose tokens went out.
Blamed == /\ chain.pc = "done" /\ Lead # 0 /\ verdict[Lead] = "failed"
          /\ use.count = 0 => Lead = providers

ErrorsOK ==
  ~gone => /\ Asked /\ link[Source].err # {} => Blamed
           /\ link[Use].err # {} => Blamed
           /\ reply = "error" /\ outcomes # <<"refused">> =>
                Blamed /\ Len(delivered) = use.count

StreamInv ==
  /\ TypeOK /\ ChannelsOK /\ LeavesOK /\ SingleOK /\ ChainOK /\ UseOK /\ HandlerOK
  /\ OffersOK /\ CountOK /\ DeliveredOK /\ LogsOK /\ ErrorsOK

-----------------------------------------------------------------------------
(***************************************************************************)
(* Constants, the goroutines' positions, and the types of their channels.  *)
(***************************************************************************)
\* The adapters, the use case and the chain have channels of their own.
LEMMA Places ==
  /\ MaxProviders \in Nat \ {0} /\ MaxTokens \in Nat
  /\ Leaves \subseteq Links /\ Use \in Links /\ Chain \in Links /\ Use # Chain
  /\ Use \notin Leaves /\ Chain \notin Leaves /\ Links = Leaves \cup {Use, Chain}
  /\ 1 \in Leaves /\ Leaves \subseteq Nat \ {0}
  BY StreamAssumption DEF Leaves, Links, Use, Chain

\* Where the goroutines read from.
LEMMA Sources ==
  ASSUME TypeOK, SingleOK
  PROVE  /\ Lead \in 0 .. MaxProviders /\ (Lead # 0 => Lead \in Leaves)
         /\ Lead \in Links /\ chain.at \in Links /\ (chain.at # 0 => chain.at \in Leaves)
         /\ Source \in Links /\ Source # Use
         /\ providers = 1 => Source = 1 /\ Lead = 1
         /\ providers # 1 => Source = Chain /\ Lead = chain.at
  BY Places DEF TypeOK, SingleOK, Lead, Source, Leaves, Links

\* An adapter at work is the one the chain is at: those before it have failed,
\* those after it have not been called.
LEMMA WorkingLeads ==
  ASSUME TypeOK, SingleOK, LeavesOK, ChainOK, NEW p \in Leaves, link[p].state = "open"
  PROVE  p = Lead /\ Lead # 0 /\ verdict[p] = "none"
<1>1. verdict[p] = "none" /\ ~(p > Lead)
  BY DEF LeavesOK
<1>2. providers # 1 => ~(p < chain.at)
  BY <1>1 DEF ChainOK
<1> QED
  BY <1>1, <1>2, Sources, Places DEF Leaves

\* What the operations on channels do to a well-typed map of channels.
LEMMA ChannelTypes ==
  ASSUME NEW l \in [Links -> Channel], NEW c \in Links
  PROVE  /\ Open(l, c) \in [Links -> Channel]
         /\ \A E \in SUBSET Errors : Return(l, c, E) \in [Links -> Channel]
         /\ \A s \in {"returning", "errsClosed", "closed"} :
              [l EXCEPT ![c].state = s] \in [Links -> Channel]
         /\ \A T \in SUBSET Tokens : [l EXCEPT ![c].offer = T] \in [Links -> Channel]
         /\ \A E \in SUBSET Errors : [l EXCEPT ![c].err = E] \in [Links -> Channel]
<1>1. l[c] \in Channel
  OBVIOUS
<1>2. ASSUME NEW x \in Channel
      PROVE  [l EXCEPT ![c] = x] \in [Links -> Channel]
  OBVIOUS
<1>3. [l EXCEPT ![c].state = "open"] \in [Links -> Channel]
  BY <1>1, <1>2 DEF Channel
<1>4. ASSUME NEW E \in SUBSET Errors
      PROVE  Return(l, c, E) \in [Links -> Channel]
  BY <1>1, <1>2 DEF Channel, Return
<1>5. ASSUME NEW s \in {"returning", "errsClosed", "closed"}
      PROVE  [l EXCEPT ![c].state = s] \in [Links -> Channel]
  BY <1>1, <1>2 DEF Channel
<1>6. ASSUME NEW T \in SUBSET Tokens
      PROVE  [l EXCEPT ![c].offer = T] \in [Links -> Channel]
  BY <1>1, <1>2 DEF Channel
<1>7. ASSUME NEW E \in SUBSET Errors
      PROVE  [l EXCEPT ![c].err = E] \in [Links -> Channel]
  BY <1>1, <1>2 DEF Channel
<1> QED
  BY <1>3, <1>4, <1>5, <1>6, <1>7 DEF Open

LEMMA LinkTyped ==
  ASSUME TypeOK, link' \in [Links -> Channel],
         UNCHANGED <<providers, sse, gone, sent, verdict, chain, drained, use, served, usage,
                     training, outcomes, handler, delivered, reply>>
  PROVE  TypeOK'
<1>1. /\ providers' = providers /\ sse' = sse /\ gone' = gone /\ sent' = sent /\ verdict' = verdict
      /\ chain' = chain /\ drained' = drained /\ use' = use /\ served' = served /\ usage' = usage
      /\ training' = training /\ outcomes' = outcomes /\ handler' = handler
      /\ delivered' = delivered /\ reply' = reply
  OBVIOUS
<1> QED
  BY <1>1 DEF TypeOK, Channel

-----------------------------------------------------------------------------
(***************************************************************************)
(* Adapters and the goroutines that drain them: every step keeps           *)
(* StreamInv. Each lemma below has the same outline: what the step reads   *)
(* and writes, what it does to the channels, then one step per part of     *)
(* the invariant.                                                          *)
(***************************************************************************)
LEMMA LeafEmitKeeps ==
  ASSUME StreamInv, NEW p \in Leaves, LeafEmit(p)
  PROVE  StreamInv'
<1> DEFINE tok == [from |-> p, n |-> sent[p] + 1]
<1>0. TypeOK /\ ChannelsOK /\ LeavesOK /\ SingleOK /\ ChainOK /\ UseOK /\ HandlerOK
      /\ OffersOK /\ CountOK /\ DeliveredOK /\ LogsOK /\ ErrorsOK
  BY DEF StreamInv
<1>1. /\ link[p].state = "open" /\ link[p].offer = {} /\ sent[p] < MaxTokens
      /\ UNCHANGED <<providers, sse, gone, chain, drained, use, usage, training, outcomes,
                     served, handler, delivered, reply, verdict>>
      /\ sent' = [sent EXCEPT ![p] = @ + 1] /\ link' = [link EXCEPT ![p].offer = {tok}]
  BY DEF LeafEmit, Free, LeafUnchanged, config, useVars, outVars
<1>2. /\ link'[p].state = "open" /\ link'[p].offer = {tok} /\ link'[p].err = link[p].err
      /\ \A c \in Links \ {p} : link'[c] = link[c]
      /\ sent'[p] = sent[p] + 1 /\ \A q \in Leaves \ {p} : sent'[q] = sent[q]
      /\ sent[p] \in 0 .. MaxTokens
  BY <1>0, <1>1, Places DEF TypeOK
<1>3. /\ p = Lead /\ Lead' = Lead /\ Lead # 0 /\ verdict[p] = "none" /\ Source' = Source
      /\ Lead \in Leaves
  BY <1>0, <1>1, WorkingLeads DEF Lead, Source
<1>4. TypeOK'
  <2>1. tok \in Tokens
    BY <1>1, <1>2, Places DEF Tokens
  <2>2. sent' \in [Leaves -> 0 .. MaxTokens]
    <3>1. sent \in [Leaves -> 0 .. MaxTokens] /\ sent[p] + 1 \in 0 .. MaxTokens
      <4>1. sent \in [Leaves -> 0 .. MaxTokens] /\ sent[p] \in 0 .. MaxTokens /\ sent[p] < MaxTokens
        BY <1>0, <1>1 DEF TypeOK
      <4> QED
        BY <4>1, Places
    <3> QED
      BY <1>1, <3>1
  <2>3. link' \in [Links -> [state : {"idle", "open", "returning", "errsClosed", "closed"},
                         offer : SUBSET Tokens, err : SUBSET Errors]]
    <3>1. link \in [Links -> [state : {"idle", "open", "returning", "errsClosed", "closed"},
                         offer : SUBSET Tokens, err : SUBSET Errors]]
          /\ {tok} \in SUBSET Tokens
      BY <1>0, <2>1 DEF TypeOK
    <3> HIDE DEF tok
    <3> QED
      BY <1>1, <3>1, Places
  <2>4. /\ providers' = providers /\ sse' = sse /\ gone' = gone /\ chain' = chain /\ drained' = drained
        /\ use' = use /\ usage' = usage /\ training' = training /\ outcomes' = outcomes
        /\ served' = served /\ handler' = handler /\ delivered' = delivered /\ reply' = reply
        /\ verdict' = verdict
    BY <1>1
  <2> HIDE DEF tok
  <2> QED
    BY <1>0, <2>4, <2>2, <2>3 DEF TypeOK
<1>5. ChannelsOK'
  BY <1>0, <1>1, <1>2 DEF ChannelsOK, Returned
<1>6. LeavesOK'
  BY <1>0, <1>1, <1>2, Places DEF LeavesOK, Lead
<1>7. SingleOK'
  BY <1>0, <1>1, <1>2, Places DEF SingleOK, Asked
<1>8. ChainOK'
  BY <1>0, <1>1, <1>2, <1>3, Sources, Places DEF ChainOK, Asked, Closed, ErrsClosed, Returned
<1>9. UseOK'
  BY <1>0, <1>1, <1>2, <1>3, Sources, Places DEF UseOK, Asked, ErrsClosed
<1>10. HandlerOK'
  BY <1>0, <1>1, <1>2, Places DEF HandlerOK, ErrsClosed
<1>11. OffersOK' /\ CountOK' /\ DeliveredOK'
  <2>1. /\ link[Use] = link'[Use] /\ link[Chain] = link'[Chain]
        /\ Held(Use)' = Held(Use) /\ Held(Chain)' = Held(Chain) /\ Held(Lead)' = 1 /\ Held(Lead) = 0
    BY <1>1, <1>2, <1>3, Places DEF Held
  <2>2. sent[Lead] \in Nat /\ sent'[Lead] = sent[Lead] + 1 /\ use.count \in Nat /\ Held(Chain) \in {0, 1}
    BY <1>0, <1>2, <1>3 DEF Held, TypeOK
  <2>3. OffersOK'
    BY <1>0, <1>1, <1>3, <2>1 DEF OffersOK
  <2>4. CountOK'
    BY <1>0, <1>1, <1>3, <2>1, <2>2 DEF CountOK
  <2>5. DeliveredOK'
    BY <1>0, <1>1, <1>3, <2>1 DEF DeliveredOK
  <2> QED
    BY <2>3, <2>4, <2>5
<1>12. LogsOK'
  BY <1>0, <1>1, <1>2, <1>3, Sources, Places DEF LogsOK
<1>13. ErrorsOK'
  BY <1>0, <1>1, <1>2, <1>3, Places DEF ErrorsOK, Asked, Source, Blamed, Lead
<1> QED
  BY <1>4, <1>5, <1>6, <1>7, <1>8, <1>9, <1>10, <1>11, <1>12, <1>13 DEF StreamInv

LEMMA LeafEndKeeps ==
  ASSUME StreamInv, NEW p \in Leaves, link[p].state = "open",
         NEW v \in {"clean", "failed", "canceled"}, NEW E \in SUBSET Errors, LeafEnd(p, v, E),
         E = {} <=> v = "clean", v = "canceled" => gone, v # "canceled" => link[p].offer = {}
  PROVE  StreamInv'
<1>0. TypeOK /\ ChannelsOK /\ LeavesOK /\ SingleOK /\ ChainOK /\ UseOK /\ HandlerOK
      /\ OffersOK /\ CountOK /\ DeliveredOK /\ LogsOK /\ ErrorsOK
  BY DEF StreamInv
<1>1. /\ UNCHANGED <<providers, sse, gone, chain, drained, use, usage, training, outcomes,
                     served, handler, delivered, reply, sent>>
      /\ verdict' = [verdict EXCEPT ![p] = v] /\ link' = Return(link, p, E)
  BY DEF LeafEnd, LeafUnchanged, config, useVars, outVars
<1>2. /\ link'[p].state = "returning" /\ link'[p].offer = {} /\ link'[p].err = E
      /\ \A c \in Links \ {p} : link'[c] = link[c]
      /\ verdict'[p] = v /\ \A q \in Leaves \ {p} : verdict'[q] = verdict[q]
  BY <1>0, <1>1, Places, SMTT(30) DEF TypeOK, Return
<1>3. /\ p = Lead /\ Lead' = Lead /\ Lead # 0 /\ verdict[p] = "none" /\ Source' = Source
      /\ Lead \in Leaves
  BY <1>0, <1>1, WorkingLeads DEF Lead, Source
<1>4. TypeOK'
  <2>1. link' \in [Links -> Channel]
    BY <1>0, <1>1, ChannelTypes, Places DEF TypeOK, Channel
  <2>2. verdict' \in [Leaves -> Verdicts]
    BY <1>0, <1>1 DEF TypeOK, Verdicts
  <2> QED
    BY <1>0, <1>1, <2>1, <2>2 DEF TypeOK, Channel
<1>5. ChannelsOK'
  BY <1>0, <1>1, <1>2 DEF ChannelsOK, Returned
<1>6. LeavesOK'
  BY <1>0, <1>1, <1>2, <1>3, Places DEF LeavesOK
<1>7. SingleOK'
  BY <1>0, <1>1, <1>2, Places DEF SingleOK, Asked
<1>8. ChainOK'
  BY <1>0, <1>1, <1>2, <1>3, Sources, Places DEF ChainOK, Asked, Closed, ErrsClosed, Returned
<1>9. UseOK'
  BY <1>0, <1>1, <1>2, <1>3, Sources, Places DEF UseOK, Asked, Closed, ErrsClosed
<1>10. HandlerOK'
  BY <1>0, <1>1, <1>2, Places DEF HandlerOK, ErrsClosed
<1>11. OffersOK'
  BY <1>0, <1>1, <1>2, <1>3, Places DEF OffersOK
<1>12. CountOK'
  <2>1. Held(Chain)' = Held(Chain) /\ Held(Lead)' = 0 /\ Held(Lead) \in {0, 1}
        /\ (v # "canceled" => Held(Lead) = 0) /\ use.count \in Nat /\ sent[Lead] \in Nat
        /\ Held(Chain) \in {0, 1}
    BY <1>0, <1>1, <1>2, <1>3, Places, SMTT(30) DEF Held, TypeOK
  <2> QED
    BY <1>0, <1>1, <1>2, <1>3, <2>1 DEF CountOK
<1>13. DeliveredOK'
  <2>1. Held(Use)' = Held(Use)
    BY <1>2, Places DEF Held
  <2> QED
    BY <1>0, <1>1, <1>3, <2>1 DEF DeliveredOK
<1>14. LogsOK'
  <2>1. outcomes # <<"ok">> /\ link'[Use].err = link[Use].err /\ ~(reply = "done")
    BY <1>0, <1>2, <1>3, Places DEF LogsOK
  <2> QED
    BY <1>0, <1>1, <2>1 DEF LogsOK
<1>15. ErrorsOK'
  BY <1>0, <1>1, <1>2, <1>3, Sources, Places DEF ErrorsOK, Asked, Blamed, SingleOK
<1> QED
  BY <1>4, <1>5, <1>6, <1>7, <1>8, <1>9, <1>10, <1>11, <1>12, <1>13, <1>14, <1>15 DEF StreamInv

LEMMA DrainKeeps ==
  ASSUME StreamInv, NEW p \in Leaves, Drain(p)
  PROVE  StreamInv'
<1>0. TypeOK /\ ChannelsOK /\ LeavesOK /\ SingleOK /\ ChainOK /\ UseOK /\ HandlerOK
      /\ OffersOK /\ CountOK /\ DeliveredOK /\ LogsOK /\ ErrorsOK
  BY DEF StreamInv
<1>1. /\ UNCHANGED <<providers, sse, gone, chain, drained, use, usage, training, outcomes,
                     served, handler, delivered, reply, sent, verdict>>
      /\ p \in drained /\ link' = [link EXCEPT ![p].offer = {}]
  BY DEF Drain, leafVars, config, useVars, outVars
<1>2. /\ link'[p].state = link[p].state /\ link'[p].offer = {} /\ link'[p].err = link[p].err
      /\ \A c \in Links \ {p} : link'[c] = link[c]
  BY <1>0, <1>1, Places DEF TypeOK
<1>3. Lead' = Lead /\ Source' = Source
  BY <1>1 DEF Lead, Source
<1>4. TypeOK'
  <2>1. link' \in [Links -> Channel]
    BY <1>0, <1>1, ChannelTypes, Places DEF TypeOK, Channel
  <2> QED
    BY <1>0, <1>1, <2>1, LinkTyped
<1>5. ChannelsOK'
  BY <1>0, <1>1, <1>2 DEF ChannelsOK, Returned
<1>6. LeavesOK'
  BY <1>0, <1>1, <1>2, <1>3, Places DEF LeavesOK
<1>7. SingleOK'
  BY <1>0, <1>1, <1>2, Places DEF SingleOK, Asked
<1>8. ChainOK'
  BY <1>0, <1>1, <1>2, <1>3, Sources, Places DEF ChainOK, Asked, Closed, ErrsClosed, Returned
<1>9. UseOK'
  BY <1>0, <1>1, <1>2, <1>3, Sources, Places DEF UseOK, Asked, Closed, ErrsClosed
<1>10. HandlerOK'
  BY <1>0, <1>1, <1>2, Places DEF HandlerOK, ErrsClosed
<1>11. OffersOK'
  BY <1>0, <1>1, <1>2, <1>3, Places DEF OffersOK
<1>12. CountOK'
  <2>1. (providers # 1 /\ chain.pc # "select") \/ p # Lead
    BY <1>0, <1>1, Sources DEF SingleOK, ChainOK
  <2>2. Held(Chain)' = Held(Chain) /\ Held(Lead) \in {0, 1} /\ Held(Lead)' \in {0, Held(Lead)}
        /\ (p # Lead => Held(Lead)' = Held(Lead)) /\ Held(Chain) \in {0, 1}
    BY <1>0, <1>2, <1>3, Sources, Places DEF Held
  <2>3. use.count \in Nat /\ (Lead # 0 => sent[Lead] \in Nat)
    BY <1>0, Sources DEF TypeOK
  <2> QED
    BY <1>0, <1>1, <1>3, <2>1, <2>2, <2>3, Sources DEF CountOK
<1>13. DeliveredOK'
  <2>1. Held(Use)' = Held(Use)
    BY <1>2, Places DEF Held
  <2> QED
    BY <1>0, <1>1, <1>3, <2>1 DEF DeliveredOK
<1>14. LogsOK'
  BY <1>0, <1>1, <1>2, <1>3, Sources, Places DEF LogsOK
<1>15. ErrorsOK'
  BY <1>0, <1>1, <1>2, <1>3, Sources, Places DEF ErrorsOK, Asked, Blamed, SingleOK
<1> QED
  BY <1>4, <1>5, <1>6, <1>7, <1>8, <1>9, <1>10, <1>11, <1>12, <1>13, <1>14, <1>15 DEF StreamInv

LEMMA CloseStepKeeps ==
  ASSUME StreamInv, NEW c \in Links, CloseStep(c)
  PROVE  StreamInv'
<1>0. TypeOK /\ ChannelsOK /\ LeavesOK /\ SingleOK /\ ChainOK /\ UseOK /\ HandlerOK
      /\ OffersOK /\ CountOK /\ DeliveredOK /\ LogsOK /\ ErrorsOK
  BY DEF StreamInv
<1>1. /\ UNCHANGED <<providers, sse, gone, chain, drained, use, usage, training, outcomes,
                     served, handler, delivered, reply, sent, verdict>>
      /\ link[c].state \in {"returning", "errsClosed"}
      /\ link' = [link EXCEPT ![c].state = NextClose(@)]
  BY DEF CloseStep, leafVars, config, useVars, outVars
<1>2. /\ link'[c].state = NextClose(link[c].state) /\ link'[c].offer = link[c].offer
      /\ link'[c].err = link[c].err
      /\ \A d \in Links \ {c} : link'[d] = link[d]
      /\ NextClose(link[c].state) \in {"errsClosed", "closed"}
  BY <1>0, <1>1, Places DEF TypeOK, NextClose
<1>3. Lead' = Lead /\ Source' = Source
  BY <1>1 DEF Lead, Source
<1>4. TypeOK'
  <2>1. link' \in [Links -> Channel]
    <3>1. link' = [link EXCEPT ![c].state = NextClose(link[c].state)]
      BY <1>1
    <3> QED
      BY <1>0, <1>2, <3>1, ChannelTypes DEF TypeOK, Channel
  <2> QED
    BY <1>0, <1>1, <2>1, LinkTyped
<1>5. ChannelsOK'
  BY <1>0, <1>1, <1>2 DEF ChannelsOK, Returned
<1>6. LeavesOK'
  BY <1>0, <1>1, <1>2, <1>3, Places DEF LeavesOK
<1>7. SingleOK'
  BY <1>0, <1>1, <1>2, Places DEF SingleOK, Asked
<1>8. ChainOK'
  <2>1. \A d \in Links : (Closed(d) => Closed(d)') /\ (ErrsClosed(d) => ErrsClosed(d)')
    BY <1>1, <1>2 DEF Closed, ErrsClosed
  <2>2. Returned(Chain)' = Returned(Chain) /\ link'[Chain].err = link[Chain].err
        /\ (link'[Chain].state = "idle" <=> link[Chain].state = "idle")
        /\ (link'[Chain].state = "open" <=> link[Chain].state = "open") /\ Asked' = Asked
    BY <1>1, <1>2, Places DEF Returned, Asked
  <2> QED
    BY <1>0, <1>1, <2>1, <2>2, Sources DEF ChainOK, Closed, ErrsClosed
<1>9. UseOK'
  <2>1. (ErrsClosed(Source) => ErrsClosed(Source)') /\ (Closed(Source) => Closed(Source)')
    BY <1>0, <1>1, <1>2, <1>3, Sources DEF ErrsClosed, Closed
  <2> QED
    BY <1>0, <1>1, <1>2, <1>3, <2>1, Places DEF UseOK, Asked
<1>10. HandlerOK'
  <2>1. ErrsClosed(Use) => ErrsClosed(Use)'
    BY <1>1, <1>2, Places DEF ErrsClosed
  <2> QED
    BY <1>0, <1>1, <2>1 DEF HandlerOK
<1>11. OffersOK'
  BY <1>0, <1>1, <1>2, <1>3, Places DEF OffersOK
<1>12. CountOK'
  <2>1. Held(Chain)' = Held(Chain) /\ Held(Lead)' = Held(Lead)
    BY <1>0, <1>2, <1>3, Sources, Places DEF Held
  <2> QED
    BY <1>0, <1>1, <1>3, <2>1, Sources DEF CountOK
<1>13. DeliveredOK'
  <2>1. Held(Use)' = Held(Use)
    BY <1>2, Places DEF Held
  <2> QED
    BY <1>0, <1>1, <1>3, <2>1 DEF DeliveredOK
<1>14. LogsOK'
  <2>1. link'[Use].err = link[Use].err
    BY <1>2, Places
  <2> QED
    BY <1>0, <1>1, <1>3, <2>1 DEF LogsOK
<1>15. ErrorsOK'
  <2>1. link'[Use].err = link[Use].err /\ link'[Source].err = link[Source].err /\ Asked' = Asked
    BY <1>0, <1>1, <1>2, Sources, Places DEF Asked
  <2> QED
    BY <1>0, <1>1, <1>3, <2>1 DEF ErrorsOK, Blamed
<1> QED
  BY <1>4, <1>5, <1>6, <1>7, <1>8, <1>9, <1>10, <1>11, <1>12, <1>13, <1>14, <1>15 DEF StreamInv

-----------------------------------------------------------------------------
(***************************************************************************)
(* The failover chain.                                                     *)
(***************************************************************************)
LEMMA ChainTyped ==
  ASSUME TypeOK, link' \in [Links -> Channel],
         chain' \in [pc : {"next", "select", "done"}, at : 0 .. MaxProviders,
                    committed : BOOLEAN, toksOpen : BOOLEAN, errsOpen : BOOLEAN],
         served' \in 0 .. MaxProviders, drained' \subseteq Leaves,
         UNCHANGED <<providers, sse, gone, sent, verdict, use, usage, training, outcomes,
                     handler, delivered, reply>>
  PROVE  TypeOK'
<1>1. /\ providers' = providers /\ sse' = sse /\ gone' = gone /\ sent' = sent /\ verdict' = verdict
      /\ use' = use /\ usage' = usage /\ training' = training /\ outcomes' = outcomes
      /\ handler' = handler /\ delivered' = delivered /\ reply' = reply
  OBVIOUS
<1> QED
  BY <1>1 DEF TypeOK, Channel

\* The chain at work: its channel is open, so the use case has not finished.
LEMMA ChainWorking ==
  ASSUME TypeOK, SingleOK, ChainOK, UseOK, ChannelsOK, chain.pc \in {"next", "select"}
  PROVE  /\ providers # 1 /\ Lead = chain.at /\ Source = Chain /\ served = chain.at
         /\ link[Chain].state = "open" /\ link[Chain].err = {} /\ Asked
         /\ use.pc # "log" /\ chain.at <= providers
         /\ drained \subseteq 1 .. chain.at /\ drained \subseteq Leaves
<1>1. providers # 1
  BY DEF SingleOK
<1>2. Lead = chain.at /\ Source = Chain /\ served = chain.at /\ link[Chain].state = "open" /\ Asked
      /\ chain.at <= providers /\ drained \subseteq 1 .. chain.at
  BY <1>1 DEF ChainOK, Lead, Source
<1> QED
  BY <1>1, <1>2, Places DEF UseOK, ChannelsOK, Returned, Closed, TypeOK

LEMMA ChainTryKeeps ==
  ASSUME StreamInv, ChainTry
  PROVE  StreamInv'
<1>0. TypeOK /\ ChannelsOK /\ LeavesOK /\ SingleOK /\ ChainOK /\ UseOK /\ HandlerOK
      /\ OffersOK /\ CountOK /\ DeliveredOK /\ LogsOK /\ ErrorsOK
  BY DEF StreamInv
<1>1. /\ UNCHANGED <<providers, sse, gone, drained, use, usage, training, outcomes,
                     handler, delivered, reply, sent, verdict>>
      /\ chain.pc = "next" /\ chain.at < providers /\ served' = chain.at + 1
      /\ chain' = [pc |-> "select", at |-> chain.at + 1,
                   committed |-> FALSE, toksOpen |-> TRUE, errsOpen |-> TRUE]
      /\ link' = Open(link, chain.at + 1)
  BY DEF ChainTry, AnyLeft, ChainUnchanged, leafVars, useVars, outVars, config
<1>2. /\ providers # 1 /\ Lead = chain.at /\ Source = Chain /\ Source' = Source /\ Asked
      /\ chain.at \in Nat /\ chain.at + 1 \in Leaves /\ Lead' = chain.at + 1
      /\ link[Chain].state = "open" /\ link[Chain].err = {}
      /\ ~chain.committed /\ (chain.at # 0 => verdict[chain.at] = "failed")
      /\ use.pc # "log" /\ drained \subseteq 1 .. chain.at /\ drained \subseteq Leaves
  <2>1. chain.at \in 0 .. MaxProviders /\ providers \in 1 .. MaxProviders /\ chain.at < providers
    BY <1>0, <1>1 DEF TypeOK, Leaves
  <2>2. chain.at \in Nat /\ chain.at + 1 \in Leaves
    BY <2>1, Places DEF Leaves
  <2>3. providers' = providers /\ chain'.at = chain.at + 1
    BY <1>1
  <2> QED
    BY <1>0, <1>1, <2>2, <2>3, ChainWorking DEF ChainOK, Lead, Source
<1>3. /\ link'[chain.at + 1].state = "open" /\ link[chain.at + 1].state = "idle"
      /\ link'[chain.at + 1].offer = {} /\ link'[chain.at + 1].err = {}
      /\ link[chain.at + 1].offer = {} /\ link[chain.at + 1].err = {}
      /\ \A c \in Links \ {chain.at + 1} : link'[c] = link[c]
      /\ sent[chain.at + 1] = 0 /\ verdict[chain.at + 1] = "none"
  <2>1. link[chain.at + 1].state = "idle"
    BY <1>0, <1>2 DEF LeavesOK
  <2>2. link[chain.at + 1].offer = {} /\ link[chain.at + 1].err = {}
    BY <1>0, <1>2, <2>1, Places DEF ChannelsOK, Returned
  <2> QED
    BY <1>0, <1>1, <1>2, <2>1, <2>2, Places, SMTT(30) DEF TypeOK, Open, LeavesOK
<1>a. use.count = 0 /\ Held(Chain) = 0 /\ Held(Use) = 0 /\ delivered = <<>>
  <2>1. use.count = 0 /\ Held(Chain) = 0
    BY <1>0, <1>1, <1>2 DEF CountOK, TypeOK, Held
  <2>2. delivered \in Seq(Tokens) /\ Len(delivered) + Held(Use) <= 0 /\ Held(Use) \in {0, 1}
    BY <1>0, <2>1 DEF DeliveredOK, Held, TypeOK
  <2> QED
    BY <2>1, <2>2
<1>4. TypeOK'
  <2>1. chain' \in [pc : {"next", "select", "done"}, at : 0 .. MaxProviders,
                    committed : BOOLEAN, toksOpen : BOOLEAN, errsOpen : BOOLEAN]
    BY <1>1, <1>2 DEF Leaves
  <2>2. link' \in [Links -> Channel]
    BY <1>0, <1>1, <1>2, ChannelTypes, Places DEF TypeOK, Channel
  <2>3. served' \in 0 .. MaxProviders /\ drained' \subseteq Leaves
    BY <1>1, <1>2 DEF Leaves
  <2> QED
    BY <1>0, <1>1, <2>1, <2>2, <2>3, ChainTyped
<1>5. ChannelsOK'
  BY <1>0, <1>1, <1>2, <1>3 DEF ChannelsOK, Returned
<1>6. LeavesOK'
  BY <1>0, <1>1, <1>2, <1>3, Places DEF LeavesOK
<1>7. SingleOK'
  BY <1>0, <1>1, <1>2, <1>3, Places DEF SingleOK, Asked
<1>8. ChainOK'
  <2>1. /\ chain'.pc = "select" /\ chain'.at = chain.at + 1 /\ chain'.toksOpen /\ chain'.errsOpen
        /\ served' = chain'.at /\ chain'.at <= providers' /\ chain'.at # 0
        /\ drained' \subseteq 1 .. chain'.at /\ chain'.at \notin drained'
    BY <1>0, <1>1, <1>2 DEF TypeOK, Leaves
  <2>2. \A p \in Leaves : p < chain.at + 1 => verdict'[p] = "failed"
    BY <1>0, <1>1, <1>2 DEF ChainOK, Leaves
  <2>3. link'[Chain].state = "open" /\ link'[Use].state = link[Use].state
    BY <1>2, <1>3, Places
  <2> QED
    BY <1>1, <1>2, <2>1, <2>2, <2>3 DEF ChainOK, Asked, Returned
<1>9. UseOK'
  BY <1>0, <1>1, <1>2, <1>3, Sources, Places DEF UseOK, Asked, Closed, ErrsClosed
<1>10. HandlerOK'
  BY <1>0, <1>1, <1>2, <1>3, Places DEF HandlerOK, ErrsClosed
<1>11. OffersOK'
  BY <1>0, <1>1, <1>2, <1>3, <1>a, Places DEF OffersOK, Held
<1>12. CountOK'
  <2>1. Held(Chain)' = Held(Chain) /\ Held(Lead)' = 0 /\ sent'[chain.at + 1] = 0
    BY <1>1, <1>2, <1>3, Places DEF Held
  <2> QED
    BY <1>1, <1>2, <1>a, <2>1 DEF CountOK
<1>13. DeliveredOK'
  <2>1. Held(Use)' = Held(Use)
    BY <1>1, <1>2, <1>3, Places DEF Held
  <2> QED
    BY <1>1, <1>2, <1>a, <2>1 DEF DeliveredOK
<1>14. LogsOK'
  BY <1>0, <1>1, <1>2, <1>3, Places DEF LogsOK
<1>15. ErrorsOK'
  <2>1. ~Blamed /\ link'[Use].err = link[Use].err /\ link'[Chain].err = {}
    BY <1>1, <1>2, <1>3, Places DEF Blamed
  <2> QED
    BY <1>0, <1>1, <1>2, <2>1 DEF ErrorsOK
<1> QED
  BY <1>4, <1>5, <1>6, <1>7, <1>8, <1>9, <1>10, <1>11, <1>12, <1>13, <1>14, <1>15 DEF StreamInv

LEMMA ChainExhaustedKeeps ==
  ASSUME StreamInv, ChainExhausted
  PROVE  StreamInv'
<1>0. TypeOK /\ ChannelsOK /\ LeavesOK /\ SingleOK /\ ChainOK /\ UseOK /\ HandlerOK
      /\ OffersOK /\ CountOK /\ DeliveredOK /\ LogsOK /\ ErrorsOK
  BY DEF StreamInv
<1>1. /\ UNCHANGED <<providers, sse, gone, drained, served, use, usage, training, outcomes,
                     handler, delivered, reply, sent, verdict>>
      /\ chain.pc = "next" /\ ~(chain.at < providers)
      /\ chain' = [chain EXCEPT !.pc = "done"] /\ link' = Return(link, Chain, {"exhausted"})
  BY DEF ChainExhausted, ChainReturn, AnyLeft, ChainUnchanged, leafVars, useVars, outVars, config
<1>2. /\ providers # 1 /\ Lead = chain.at /\ Source = Chain /\ Source' = Source /\ Lead' = Lead
      /\ Asked /\ link[Chain].state = "open" /\ link[Chain].err = {}
      /\ chain.at = providers /\ Lead # 0 /\ verdict[Lead] = "failed"
      /\ use.pc # "log" /\ drained \subseteq 1 .. chain.at
      /\ chain'.pc = "done" /\ chain'.at = chain.at /\ chain'.committed = chain.committed
      /\ ~chain.committed
  <2>1. chain.at = providers /\ providers # 0 /\ chain'.pc = "done" /\ chain'.at = chain.at
        /\ chain'.committed = chain.committed
    BY <1>0, <1>1, ChainWorking DEF TypeOK, Leaves
  <2> QED
    BY <1>0, <1>1, <2>1, ChainWorking DEF ChainOK, Lead, Source
<1>3. /\ link'[Chain].state = "returning" /\ link'[Chain].offer = {}
      /\ link'[Chain].err = {"exhausted"}
      /\ \A c \in Links \ {Chain} : link'[c] = link[c]
  BY <1>0, <1>1, Places DEF TypeOK, Return
<1>4. TypeOK'
  <2>1. chain' \in [pc : {"next", "select", "done"}, at : 0 .. MaxProviders,
                    committed : BOOLEAN, toksOpen : BOOLEAN, errsOpen : BOOLEAN]
    BY <1>0, <1>1 DEF TypeOK
  <2>2. link' \in [Links -> Channel]
    BY <1>0, <1>1, ChannelTypes, Places DEF TypeOK, Channel, Errors
  <2>3. served' \in 0 .. MaxProviders /\ drained' \subseteq Leaves
    BY <1>0, <1>1 DEF TypeOK
  <2> QED
    BY <1>0, <1>1, <2>1, <2>2, <2>3, ChainTyped
<1>5. ChannelsOK'
  BY <1>0, <1>1, <1>3 DEF ChannelsOK, Returned
<1>6. LeavesOK'
  BY <1>0, <1>1, <1>2, <1>3, Places DEF LeavesOK
<1>7. SingleOK'
  BY <1>0, <1>1, <1>2, <1>3, Places DEF SingleOK, Asked
<1>8. ChainOK'
  BY <1>0, <1>1, <1>2, <1>3, Sources, Places DEF ChainOK, Asked, Closed, ErrsClosed, Returned
<1>9. UseOK'
  BY <1>0, <1>1, <1>2, <1>3, Sources, Places DEF UseOK, Asked, Closed, ErrsClosed
<1>10. HandlerOK'
  BY <1>0, <1>1, <1>3, Places DEF HandlerOK, ErrsClosed
<1>11. OffersOK'
  BY <1>0, <1>1, <1>2, <1>3, Places DEF OffersOK
<1>12. CountOK'
  <2>1. use.count = 0 /\ Held(Chain) = 0
    BY <1>0, <1>1, <1>2 DEF CountOK, TypeOK, Held
  <2>2. Held(Chain)' = 0 /\ Held(Lead)' = Held(Lead)
    BY <1>0, <1>2, <1>3, Sources, Places DEF Held
  <2> QED
    BY <1>0, <1>1, <1>2, <2>1, <2>2 DEF CountOK
<1>13. DeliveredOK'
  <2>1. Held(Use)' = Held(Use)
    BY <1>1, <1>3, Places DEF Held
  <2> QED
    BY <1>0, <1>1, <1>2, <2>1 DEF DeliveredOK
<1>14. LogsOK'
  BY <1>0, <1>1, <1>2, <1>3, Places DEF LogsOK
<1>15. ErrorsOK'
  <2>1. ~Blamed /\ Blamed' /\ link'[Use].err = link[Use].err
    BY <1>1, <1>2, <1>3, Places DEF Blamed
  <2> QED
    BY <1>0, <1>1, <1>2, <2>1 DEF ErrorsOK
<1> QED
  BY <1>4, <1>5, <1>6, <1>7, <1>8, <1>9, <1>10, <1>11, <1>12, <1>13, <1>14, <1>15 DEF StreamInv

LEMMA ChainTokenKeeps ==
  ASSUME StreamInv, ChainToken
  PROVE  StreamInv'
<1>0. TypeOK /\ ChannelsOK /\ LeavesOK /\ SingleOK /\ ChainOK /\ UseOK /\ HandlerOK
      /\ OffersOK /\ CountOK /\ DeliveredOK /\ LogsOK /\ ErrorsOK
  BY DEF StreamInv
<1>1. /\ UNCHANGED <<providers, sse, gone, drained, served, use, usage, training, outcomes,
                     handler, delivered, reply, sent, verdict>>
      /\ chain.pc = "select" /\ chain.toksOpen /\ link[Chain].offer = {}
      /\ link[chain.at].offer # {}
      /\ chain' = [chain EXCEPT !.committed = TRUE]
      /\ link' = [link EXCEPT ![chain.at].offer = {}, ![Chain].offer = link[chain.at].offer]
  BY DEF ChainToken, Selecting, Forward, ChainUnchanged, leafVars, useVars, outVars, config
<1>2. /\ providers # 1 /\ Lead = chain.at /\ Source = Chain /\ Source' = Source /\ Lead' = Lead
      /\ Asked /\ link[Chain].state = "open" /\ link[Chain].err = {}
      /\ Lead # 0 /\ Lead \in Leaves /\ Lead \in Links /\ Lead # Chain /\ Lead # Use
      /\ verdict[Lead] = "none" /\ link[Lead].state = "open"
      /\ use.pc # "log" /\ drained \subseteq 1 .. chain.at
      /\ chain'.pc = "select" /\ chain'.at = chain.at /\ chain'.committed
      /\ chain'.toksOpen = chain.toksOpen /\ chain'.errsOpen = chain.errsOpen
  <2>1. /\ chain'.pc = "select" /\ chain'.at = chain.at /\ chain'.committed
        /\ chain'.toksOpen = chain.toksOpen /\ chain'.errsOpen = chain.errsOpen
    BY <1>0, <1>1 DEF TypeOK
  <2>2. chain.at # 0
    BY <1>0, <1>1, ChainWorking DEF ChainOK
  <2>3. Lead = chain.at /\ Source = Chain /\ Source' = Source /\ Lead' = Lead
    BY <1>0, <1>1, <2>1, ChainWorking DEF Lead, Source
  <2>4. Lead \in Leaves /\ Lead \in Links /\ Lead # Chain /\ Lead # Use
    BY <1>0, <2>2, <2>3, Sources, Places
  <2>5. link[Lead].state = "open"
    BY <1>0, <1>1, <2>3, <2>4 DEF ChannelsOK
  <2> QED
    BY <1>0, <1>1, <2>1, <2>2, <2>3, <2>4, <2>5, ChainWorking DEF LeavesOK
<1>3. /\ link'[Chain].state = "open" /\ link'[Chain].offer = link[Lead].offer
      /\ link'[Chain].err = {}
      /\ link'[Lead].state = "open" /\ link'[Lead].offer = {} /\ link'[Lead].err = link[Lead].err
      /\ \A c \in Links \ {Chain, Lead} : link'[c] = link[c]
      /\ link' \in [Links -> Channel]
  <2>1. link \in [Links -> Channel] /\ link[Lead].offer \in SUBSET Tokens
    BY <1>0, <1>2 DEF TypeOK, Channel
  <2> DEFINE l == [link EXCEPT ![Lead].offer = {}]
  <2>2. l \in [Links -> Channel]
    BY <1>2, <2>1, ChannelTypes
  <2>3. link' = [l EXCEPT ![Chain].offer = link[Lead].offer]
    BY <1>1, <1>2
  <2>4. link' \in [Links -> Channel]
    BY <2>1, <2>2, <2>3, ChannelTypes, Places
  <2>5. /\ l[Lead].state = "open" /\ l[Lead].offer = {} /\ l[Lead].err = link[Lead].err
        /\ l[Chain] = link[Chain] /\ \A c \in Links \ {Lead} : l[c] = link[c]
    BY <1>2, <2>1
  <2> HIDE DEF l
  <2> QED
    BY <1>2, <2>2, <2>3, <2>4, <2>5, Places
<1>4. TypeOK'
  <2>1. chain' \in [pc : {"next", "select", "done"}, at : 0 .. MaxProviders,
                    committed : BOOLEAN, toksOpen : BOOLEAN, errsOpen : BOOLEAN]
    BY <1>0, <1>1 DEF TypeOK
  <2>2. served' \in 0 .. MaxProviders /\ drained' \subseteq Leaves
    BY <1>0, <1>1 DEF TypeOK
  <2> QED
    BY <1>0, <1>1, <1>3, <2>1, <2>2, ChainTyped
<1>5. ChannelsOK'
  BY <1>0, <1>1, <1>2, <1>3, ZenonT(60) DEF ChannelsOK, Returned
<1>6. LeavesOK'
  <2>1. \A p \in Leaves : /\ link'[p].state = link[p].state /\ link'[p].err = link[p].err
                          /\ link'[p].offer \subseteq link[p].offer
    BY <1>2, <1>3, Places
  <2>2. gone' = gone /\ sent' = sent /\ verdict' = verdict /\ drained' = drained /\ Lead' = Lead
    BY <1>1, <1>2
  <2> QED
    BY <1>0, <2>1, <2>2 DEF LeavesOK
<1>7. SingleOK'
  BY <1>0, <1>1, <1>2, <1>3, Places DEF SingleOK, Asked
<1>8. ChainOK'
  <2>1. (Closed(Lead) => Closed(Lead)') /\ (ErrsClosed(Lead) => ErrsClosed(Lead)')
    BY <1>2 DEF Closed, ErrsClosed
  <2>2. Asked'
    BY <1>2, <1>3, Places DEF Asked
  <2> QED
    BY <1>0, <1>1, <1>2, <1>3, <2>1, <2>2, SMTT(90) DEF ChainOK, Closed, ErrsClosed, Returned
<1>9. UseOK'
  BY <1>0, <1>1, <1>2, <1>3, Sources, Places DEF UseOK, Asked, Closed, ErrsClosed
<1>10. HandlerOK'
  BY <1>0, <1>1, <1>2, <1>3, Places DEF HandlerOK, ErrsClosed
<1>11. OffersOK'
  <2>1. link[Lead].offer = {[from |-> Lead, n |-> sent[Lead]]} /\ Held(Lead) = 1 /\ Held(Chain) = 0
    BY <1>0, <1>1, <1>2 DEF LeavesOK, Held
  <2>2. use.count + 1 = sent[Lead]
    BY <1>0, <1>1, <1>2, <2>1 DEF CountOK, TypeOK
  <2> QED
    BY <1>0, <1>1, <1>2, <1>3, <2>1, <2>2, Places DEF OffersOK
<1>12. CountOK'
  <2>1. Held(Lead) = 1 /\ Held(Chain) = 0 /\ Held(Lead)' = 0 /\ Held(Chain)' = 1
    BY <1>1, <1>2, <1>3 DEF Held
  <2>2. use.count \in Nat /\ sent[Lead] \in Nat
    BY <1>0, <1>2 DEF TypeOK
  <2> QED
    BY <1>0, <1>1, <1>2, <2>1, <2>2 DEF CountOK
<1>13. DeliveredOK'
  <2>1. Held(Use)' = Held(Use)
    BY <1>1, <1>2, <1>3, Places DEF Held
  <2> QED
    BY <1>0, <1>1, <1>2, <1>3, <2>1 DEF DeliveredOK
<1>14. LogsOK'
  BY <1>0, <1>1, <1>2, <1>3, Places DEF LogsOK
<1>15. ErrorsOK'
  <2>1. ~Blamed /\ link'[Use].err = link[Use].err /\ link'[Chain].err = {}
    BY <1>1, <1>2, <1>3, Places DEF Blamed
  <2> QED
    BY <1>0, <1>1, <1>2, <2>1 DEF ErrorsOK
<1> QED
  BY <1>4, <1>5, <1>6, <1>7, <1>8, <1>9, <1>10, <1>11, <1>12, <1>13, <1>14, <1>15 DEF StreamInv

\* The chain notes that a channel of its provider has closed.
LEMMA ChainNotesKeeps ==
  ASSUME StreamInv, ChainToksClosed \/ ChainErrsClosed
  PROVE  StreamInv'
<1>0. TypeOK /\ ChannelsOK /\ LeavesOK /\ SingleOK /\ ChainOK /\ UseOK /\ HandlerOK
      /\ OffersOK /\ CountOK /\ DeliveredOK /\ LogsOK /\ ErrorsOK
  BY DEF StreamInv
<1>1. /\ UNCHANGED <<providers, sse, gone, drained, served, use, usage, training, outcomes,
                     handler, delivered, reply, sent, verdict, link>>
      /\ chain.pc = "select" /\ link[Chain].offer = {}
      /\ \/ Closed(chain.at) /\ chain' = [chain EXCEPT !.toksOpen = FALSE]
         \/ ErrsClosed(chain.at) /\ chain' = [chain EXCEPT !.errsOpen = FALSE]
  BY DEF ChainToksClosed, ChainErrsClosed, Selecting, ChainUnchanged, leafVars, useVars, outVars, config
<1>2. /\ providers # 1 /\ Lead = chain.at /\ Source' = Source /\ Lead' = Lead
      /\ chain'.pc = "select" /\ chain'.at = chain.at /\ chain'.committed = chain.committed
      /\ chain' \in [pc : {"next", "select", "done"}, at : 0 .. MaxProviders,
                     committed : BOOLEAN, toksOpen : BOOLEAN, errsOpen : BOOLEAN]
      /\ (~chain'.toksOpen => ~chain.toksOpen \/ Closed(chain.at))
      /\ (~chain'.errsOpen => ~chain.errsOpen \/ ErrsClosed(chain.at))
  <2>1. /\ chain'.pc = "select" /\ chain'.at = chain.at /\ chain'.committed = chain.committed
        /\ chain' \in [pc : {"next", "select", "done"}, at : 0 .. MaxProviders,
                       committed : BOOLEAN, toksOpen : BOOLEAN, errsOpen : BOOLEAN]
        /\ (~chain'.toksOpen => ~chain.toksOpen \/ Closed(chain.at))
        /\ (~chain'.errsOpen => ~chain.errsOpen \/ ErrsClosed(chain.at))
    <3>1. CASE Closed(chain.at) /\ chain' = [chain EXCEPT !.toksOpen = FALSE]
      BY <1>0, <1>1, <3>1 DEF TypeOK
    <3>2. CASE ErrsClosed(chain.at) /\ chain' = [chain EXCEPT !.errsOpen = FALSE]
      BY <1>0, <1>1, <3>2 DEF TypeOK
    <3> QED
      BY <1>1, <3>1, <3>2
  <2> QED
    BY <1>0, <1>1, <2>1, ChainWorking DEF Lead, Source
<1>3. Closed(chain.at)' = Closed(chain.at) /\ ErrsClosed(chain.at)' = ErrsClosed(chain.at)
  BY <1>1, <1>2 DEF Closed, ErrsClosed
<1>4. TypeOK'
  BY <1>0, <1>1, <1>2, ChainTyped DEF TypeOK, Channel
<1>5. ChannelsOK'
  BY <1>0, <1>1, <1>2, <1>3 DEF ChannelsOK, Returned
<1>6. LeavesOK'
  BY <1>0, <1>1, <1>2, <1>3, Places DEF LeavesOK
<1>7. SingleOK'
  BY <1>0, <1>1, <1>2, <1>3, Places DEF SingleOK, Asked
<1>8. ChainOK'
  BY <1>0, <1>1, <1>2, <1>3 DEF ChainOK, Asked, Closed, ErrsClosed, Returned
<1>9. UseOK'
  BY <1>0, <1>1, <1>2, <1>3, Sources, Places DEF UseOK, Asked, Closed, ErrsClosed
<1>10. HandlerOK'
  BY <1>0, <1>1, <1>2, <1>3, Places DEF HandlerOK, ErrsClosed
<1>11. OffersOK'
  BY <1>0, <1>1, <1>2, <1>3, Places DEF OffersOK
<1>12. CountOK'
  BY <1>0, <1>1, <1>2 DEF CountOK, Held
<1>13. DeliveredOK'
  <2>1. Held(Use)' = Held(Use)
    BY <1>1, <1>2, <1>3, Places DEF Held
  <2> QED
    BY <1>0, <1>1, <1>2, <1>3, <2>1 DEF DeliveredOK
<1>14. LogsOK'
  BY <1>0, <1>1, <1>2 DEF LogsOK
<1>15. ErrorsOK'
  BY <1>0, <1>1, <1>2 DEF ErrorsOK, Blamed, Asked
<1> QED
  BY <1>4, <1>5, <1>6, <1>7, <1>8, <1>9, <1>10, <1>11, <1>12, <1>13, <1>14, <1>15 DEF StreamInv

LEMMA ChainCleanKeeps ==
  ASSUME StreamInv, ChainClean
  PROVE  StreamInv'
<1>0. TypeOK /\ ChannelsOK /\ LeavesOK /\ SingleOK /\ ChainOK /\ UseOK /\ HandlerOK
      /\ OffersOK /\ CountOK /\ DeliveredOK /\ LogsOK /\ ErrorsOK
  BY DEF StreamInv
<1>1. /\ UNCHANGED <<providers, sse, gone, drained, served, use, usage, training, outcomes,
                     handler, delivered, reply, sent, verdict>>
      /\ chain.pc = "select" /\ link[Chain].offer = {} /\ ~chain.toksOpen /\ ~chain.errsOpen
      /\ chain' = [chain EXCEPT !.pc = "done"] /\ link' = Return(link, Chain, {})
  BY DEF ChainClean, ChainReturn, ChainUnchanged, leafVars, useVars, outVars, config
<1>2. /\ providers # 1 /\ Lead = chain.at /\ Source = Chain /\ Source' = Source /\ Lead' = Lead
      /\ Asked /\ link[Chain].state = "open" /\ link[Chain].err = {}
      /\ Lead # 0 /\ Lead \in Leaves /\ use.pc # "log"
      /\ link[Lead].state = "closed" /\ link[Lead].err = {} /\ link[Lead].offer = {}
      /\ Lead \notin drained /\ verdict[Lead] = "clean"
      /\ chain'.pc = "done" /\ chain'.at = chain.at /\ chain'.committed = chain.committed
  <2>1. chain'.pc = "done" /\ chain'.at = chain.at /\ chain'.committed = chain.committed
    BY <1>0, <1>1 DEF TypeOK
  <2>2. providers # 1 /\ Lead = chain.at /\ Source = Chain /\ Source' = Source /\ Lead' = Lead
        /\ Asked /\ link[Chain].state = "open" /\ link[Chain].err = {} /\ use.pc # "log"
    BY <1>0, <1>1, <2>1, ChainWorking DEF Lead, Source
  <2>3. Lead # 0 /\ Lead \notin drained /\ Closed(Lead) /\ ErrsClosed(Lead)
    BY <1>0, <1>1, <2>2 DEF ChainOK
  <2>4. Lead \in Leaves /\ Lead \in Links
    BY <1>0, <2>3, Sources
  <2>5. link[Lead].state = "closed" /\ link[Lead].err = {} /\ link[Lead].offer = {}
    BY <1>0, <2>3, <2>4 DEF Closed, ErrsClosed, ChannelsOK
  <2>6. verdict[Lead] \in {"none", "clean", "failed", "canceled"} /\ verdict[Lead] # "none"
        /\ verdict[Lead] \notin {"failed", "canceled"}
    BY <1>0, <2>3, <2>4, <2>5 DEF LeavesOK, TypeOK, Verdicts
  <2> QED
    BY <2>1, <2>2, <2>3, <2>4, <2>5, <2>6
<1>3. /\ link'[Chain].state = "returning" /\ link'[Chain].offer = {} /\ link'[Chain].err = {}
      /\ \A c \in Links \ {Chain} : link'[c] = link[c]
      /\ link' \in [Links -> Channel]
  <2>1. link \in [Links -> Channel]
    BY <1>0 DEF TypeOK, Channel
  <2>2. link' \in [Links -> Channel]
    BY <1>1, <2>1, ChannelTypes, Places
  <2> QED
    BY <1>1, <2>1, <2>2, Places DEF Return
<1>4a. use.count + Held(Chain) + Held(Lead) = sent[Lead] /\ Held(Chain) = 0 /\ Held(Lead) = 0
       /\ use.count = sent[Lead] /\ use.count \in Nat /\ sent[Lead] \in Nat
  <2>1. Held(Chain) = 0 /\ Held(Lead) = 0 /\ use.count \in Nat /\ sent[Lead] \in Nat
    BY <1>0, <1>1, <1>2 DEF Held, TypeOK
  <2> QED
    BY <1>0, <1>1, <1>2, <2>1 DEF CountOK
<1>4. TypeOK'
  <2>1. chain' \in [pc : {"next", "select", "done"}, at : 0 .. MaxProviders,
                    committed : BOOLEAN, toksOpen : BOOLEAN, errsOpen : BOOLEAN]
    BY <1>0, <1>1 DEF TypeOK
  <2>2. served' \in 0 .. MaxProviders /\ drained' \subseteq Leaves
    BY <1>0, <1>1 DEF TypeOK
  <2> QED
    BY <1>0, <1>1, <1>3, <2>1, <2>2, ChainTyped
<1>5. ChannelsOK'
  BY <1>0, <1>1, <1>2, <1>3 DEF ChannelsOK, Returned
<1>6. LeavesOK'
  BY <1>0, <1>1, <1>2, <1>3, Places DEF LeavesOK
<1>7. SingleOK'
  BY <1>0, <1>1, <1>2, <1>3, Places DEF SingleOK, Asked
<1>8. ChainOK'
  BY <1>0, <1>1, <1>2, <1>3, <1>4a, Places DEF ChainOK, Asked, Returned
<1>9. UseOK'
  BY <1>0, <1>1, <1>2, <1>3, Sources, Places DEF UseOK, Asked, Closed, ErrsClosed
<1>10. HandlerOK'
  BY <1>0, <1>1, <1>2, <1>3, Places DEF HandlerOK, ErrsClosed
<1>11. OffersOK'
  BY <1>0, <1>1, <1>2, <1>3, Places DEF OffersOK
<1>12. CountOK'
  <2>1. Held(Chain)' = 0 /\ Held(Lead)' = 0
    BY <1>2, <1>3, Places DEF Held
  <2> QED
    BY <1>1, <1>2, <1>4a, <2>1 DEF CountOK
<1>13. DeliveredOK'
  <2>1. Held(Use)' = Held(Use)
    BY <1>1, <1>2, <1>3, Places DEF Held
  <2> QED
    BY <1>0, <1>1, <1>2, <1>3, <2>1 DEF DeliveredOK
<1>14. LogsOK'
  BY <1>0, <1>1, <1>2, <1>3, Places DEF LogsOK
<1>15. ErrorsOK'
  <2>1. ~Blamed /\ link'[Use].err = link[Use].err
    BY <1>1, <1>2, <1>3, Places DEF Blamed
  <2> QED
    BY <1>0, <1>1, <1>2, <1>3, <2>1 DEF ErrorsOK
<1> QED
  BY <1>4, <1>5, <1>6, <1>7, <1>8, <1>9, <1>10, <1>11, <1>12, <1>13, <1>14, <1>15 DEF StreamInv

\* The chain gives up: its own error, or the end of the request's context.
LEMMA ChainGivesUpKeeps ==
  ASSUME StreamInv, chain.pc = "select", NEW E \in SUBSET Errors, E # {}, NEW F \in SUBSET Errors,
         ChainReturn([link EXCEPT ![chain.at].err = F], E),
         F = link[chain.at].err \/ chain.at \in drained', F \subseteq link[chain.at].err,
         drained' \in {drained, drained \cup {chain.at}},
         gone \/ (link[Chain].offer = {} /\ chain.committed /\ verdict[chain.at] = "failed"),
         UNCHANGED served, ChainUnchanged
  PROVE  StreamInv'
<1>0. TypeOK /\ ChannelsOK /\ LeavesOK /\ SingleOK /\ ChainOK /\ UseOK /\ HandlerOK
      /\ OffersOK /\ CountOK /\ DeliveredOK /\ LogsOK /\ ErrorsOK
  BY DEF StreamInv
<1> DEFINE l == [link EXCEPT ![chain.at].err = F]
<1>1. /\ UNCHANGED <<providers, sse, gone, served, use, usage, training, outcomes,
                     handler, delivered, reply, sent, verdict>>
      /\ chain.pc = "select"
      /\ chain' = [chain EXCEPT !.pc = "done"] /\ link' = Return(l, Chain, E)
  BY DEF ChainReturn, ChainUnchanged, leafVars, useVars, outVars, config
<1>2. /\ providers # 1 /\ Lead = chain.at /\ Source = Chain /\ Source' = Source /\ Lead' = Lead
      /\ Asked /\ link[Chain].state = "open" /\ link[Chain].err = {}
      /\ Lead # 0 /\ Lead \in Leaves /\ Lead \in Links /\ Lead # Chain /\ Lead # Use
      /\ use.pc # "log" /\ drained \subseteq 1 .. chain.at
      /\ drained' \subseteq 1 .. chain.at /\ drained' \subseteq Leaves
      /\ chain'.pc = "done" /\ chain'.at = chain.at /\ chain'.committed = chain.committed
  <2>1. chain'.pc = "done" /\ chain'.at = chain.at /\ chain'.committed = chain.committed
    BY <1>0, <1>1 DEF TypeOK
  <2>2. providers # 1 /\ Lead = chain.at /\ Source = Chain /\ Source' = Source /\ Lead' = Lead
        /\ Asked /\ link[Chain].state = "open" /\ link[Chain].err = {} /\ use.pc # "log"
        /\ drained \subseteq 1 .. chain.at /\ drained \subseteq Leaves
    BY <1>0, <1>1, <2>1, ChainWorking DEF Lead, Source
  <2>3. Lead # 0
    BY <1>0, <1>1, <2>2 DEF ChainOK
  <2>4. Lead \in Leaves /\ Lead \in Links
    BY <1>0, <2>3, Sources
  <2>5. chain.at \in 1 .. chain.at
    BY <2>2, <2>4, Places
  <2> QED
    BY <2>1, <2>2, <2>3, <2>4, <2>5, Places
<1>3. /\ link'[Chain].state = "returning" /\ link'[Chain].offer = {} /\ link'[Chain].err = E
      /\ link'[Lead].state = link[Lead].state /\ link'[Lead].offer = link[Lead].offer
      /\ link'[Lead].err = F
      /\ \A c \in Links \ {Chain, Lead} : link'[c] = link[c]
      /\ link' \in [Links -> Channel]
  <2>1. link \in [Links -> Channel]
    BY <1>0 DEF TypeOK, Channel
  <2>2. l \in [Links -> Channel]
    BY <1>2, <2>1, ChannelTypes
  <2>3. /\ l[Lead].state = link[Lead].state /\ l[Lead].offer = link[Lead].offer
        /\ l[Lead].err = F /\ \A c \in Links \ {Lead} : l[c] = link[c]
    BY <1>2, <2>1
  <2> HIDE DEF l
  <2>4. link' \in [Links -> Channel]
    BY <1>1, <2>2, ChannelTypes, Places
  <2> QED
    BY <1>1, <1>2, <2>2, <2>3, <2>4, Places DEF Return
<1> HIDE DEF l
<1>4. TypeOK'
  <2>1. chain' \in [pc : {"next", "select", "done"}, at : 0 .. MaxProviders,
                    committed : BOOLEAN, toksOpen : BOOLEAN, errsOpen : BOOLEAN]
    BY <1>0, <1>1 DEF TypeOK
  <2>2. served' \in 0 .. MaxProviders /\ drained' \subseteq Leaves
    BY <1>0, <1>1, <1>2 DEF TypeOK
  <2> QED
    BY <1>0, <1>1, <1>3, <2>1, <2>2, ChainTyped
<1>5. ChannelsOK'
  BY <1>0, <1>1, <1>2, <1>3 DEF ChannelsOK, Returned
<1>6. LeavesOK'
  <2>1. gone' = gone /\ sent' = sent /\ verdict' = verdict /\ drained \subseteq drained' /\ Lead' = Lead
    BY <1>1, <1>2
  <2>2. \A p \in Leaves : /\ link'[p].state = link[p].state /\ link'[p].offer = link[p].offer
                          /\ p # Lead => link'[p].err = link[p].err
                          /\ link'[p].err # {} => link[p].err # {}
                          /\ link'[p].err = {} => link[p].err = {} \/ p \in drained'
    BY <1>2, <1>3, Places
  <2> QED
    BY <1>0, <2>1, <2>2 DEF LeavesOK
<1>7. SingleOK'
  BY <1>0, <1>1, <1>2, <1>3, Places DEF SingleOK, Asked
<1>8. ChainOK'
  BY <1>0, <1>1, <1>2, <1>3, Places DEF ChainOK, Asked
<1>9. UseOK'
  BY <1>0, <1>1, <1>2, <1>3, Sources, Places DEF UseOK, Asked, Closed, ErrsClosed
<1>10. HandlerOK'
  BY <1>0, <1>1, <1>2, <1>3, Places DEF HandlerOK, ErrsClosed
<1>11. OffersOK'
  BY <1>0, <1>1, <1>2, <1>3, Places DEF OffersOK
<1>12. CountOK'
  <2>1. Held(Chain) \in {0, 1} /\ Held(Lead) \in {0, 1} /\ Held(Chain)' = 0 /\ Held(Lead)' = Held(Lead)
    BY <1>2, <1>3 DEF Held
  <2>2. use.count \in Nat /\ sent[Lead] \in Nat
    BY <1>0, <1>2 DEF TypeOK
  <2> QED
    BY <1>0, <1>1, <1>2, <2>1, <2>2 DEF CountOK
<1>13. DeliveredOK'
  <2>1. Held(Use)' = Held(Use)
    BY <1>1, <1>2, <1>3, Places DEF Held
  <2> QED
    BY <1>0, <1>1, <1>2, <1>3, <2>1 DEF DeliveredOK
<1>14. LogsOK'
  BY <1>0, <1>1, <1>2, <1>3, Places DEF LogsOK
<1>15. ErrorsOK'
  <2>1. link'[Use].err = link[Use].err /\ ~Blamed
    BY <1>1, <1>2, <1>3, Places DEF Blamed
  <2>2. ~gone => Blamed'
    <3>1. ~gone => use.count + Held(Chain) # 0 /\ Held(Chain) = 0 /\ verdict[Lead] = "failed"
      BY <1>0, <1>1, <1>2 DEF CountOK, Held
    <3> QED
      BY <1>0, <1>1, <1>2, <3>1 DEF Blamed, TypeOK
  <2> QED
    BY <1>0, <1>1, <1>2, <2>1, <2>2 DEF ErrorsOK
<1> QED
  BY <1>4, <1>5, <1>6, <1>7, <1>8, <1>9, <1>10, <1>11, <1>12, <1>13, <1>14, <1>15 DEF StreamInv

LEMMA ChainFailsOverKeeps ==
  ASSUME StreamInv, Selecting, link[chain.at].err # {}, MayFailOver,
         drained' = drained \cup {chain.at}, link' = [link EXCEPT ![chain.at].err = {}],
         chain' = [chain EXCEPT !.pc = "next"], UNCHANGED served, ChainUnchanged
  PROVE  StreamInv'
<1>0. TypeOK /\ ChannelsOK /\ LeavesOK /\ SingleOK /\ ChainOK /\ UseOK /\ HandlerOK
      /\ OffersOK /\ CountOK /\ DeliveredOK /\ LogsOK /\ ErrorsOK
  BY DEF StreamInv
<1>1. /\ UNCHANGED <<providers, sse, gone, served, use, usage, training, outcomes,
                     handler, delivered, reply, sent, verdict>>
      /\ chain.pc = "select" /\ link[Chain].offer = {} /\ ~gone /\ ~chain.committed
  BY DEF Selecting, MayFailOver, ChainUnchanged, leafVars, useVars, outVars, config
<1>2. /\ providers # 1 /\ Lead = chain.at /\ Source = Chain /\ Source' = Source /\ Lead' = Lead
      /\ Asked /\ link[Chain].state = "open" /\ link[Chain].err = {}
      /\ Lead # 0 /\ Lead \in Leaves /\ Lead \in Links /\ Lead # Chain /\ Lead # Use
      /\ use.pc # "log" /\ verdict[Lead] = "failed"
      /\ drained' \subseteq 1 .. chain.at /\ drained' \subseteq Leaves
      /\ chain'.pc = "next" /\ chain'.at = chain.at /\ chain'.committed = chain.committed
  <2>1. chain'.pc = "next" /\ chain'.at = chain.at /\ chain'.committed = chain.committed
    BY <1>0, <1>1 DEF TypeOK
  <2>2. providers # 1 /\ Lead = chain.at /\ Source = Chain /\ Source' = Source /\ Lead' = Lead
        /\ Asked /\ link[Chain].state = "open" /\ link[Chain].err = {} /\ use.pc # "log"
        /\ drained \subseteq 1 .. chain.at /\ drained \subseteq Leaves
    BY <1>0, <1>1, <2>1, ChainWorking DEF Lead, Source
  <2>3. Lead # 0
    BY <1>0, <1>1, <2>2 DEF ChainOK
  <2>4. Lead \in Leaves /\ Lead \in Links
    BY <1>0, <2>3, Sources
  <2>5. chain.at \in 1 .. chain.at
    BY <2>2, <2>4, Places
  <2>6. verdict[Lead] \in {"failed", "canceled"} /\ verdict[Lead] # "canceled"
    BY <1>0, <1>1, <2>2, <2>4 DEF LeavesOK
  <2> QED
    BY <2>1, <2>2, <2>3, <2>4, <2>5, <2>6, Places
<1>3. /\ link'[Lead].state = link[Lead].state /\ link'[Lead].offer = link[Lead].offer
      /\ link'[Lead].err = {}
      /\ \A c \in Links \ {Lead} : link'[c] = link[c]
      /\ link' \in [Links -> Channel]
  <2>1. link \in [Links -> Channel]
    BY <1>0 DEF TypeOK, Channel
  <2>2. link' \in [Links -> Channel]
    BY <1>2, <2>1, ChannelTypes
  <2> QED
    BY <1>2, <2>1, <2>2, Places
<1>4. TypeOK'
  <2>1. chain' \in [pc : {"next", "select", "done"}, at : 0 .. MaxProviders,
                    committed : BOOLEAN, toksOpen : BOOLEAN, errsOpen : BOOLEAN]
    BY <1>0 DEF TypeOK
  <2>2. served' \in 0 .. MaxProviders /\ drained' \subseteq Leaves
    BY <1>0, <1>1, <1>2 DEF TypeOK
  <2> QED
    BY <1>0, <1>1, <1>3, <2>1, <2>2, ChainTyped
<1>5. ChannelsOK'
  BY <1>0, <1>1, <1>2, <1>3 DEF ChannelsOK, Returned
<1>6. LeavesOK'
  <2>1. gone' = gone /\ sent' = sent /\ verdict' = verdict /\ drained \subseteq drained' /\ Lead' = Lead
        /\ Lead \in drained'
    BY <1>1, <1>2
  <2>2. \A p \in Leaves : /\ link'[p].state = link[p].state /\ link'[p].offer = link[p].offer
                          /\ p # Lead => link'[p].err = link[p].err
    BY <1>2, <1>3, Places
  <2> QED
    BY <1>0, <1>3, <2>1, <2>2 DEF LeavesOK
<1>7. SingleOK'
  BY <1>0, <1>1, <1>2, <1>3, Places DEF SingleOK, Asked
<1>8. ChainOK'
  BY <1>0, <1>1, <1>2, <1>3, Places DEF ChainOK, Asked, Returned
<1>9. UseOK'
  BY <1>0, <1>1, <1>2, <1>3, Sources, Places DEF UseOK, Asked, Closed, ErrsClosed
<1>10. HandlerOK'
  BY <1>0, <1>1, <1>2, <1>3, Places DEF HandlerOK, ErrsClosed
<1>11. OffersOK'
  BY <1>0, <1>1, <1>2, <1>3, Places DEF OffersOK
<1>12. CountOK'
  <2>1. Held(Chain)' = Held(Chain) /\ Held(Lead)' = Held(Lead)
    BY <1>2, <1>3, Places DEF Held
  <2> QED
    BY <1>0, <1>1, <1>2, <2>1 DEF CountOK
<1>13. DeliveredOK'
  <2>1. Held(Use)' = Held(Use)
    BY <1>1, <1>2, <1>3, Places DEF Held
  <2> QED
    BY <1>0, <1>1, <1>2, <1>3, <2>1 DEF DeliveredOK
<1>14. LogsOK'
  BY <1>0, <1>1, <1>2, <1>3, Places DEF LogsOK
<1>15. ErrorsOK'
  <2>1. ~Blamed /\ link'[Use].err = link[Use].err /\ link'[Chain].err = {}
    BY <1>1, <1>2, <1>3, Places DEF Blamed
  <2> QED
    BY <1>0, <1>1, <1>2, <2>1 DEF ErrorsOK
<1> QED
  BY <1>4, <1>5, <1>6, <1>7, <1>8, <1>9, <1>10, <1>11, <1>12, <1>13, <1>14, <1>15 DEF StreamInv

LEMMA ChainErrorKeeps ==
  ASSUME StreamInv, ChainError
  PROVE  StreamInv'
<1>0. TypeOK /\ ChannelsOK /\ LeavesOK /\ SingleOK /\ ChainOK /\ UseOK /\ HandlerOK
      /\ OffersOK /\ CountOK /\ DeliveredOK /\ LogsOK /\ ErrorsOK
  BY DEF StreamInv
<1>1. /\ Selecting /\ link[chain.at].err # {} /\ drained' = drained \cup {chain.at}
      /\ UNCHANGED served /\ ChainUnchanged
  BY DEF ChainError
<1>2. chain.pc = "select" /\ link[Chain].offer = {}
  BY <1>1 DEF Selecting
<1>3. CASE /\ MayFailOver /\ link' = [link EXCEPT ![chain.at].err = {}]
           /\ chain' = [chain EXCEPT !.pc = "next"]
  BY <1>1, <1>3, ChainFailsOverKeeps
<1>4. CASE /\ ~MayFailOver
           /\ ChainReturn([link EXCEPT ![chain.at].err = {}],
                          IF gone THEN {"canceled"} ELSE link[chain.at].err)
  <2> DEFINE E == IF gone THEN {"canceled"} ELSE link[chain.at].err
  <2>1. E \in SUBSET Errors /\ E # {} /\ chain.at \in Leaves
    <3>1. chain.at \in Links /\ chain.at # 0 /\ (chain.at # 0 => chain.at \in Leaves)
      BY <1>0, <1>2, ChainWorking, Sources DEF ChainOK
    <3> QED
      BY <1>0, <1>1, <3>1 DEF TypeOK, Errors
  <2>2. gone \/ (chain.committed /\ verdict[chain.at] = "failed")
    BY <1>0, <1>1, <1>4, <2>1 DEF MayFailOver, LeavesOK
  <2> HIDE DEF E
  <2>3. ChainReturn([link EXCEPT ![chain.at].err = {}], E)
    BY <1>4 DEF E
  <2>4. chain.at \in drained' /\ {} \in SUBSET Errors /\ {} \subseteq link[chain.at].err
    BY <1>1
  <2> QED
    BY <1>1, <1>2, <2>1, <2>2, <2>3, <2>4, ChainGivesUpKeeps
<1> QED
  BY <1>3, <1>4 DEF ChainError

LEMMA ChainCanceledKeeps ==
  ASSUME StreamInv, ChainCanceled
  PROVE  StreamInv'
<1>0. TypeOK /\ ChannelsOK /\ LeavesOK /\ SingleOK /\ ChainOK /\ UseOK /\ HandlerOK
      /\ OffersOK /\ CountOK /\ DeliveredOK /\ LogsOK /\ ErrorsOK
  BY DEF StreamInv
<1>1. /\ gone /\ chain.pc = "select" /\ drained' \in {drained, drained \cup {chain.at}}
      /\ ChainReturn(link, {"canceled"}) /\ UNCHANGED served /\ ChainUnchanged
  BY DEF ChainCanceled
<1>2. chain.at \in Links /\ link \in [Links -> Channel]
  BY <1>0, Sources DEF TypeOK, Channel
<1>3. link = [link EXCEPT ![chain.at].err = link[chain.at].err] /\ link[chain.at].err \in SUBSET Errors
  BY <1>2 DEF Channel
<1>4. {"canceled"} \in SUBSET Errors
  BY DEF Errors
<1>5. ChainReturn([link EXCEPT ![chain.at].err = link[chain.at].err], {"canceled"})
  BY <1>1, <1>3
<1> QED
  BY <1>1, <1>3, <1>4, <1>5, ChainGivesUpKeeps

-----------------------------------------------------------------------------
(***************************************************************************)
(* The use case.                                                           *)
(***************************************************************************)
\* The use case at work: nothing has been recorded, nobody has been refused.
LEMMA UseWorking ==
  ASSUME TypeOK, UseOK, ChannelsOK, HandlerOK, LogsOK, use.pc \in {"select", "log"}
  PROVE  /\ link[Use].state = "open" /\ link[Use].err = {} /\ Asked /\ outcomes = <<>>
         /\ usage = 0 /\ training = <<>> /\ reply # "done"
         /\ (handler.pc = "select" => handler.errsOpen)
<1>1. link[Use].state = "open" /\ link[Use].err = {} /\ Asked
  BY Places DEF UseOK, ChannelsOK, Returned, Asked
<1>2. outcomes = <<>>
  BY DEF LogsOK
<1>3. training = <<>> /\ usage <= Len(training) /\ usage \in Nat /\ reply # "done"
  BY <1>2 DEF LogsOK, TypeOK
<1> QED
  BY <1>1, <1>2, <1>3 DEF HandlerOK, ErrsClosed

LEMMA UseTyped ==
  ASSUME TypeOK, link' \in [Links -> Channel],
         use' \in [pc : {"preflight", "select", "log", "done"}, errsOpen : BOOLEAN,
                   count : 0 .. MaxProviders * MaxTokens],
         outcomes' \in Seq({"refused", "ok", "provider_failed", "client_gone"}),
         usage' \in Nat, training' \in Seq([model : Leaves, length : Nat]),
         UNCHANGED <<providers, sse, gone, sent, verdict, chain, drained, served,
                     handler, delivered, reply>>
  PROVE  TypeOK'
<1>1. /\ providers' = providers /\ sse' = sse /\ gone' = gone /\ sent' = sent /\ verdict' = verdict
      /\ chain' = chain /\ drained' = drained /\ served' = served
      /\ handler' = handler /\ delivered' = delivered /\ reply' = reply
  OBVIOUS
<1> QED
  BY <1>1 DEF TypeOK, Channel

LEMMA UseRefuseKeeps ==
  ASSUME StreamInv, UseRefuse
  PROVE  StreamInv'
<1>0. TypeOK /\ ChannelsOK /\ LeavesOK /\ SingleOK /\ ChainOK /\ UseOK /\ HandlerOK
      /\ OffersOK /\ CountOK /\ DeliveredOK /\ LogsOK /\ ErrorsOK
  BY DEF StreamInv
<1>1. /\ UNCHANGED <<providers, sse, gone, link, sent, verdict, chain, drained, served, usage,
                     training, delivered>>
      /\ use.pc = "preflight" /\ use' = [use EXCEPT !.pc = "done"]
      /\ outcomes' = Append(outcomes, "refused") /\ reply' = "error"
      /\ handler' = [handler EXCEPT !.pc = "done"]
  BY DEF UseRefuse, config, leafVars
<1>2. /\ Lead' = Lead /\ Source' = Source /\ ~Asked /\ outcomes = <<>> /\ outcomes' = <<"refused">>
      /\ use'.pc = "done" /\ use'.count = use.count /\ use'.errsOpen = use.errsOpen
      /\ handler'.pc = "done" /\ handler'.errsOpen = handler.errsOpen
  <2>1. outcomes = <<>> /\ ~Asked
    BY <1>0, <1>1 DEF LogsOK, UseOK
  <2> QED
    BY <1>0, <1>1, <2>1 DEF TypeOK, Lead, Source
<1>3. \A c \in Links : Held(c)' = Held(c)
  BY <1>1 DEF Held
<1>4. TypeOK'
  <2>1. /\ providers' = providers /\ sse' = sse /\ gone' = gone /\ sent' = sent /\ verdict' = verdict
        /\ chain' = chain /\ drained' = drained /\ served' = served /\ link' = link
        /\ usage' = usage /\ training' = training /\ delivered' = delivered
    BY <1>1
  <2>2. use' \in [pc : {"preflight", "select", "log", "done"}, errsOpen : BOOLEAN,
                   count : 0 .. MaxProviders * MaxTokens]
    BY <1>0, <1>1 DEF TypeOK
  <2>3. handler' \in [pc : {"select", "drain", "done"}, errsOpen : BOOLEAN]
    BY <1>0, <1>1 DEF TypeOK
  <2>4. outcomes' \in Seq({"refused", "ok", "provider_failed", "client_gone"})
    BY <1>0, <1>1 DEF TypeOK
  <2> QED
    BY <1>0, <1>1, <2>1, <2>2, <2>3, <2>4 DEF TypeOK
<1>5. ChannelsOK'
  BY <1>0, <1>1, <1>2, <1>3 DEF ChannelsOK, Returned
<1>6. LeavesOK'
  BY <1>0, <1>1, <1>2, <1>3, Places DEF LeavesOK
<1>7. SingleOK'
  BY <1>0, <1>1, <1>2, <1>3, Places DEF SingleOK, Asked
<1>8. ChainOK'
  BY <1>0, <1>1, <1>2, <1>3, Sources, Places DEF ChainOK, Asked, Closed, ErrsClosed, Returned
<1>9. UseOK'
  BY <1>0, <1>1, <1>2, Places DEF UseOK, Asked
<1>10. HandlerOK'
  BY <1>0, <1>1, <1>2, <1>3, Places DEF HandlerOK, ErrsClosed
<1>11. OffersOK'
  BY <1>0, <1>1, <1>2, <1>3, Places DEF OffersOK
<1>12. CountOK'
  BY <1>0, <1>1, <1>2, <1>3, Sources, Places DEF CountOK
<1>13. DeliveredOK'
  BY <1>0, <1>1, <1>2, <1>3, Places DEF DeliveredOK
<1>14. LogsOK'
  BY <1>0, <1>1, <1>2 DEF LogsOK
<1>15. ErrorsOK'
  BY <1>0, <1>1, <1>2 DEF ErrorsOK, Blamed, Asked
<1> QED
  BY <1>4, <1>5, <1>6, <1>7, <1>8, <1>9, <1>10, <1>11, <1>12, <1>13, <1>14, <1>15 DEF StreamInv

LEMMA UseAdmitKeeps ==
  ASSUME StreamInv, UseAdmit
  PROVE  StreamInv'
<1>0. TypeOK /\ ChannelsOK /\ LeavesOK /\ SingleOK /\ ChainOK /\ UseOK /\ HandlerOK
      /\ OffersOK /\ CountOK /\ DeliveredOK /\ LogsOK /\ ErrorsOK
  BY DEF StreamInv
<1>1. /\ UNCHANGED <<providers, sse, gone, sent, verdict, drained, usage, training, outcomes,
                     handler, delivered, reply>>
      /\ use.pc = "preflight" /\ use' = [use EXCEPT !.pc = "select"]
      /\ link' = Open(Open(link, Source), Use) /\ served' = IF Source = 1 THEN 1 ELSE served
      /\ chain' = IF Source = Chain THEN [chain EXCEPT !.pc = "next"] ELSE chain
  BY DEF UseAdmit, UseUnchanged, Stamped, config, leafVars, outVars
<1>2. /\ Lead' = Lead /\ Source' = Source /\ ~Asked /\ outcomes = <<>>
      /\ use'.pc = "select" /\ use'.count = use.count /\ use'.errsOpen = use.errsOpen /\ use.errsOpen
      /\ chain'.at = chain.at /\ chain'.committed = chain.committed
      /\ providers = 1 => Source = 1 /\ Lead = 1 /\ chain' = chain /\ served' = 1
      /\ providers # 1 => Source = Chain /\ Lead = 0 /\ chain'.pc = "next" /\ served' = served
                          /\ chain.at = 0 /\ ~chain.committed
  <2>1. outcomes = <<>> /\ ~Asked /\ use.errsOpen
    BY <1>0, <1>1 DEF LogsOK, UseOK
  <2>2. use'.pc = "select" /\ use'.count = use.count /\ use'.errsOpen = use.errsOpen
    BY <1>0, <1>1 DEF TypeOK
  <2>3. CASE providers = 1
    <3>1. Source = 1 /\ Source # Chain /\ Lead = 1
      BY <1>0, <2>3, Sources, Places
    <3> QED
      BY <1>1, <2>1, <2>2, <2>3, <3>1 DEF Lead, Source
  <2>4. CASE providers # 1
    <3>1. Source = Chain /\ Source # 1 /\ Lead = chain.at /\ chain.at = 0 /\ ~chain.committed
      BY <1>0, <2>1, <2>4, Sources, Places DEF ChainOK
    <3>2. chain'.pc = "next" /\ chain'.at = chain.at /\ chain'.committed = chain.committed
      BY <1>0, <1>1, <3>1 DEF TypeOK
    <3> QED
      BY <1>1, <2>1, <2>2, <2>4, <3>1, <3>2 DEF Lead, Source
  <2> QED
    BY <2>3, <2>4
<1>3. /\ link'[Source].state = "open" /\ link'[Source].offer = {} /\ link'[Source].err = {}
      /\ link'[Use].state = "open" /\ link'[Use].offer = {} /\ link'[Use].err = {}
      /\ \A c \in Links \ {Source, Use} : link'[c] = link[c]
      /\ link' \in [Links -> Channel]
      /\ Source \in Links /\ Source # Use
      /\ link[Source].state = "idle" /\ link[Source].offer = {} /\ link[Source].err = {}
      /\ link[Use].state = "idle" /\ link[Use].offer = {} /\ link[Use].err = {}
  <2> DEFINE l == Open(link, Source)
  <2>1. Source \in Links /\ Source # Use /\ Use \in Links /\ link \in [Links -> Channel]
    BY <1>0, Sources, Places DEF TypeOK, Channel
  <2>2. l \in [Links -> Channel]
    BY <2>1, ChannelTypes
  <2>3. link[Source].state = "idle" /\ link[Use].state = "idle"
    BY <1>0, <1>2 DEF SingleOK, ChainOK, Asked
  <2>4. /\ link[Source].offer = {} /\ link[Source].err = {}
        /\ link[Use].offer = {} /\ link[Use].err = {}
    BY <1>0, <2>1, <2>3 DEF ChannelsOK, Returned
  <2>5. /\ l[Source].state = "open" /\ l[Source].offer = {} /\ l[Source].err = {}
        /\ \A c \in Links \ {Source} : l[c] = link[c]
    BY <2>1, <2>4 DEF Open
  <2>6. link' = Open(l, Use)
    BY <1>1
  <2> HIDE DEF l
  <2>7. link' \in [Links -> Channel]
    BY <2>1, <2>2, <2>6, ChannelTypes
  <2> QED
    BY <2>1, <2>2, <2>3, <2>4, <2>5, <2>6, <2>7 DEF Open
<1>a. /\ use.count = 0 /\ Held(Chain) = 0 /\ Held(Chain)' = 0 /\ Held(Use) = 0 /\ Held(Use)' = 0
      /\ Held(Lead) = 0 /\ Held(Lead)' = 0
      /\ providers = 1 => sent[Lead] = 0
  <2>1. Held(Source) = 0 /\ Held(Source)' = 0 /\ Held(Use) = 0 /\ Held(Use)' = 0
    BY <1>2, <1>3 DEF Held
  <2>2. Held(Chain) = 0 /\ Held(Chain)' = 0 /\ Held(Lead) = 0 /\ Held(Lead)' = 0
    <3>1. CASE providers = 1
      <4>1. link[Chain].state = "idle" /\ Chain # Source
        BY <1>0, <1>2, <3>1, Places DEF SingleOK
      <4>2. link[Chain].offer = {} /\ link'[Chain] = link[Chain]
        BY <1>0, <1>3, <4>1, Places DEF ChannelsOK
      <4> QED
        BY <1>2, <2>1, <3>1, <4>2 DEF Held
    <3>2. CASE providers # 1
      BY <1>2, <2>1, <3>2 DEF Held, Use
    <3> QED
      BY <3>1, <3>2
  <2>3. providers = 1 => sent[Lead] = 0
    BY <1>0, <1>2, <1>3, Places DEF LeavesOK
  <2>4. use.count \in Nat
    BY <1>0 DEF TypeOK
  <2>5. use.count = 0
    BY <1>0, <1>2, <2>2, <2>3, <2>4 DEF CountOK
  <2> QED
    BY <2>1, <2>2, <2>3, <2>5
<1>4. TypeOK'
  <2>1. /\ providers' = providers /\ sse' = sse /\ gone' = gone /\ sent' = sent /\ verdict' = verdict
        /\ drained' = drained /\ handler' = handler /\ reply' = reply /\ outcomes' = outcomes
        /\ usage' = usage /\ training' = training /\ delivered' = delivered
    BY <1>1
  <2>2. use' \in [pc : {"preflight", "select", "log", "done"}, errsOpen : BOOLEAN,
                   count : 0 .. MaxProviders * MaxTokens]
    BY <1>0, <1>1 DEF TypeOK
  <2>3. chain' \in [pc : {"next", "select", "done"}, at : 0 .. MaxProviders,
                    committed : BOOLEAN, toksOpen : BOOLEAN, errsOpen : BOOLEAN]
    BY <1>0, <1>1 DEF TypeOK
  <2>4. served' \in 0 .. MaxProviders
    BY <1>0, <1>1, Places DEF TypeOK
  <2> QED
    BY <1>0, <1>3, <2>1, <2>2, <2>3, <2>4 DEF TypeOK, Channel
<1>5. ChannelsOK'
  BY <1>0, <1>1, <1>2, <1>3 DEF ChannelsOK, Returned
<1>6. LeavesOK'
  <2>1. gone' = gone /\ sent' = sent /\ verdict' = verdict /\ drained' = drained /\ Lead' = Lead
    BY <1>1, <1>2
  <2>2. \A p \in Leaves : p # Source => link'[p] = link[p]
    BY <1>3, Places
  <2>3. Source \in Leaves => Source = Lead
    BY <1>2, Places
  <2>4. \A p \in Leaves : p = Source =>
          link'[p].state = "open" /\ link[p].state = "idle" /\ link'[p].offer = {} /\ link'[p].err = {}
          /\ link[p].err = {}
    BY <1>3
  <2>5. ASSUME NEW p \in Leaves, p = Source
        PROVE  /\ verdict[p] = "none" /\ link'[p].state = "open" /\ link'[p].offer = {}
               /\ link'[p].err = {} /\ ~(p > Lead)
    BY <1>0, <2>3, <2>4, <2>5, Places DEF LeavesOK
  <2> QED
    BY <1>0, <2>1, <2>2, <2>5 DEF LeavesOK
<1>7. SingleOK'
  BY <1>0, <1>1, <1>2, <1>3, Places DEF SingleOK, Asked
<1>8. ChainOK'
  BY <1>0, <1>1, <1>2, <1>3, Places DEF ChainOK, Asked, Returned
<1>9. UseOK'
  BY <1>0, <1>1, <1>2, <1>3, Places DEF UseOK, Asked
<1>10. HandlerOK'
  BY <1>0, <1>1, <1>2, <1>3, Places DEF HandlerOK, ErrsClosed
<1>11. OffersOK'
  BY <1>2, <1>3, <1>a, Places DEF OffersOK, Held
<1>12. CountOK'
  BY <1>0, <1>1, <1>2, <1>a, ZenonT(60) DEF CountOK
<1>13. DeliveredOK'
  BY <1>0, <1>1, <1>2, <1>a DEF DeliveredOK
<1>14. LogsOK'
  BY <1>0, <1>1, <1>2, <1>3 DEF LogsOK
<1>15. ErrorsOK'
  <2>1. reply = "none"
    BY <1>0, <1>1 DEF HandlerOK
  <2> QED
    BY <1>1, <1>2, <1>3, <2>1 DEF ErrorsOK
<1> QED
  BY <1>4, <1>5, <1>6, <1>7, <1>8, <1>9, <1>10, <1>11, <1>12, <1>13, <1>14, <1>15 DEF StreamInv

\* No answer is longer than the count's range.
LEMMA CountRange ==
  ASSUME NEW n \in Nat, n <= MaxTokens
  PROVE  n \in 0 .. MaxProviders * MaxTokens
<1>1. MaxTokens <= MaxProviders * MaxTokens /\ MaxProviders * MaxTokens \in Nat
  BY StreamAssumption
<1> QED
  BY <1>1, StreamAssumption

LEMMA UseTokenKeeps ==
  ASSUME StreamInv, UseToken
  PROVE  StreamInv'
<1>0. TypeOK /\ ChannelsOK /\ LeavesOK /\ SingleOK /\ ChainOK /\ UseOK /\ HandlerOK
      /\ OffersOK /\ CountOK /\ DeliveredOK /\ LogsOK /\ ErrorsOK
  BY DEF StreamInv
<1>1. /\ UNCHANGED <<providers, sse, gone, sent, verdict, drained, chain, served, usage, training,
                     outcomes, handler, delivered, reply>>
      /\ use.pc = "select" /\ link[Use].offer = {} /\ link[Source].offer # {}
      /\ use' = [use EXCEPT !.count = @ + 1]
      /\ link' = [link EXCEPT ![Source].offer = {}, ![Use].offer = link[Source].offer]
  BY DEF UseToken, UseSelecting, Forward, UseUnchanged, config, leafVars, outVars
<1>2. /\ Lead' = Lead /\ Source' = Source /\ Asked /\ outcomes = <<>>
      /\ use'.pc = "select" /\ use'.count = use.count + 1 /\ use'.errsOpen = use.errsOpen
      /\ link[Use].state = "open" /\ link[Use].err = {} /\ link[Source].state = "open"
      /\ Source \in Links /\ Source # Use /\ use.count \in Nat /\ link[Source].err = {}
  <2>1. use'.pc = "select" /\ use'.count = use.count + 1 /\ use'.errsOpen = use.errsOpen /\ use.count \in Nat
    BY <1>0, <1>1, Places DEF TypeOK
  <2>2. Lead' = Lead /\ Source' = Source
    BY <1>1 DEF Lead, Source
  <2>3. Source \in Links /\ Source # Use
    BY <1>0, Sources
  <2>4. link[Source].state = "open" /\ link[Source].err = {}
    BY <1>0, <1>1, <2>3 DEF ChannelsOK, Returned
  <2> QED
    BY <1>0, <1>1, <2>1, <2>2, <2>3, <2>4, UseWorking
<1>3. /\ link'[Source].state = "open" /\ link'[Source].offer = {} /\ link'[Source].err = {}
      /\ link'[Use].state = "open" /\ link'[Use].offer = link[Source].offer /\ link'[Use].err = {}
      /\ \A c \in Links \ {Source, Use} : link'[c] = link[c]
      /\ link' \in [Links -> Channel]
  <2> DEFINE l == [link EXCEPT ![Source].offer = {}]
  <2>1. link \in [Links -> Channel] /\ link[Source].offer \in SUBSET Tokens
    BY <1>0, <1>2 DEF TypeOK, Channel
  <2>2. l \in [Links -> Channel]
    BY <1>2, <2>1, ChannelTypes
  <2>3. link' = [l EXCEPT ![Use].offer = link[Source].offer]
    BY <1>1, <1>2
  <2>4. /\ l[Source].state = "open" /\ l[Source].offer = {} /\ l[Source].err = {}
        /\ \A c \in Links \ {Source} : l[c] = link[c]
    BY <1>2, <2>1
  <2> HIDE DEF l
  <2>5. link' \in [Links -> Channel]
    BY <2>1, <2>2, <2>3, ChannelTypes, Places
  <2> QED
    BY <1>2, <2>2, <2>3, <2>4, <2>5, Places
<1>a. /\ Lead # 0 /\ Lead \in Leaves /\ Lead \in Links /\ sent[Lead] \in 0 .. MaxTokens
      /\ Held(Chain) + Held(Lead) = Held(Chain)' + Held(Lead)' + 1
      /\ Held(Chain) \in {0, 1} /\ Held(Lead) \in {0, 1} /\ Held(Chain)' \in {0, 1} /\ Held(Lead)' \in {0, 1}
      /\ providers # 1 => Held(Chain) = 1 /\ Held(Chain)' = 0 /\ Held(Lead)' = Held(Lead)
      /\ providers = 1 => Held(Chain)' = Held(Chain) /\ verdict[Lead] = "none"
      /\ Held(Use) = 0 /\ Held(Use)' = 1
      /\ use.count + Held(Chain) + Held(Lead) <= sent[Lead]
  <2>1. Held(Source) = 1 /\ Held(Source)' = 0 /\ Held(Use) = 0 /\ Held(Use)' = 1
    BY <1>1, <1>2, <1>3 DEF Held
  <2>2. Lead # 0
    <3>1. CASE providers = 1
      BY <1>0, <3>1, Sources
    <3>2. CASE providers # 1
      BY <1>0, <1>2, <2>1, <3>2, Sources DEF CountOK
    <3> QED
      BY <3>1, <3>2
  <2>3. Lead \in Leaves /\ Lead \in Links /\ sent[Lead] \in 0 .. MaxTokens
    BY <1>0, <2>2, Sources DEF TypeOK
  <2>4. Held(Chain) \in {0, 1} /\ Held(Lead) \in {0, 1} /\ Held(Chain)' \in {0, 1} /\ Held(Lead)' \in {0, 1}
    BY DEF Held
  <2>5. providers # 1 => Held(Chain) = 1 /\ Held(Chain)' = 0 /\ Held(Lead)' = Held(Lead)
    BY <1>0, <1>2, <1>3, <2>1, <2>3, Sources, Places DEF Held
  <2>6. providers = 1 => Held(Chain)' = Held(Chain) /\ Held(Lead) = 1 /\ Held(Lead)' = 0
                         /\ verdict[Lead] = "none"
    BY <1>0, <1>2, <1>3, <2>1, <2>3, Sources, Places DEF Held, LeavesOK
  <2> QED
    BY <1>0, <2>1, <2>2, <2>3, <2>4, <2>5, <2>6 DEF CountOK
<1>b. link[Source].offer \subseteq {[from |-> Lead, n |-> use.count + 1]}
  <2>1. CASE providers = 1
    <3>1. Source = Lead /\ link[Lead].offer \subseteq {[from |-> Lead, n |-> sent[Lead]]}
      BY <1>0, <1>a, <2>1, Sources DEF LeavesOK
    <3>2. Held(Lead) = 1 /\ Held(Chain) = 0
      BY <1>0, <1>1, <1>a, <2>1, <3>1, Places DEF Held, SingleOK, ChannelsOK
    <3>3. use.count + 1 = sent[Lead]
      BY <1>0, <1>2, <1>a, <2>1, <3>2 DEF CountOK
    <3> QED
      BY <3>1, <3>3
  <2>2. CASE providers # 1
    BY <1>0, <2>2, Sources DEF OffersOK
  <2> QED
    BY <2>1, <2>2
<1>4. TypeOK'
  <2>1. use.count + 1 \in 0 .. MaxProviders * MaxTokens
    BY <1>2, <1>a, CountRange, Places, SMTT(30)
  <2>2. use' \in [pc : {"preflight", "select", "log", "done"}, errsOpen : BOOLEAN,
                   count : 0 .. MaxProviders * MaxTokens]
    BY <1>0, <1>1, <2>1 DEF TypeOK
  <2> QED
    BY <1>0, <1>1, <1>3, <2>2, UseTyped DEF TypeOK
<1>5. ChannelsOK'
  BY <1>0, <1>1, <1>2, <1>3 DEF ChannelsOK, Returned
<1>6. LeavesOK'
  <2>1. gone' = gone /\ sent' = sent /\ verdict' = verdict /\ drained' = drained /\ Lead' = Lead
    BY <1>1, <1>2
  <2>2. \A p \in Leaves : /\ link'[p].state = link[p].state /\ link'[p].err = link[p].err
                          /\ link'[p].offer \subseteq link[p].offer
    BY <1>2, <1>3, Places
  <2> QED
    BY <1>0, <2>1, <2>2 DEF LeavesOK
<1>7. SingleOK'
  BY <1>0, <1>1, <1>2, <1>3, Sources, Places DEF SingleOK, Asked
<1>8. ChainOK'
  <2>1. \A c \in Links : c # Use => /\ link'[c].state = link[c].state /\ link'[c].err = link[c].err
    BY <1>2, <1>3
  <2>2. chain.at # 0 => (Closed(chain.at) => Closed(chain.at)') /\ (ErrsClosed(chain.at) => ErrsClosed(chain.at)')
    BY <1>0, <1>1, <2>1, Sources, Places, ZenonT(60) DEF Closed, ErrsClosed
  <2>3. providers # 1 => ~Returned(Chain)'
    BY <1>0, <1>2, <1>3, Sources DEF Returned
  <2> QED
    BY <1>0, <1>1, <1>2, <1>3, <2>1, <2>2, <2>3, Places, ZenonT(60) DEF ChainOK, Asked, Closed, ErrsClosed
<1>9. UseOK'
  BY <1>0, <1>1, <1>2, <1>3, Places DEF UseOK, Asked, ErrsClosed
<1>10. HandlerOK'
  BY <1>0, <1>1, <1>2, <1>3, Places DEF HandlerOK, ErrsClosed
<1>11. OffersOK'
  <2>1. link'[Chain].offer = {} \/ (providers = 1 /\ link'[Chain] = link[Chain])
    BY <1>0, <1>2, <1>3, Sources, Places
  <2>2. providers = 1 => link[Chain].offer = {}
    BY <1>0, Places DEF SingleOK, ChannelsOK
  <2> QED
    BY <1>0, <1>2, <1>3, <1>b, <2>1, <2>2 DEF OffersOK
<1>12. CountOK'
  <2>1. chain.pc \in {"next", "select"} => providers # 1
    BY <1>0 DEF SingleOK
  <2>2. providers' = providers /\ chain' = chain /\ verdict' = verdict /\ sent' = sent
    BY <1>1
  <2>3. use'.count + Held(Chain)' = use.count + Held(Chain) \/ providers = 1
    BY <1>2, <1>a
  <2>4. use'.count + Held(Chain)' + Held(Lead)' = use.count + Held(Chain) + Held(Lead)
    BY <1>2, <1>a
  <2> QED
    BY <1>0, <1>2, <1>a, <2>1, <2>2, <2>3, <2>4 DEF CountOK
<1>13. DeliveredOK'
  BY <1>0, <1>1, <1>2, <1>a DEF DeliveredOK, TypeOK
<1>14. LogsOK'
  BY <1>0, <1>1, <1>2, <1>3 DEF LogsOK
<1>15. ErrorsOK'
  <2>1. ~Blamed
    <3>1. CASE providers = 1
      BY <1>a, <3>1 DEF Blamed
    <3>2. CASE providers # 1
      BY <1>0, <1>2, <3>2, Sources DEF Blamed, ChainOK
    <3> QED
      BY <3>1, <3>2
  <2> QED
    BY <1>0, <1>1, <1>2, <1>3, <2>1 DEF ErrorsOK
<1> QED
  BY <1>4, <1>5, <1>6, <1>7, <1>8, <1>9, <1>10, <1>11, <1>12, <1>13, <1>14, <1>15 DEF StreamInv

\* The use case returns: Return with E on its error channel, one outcome.
LEMMA UseEndKeeps ==
  ASSUME StreamInv, NEW o \in {"ok", "provider_failed", "client_gone"}, NEW E \in SUBSET Errors,
         UseEnd(o, E), use.pc \in {"select", "log"},
         E = {} <=> o = "ok",
         o = "client_gone" => gone,
         o = "provider_failed" => link[Use].offer = {} /\ link[Source].err # {},
         o = "ok" => /\ use.pc = "log" /\ training' = <<[model |-> served, length |-> use.count]>>
                     /\ usage' \in {0, 1},
         o # "ok" => UNCHANGED <<usage, training>>
  PROVE  StreamInv'
<1>0. TypeOK /\ ChannelsOK /\ LeavesOK /\ SingleOK /\ ChainOK /\ UseOK /\ HandlerOK
      /\ OffersOK /\ CountOK /\ DeliveredOK /\ LogsOK /\ ErrorsOK
  BY DEF StreamInv
<1>1. /\ UNCHANGED <<providers, sse, gone, sent, verdict, drained, chain, served,
                     handler, delivered, reply>>
      /\ use' = [use EXCEPT !.pc = "done"] /\ outcomes' = Append(outcomes, o)
      /\ link' = Return(link, Use, E)
  BY DEF UseEnd, UseUnchanged, config, leafVars, outVars
<1>2. /\ Lead' = Lead /\ Source' = Source /\ Asked /\ outcomes = <<>> /\ outcomes' = <<o>>
      /\ use'.pc = "done" /\ use'.count = use.count /\ use'.errsOpen = use.errsOpen
      /\ link[Use].state = "open" /\ link[Use].err = {} /\ usage = 0 /\ training = <<>>
      /\ reply # "done" /\ (handler.pc = "select" => handler.errsOpen)
      /\ Source \in Links /\ Source # Use /\ use.count \in Nat
  <2>1. use'.pc = "done" /\ use'.count = use.count /\ use'.errsOpen = use.errsOpen /\ use.count \in Nat
    BY <1>0, <1>1, Places DEF TypeOK
  <2>2. Lead' = Lead /\ Source' = Source
    BY <1>1 DEF Lead, Source
  <2>3. Source \in Links /\ Source # Use
    BY <1>0, Sources
  <2>4. outcomes = <<>>
    BY <1>0, UseWorking
  <2>5. outcomes' = <<o>>
    BY <1>1, <2>4
  <2> QED
    BY <1>0, <2>1, <2>2, <2>3, <2>5, UseWorking
<1>3. /\ link'[Use].state = "returning" /\ link'[Use].offer = {} /\ link'[Use].err = E
      /\ \A c \in Links \ {Use} : link'[c] = link[c]
      /\ link' \in [Links -> Channel]
  <2>1. link \in [Links -> Channel]
    BY <1>0 DEF TypeOK, Channel
  <2>2. link' \in [Links -> Channel]
    BY <1>1, <2>1, ChannelTypes, Places
  <2> QED
    BY <1>1, <2>1, <2>2, Places DEF Return
<1>a. o = "ok" => /\ Lead # 0 /\ Lead \in Leaves /\ served = Lead /\ verdict[Lead] = "clean"
                  /\ use.count = sent[Lead] /\ link[Use].offer = {}
  BY <1>0, <1>2, Sources DEF UseOK, SingleOK, ChainOK
<1>4. TypeOK'
  <2>1. use' \in [pc : {"preflight", "select", "log", "done"}, errsOpen : BOOLEAN,
                   count : 0 .. MaxProviders * MaxTokens]
    BY <1>0, <1>1 DEF TypeOK
  <2>2. outcomes' \in Seq({"refused", "ok", "provider_failed", "client_gone"})
    BY <1>2
  <2>3. usage' \in Nat /\ training' \in Seq([model : Leaves, length : Nat])
    <3>1. CASE o = "ok"
      <4> DEFINE r == [model |-> served, length |-> use.count]
                 R == [model : Leaves, length : Nat]
      <4>1. r \in R
        BY <1>2, <1>a, <3>1
      <4>2. training' = <<r>> /\ usage' \in {0, 1}
        BY <3>1
      <4> HIDE DEF r, R
      <4>3. training' \in Seq(R)
        BY <4>1, <4>2
      <4> QED
        BY <4>2, <4>3 DEF R
    <3>2. CASE o # "ok"
      BY <1>0, <3>2 DEF TypeOK
    <3> QED
      BY <3>1, <3>2
  <2> QED
    BY <1>0, <1>1, <1>3, <2>1, <2>2, <2>3, UseTyped
<1>5. ChannelsOK'
  BY <1>0, <1>1, <1>2, <1>3 DEF ChannelsOK, Returned
<1>6. LeavesOK'
  BY <1>0, <1>1, <1>2, <1>3, Places DEF LeavesOK
<1>7. SingleOK'
  BY <1>0, <1>1, <1>2, <1>3, Places DEF SingleOK, Asked
<1>8. ChainOK'
  <2>1. chain.at # 0 => (Closed(chain.at) => Closed(chain.at)') /\ (ErrsClosed(chain.at) => ErrsClosed(chain.at)')
    BY <1>0, <1>1, <1>3, Sources, Places DEF Closed, ErrsClosed
  <2>2. Returned(Chain)' = Returned(Chain)
    BY <1>3, Places DEF Returned
  <2> QED
    BY <1>0, <1>1, <1>2, <1>3, <2>1, <2>2, Places DEF ChainOK, Asked, Closed, ErrsClosed
<1>9. UseOK'
  BY <1>0, <1>1, <1>2, <1>3, Places DEF UseOK, Asked
<1>10. HandlerOK'
  BY <1>0, <1>1, <1>2, <1>3 DEF HandlerOK
<1>11. OffersOK'
  BY <1>0, <1>1, <1>2, <1>3, Places DEF OffersOK
<1>12. CountOK'
  <2>1. Held(Chain)' = Held(Chain) /\ (Lead # 0 => Held(Lead)' = Held(Lead))
    BY <1>0, <1>2, <1>3, Sources, Places DEF Held
  <2>2. providers = 1 \/ chain.pc = "select" => Lead # 0
    BY <1>0, Sources DEF SingleOK, ChainOK
  <2> QED
    BY <1>0, <1>1, <1>2, <2>1, <2>2 DEF CountOK
<1>13. DeliveredOK'
  <2>1. Held(Use)' = 0 /\ Held(Use) \in {0, 1} /\ (o # "client_gone" => Held(Use) = 0)
    BY <1>3, <1>a DEF Held
  <2>2. Len(delivered) \in Nat
    BY <1>0 DEF TypeOK
  <2> QED
    BY <1>0, <1>1, <1>2, <2>1, <2>2 DEF DeliveredOK
<1>14. LogsOK'
  BY <1>0, <1>1, <1>2, <1>3, <1>a DEF LogsOK
<1>15. ErrorsOK'
  <2>1. ~gone /\ E # {} => Blamed
    BY <1>0, <1>2 DEF ErrorsOK
  <2> QED
    BY <1>0, <1>1, <1>2, <1>3, <2>1 DEF ErrorsOK, Blamed, Asked
<1> QED
  BY <1>4, <1>5, <1>6, <1>7, <1>8, <1>9, <1>10, <1>11, <1>12, <1>13, <1>14, <1>15 DEF StreamInv

LEMMA UseCanceledKeeps ==
  ASSUME StreamInv, UseCanceled
  PROVE  StreamInv'
<1>1. gone /\ use.pc = "select" /\ UseEnd("client_gone", {"canceled"}) /\ UNCHANGED <<usage, training>>
  BY DEF UseCanceled
<1>2. {"canceled"} \in SUBSET Errors
  BY DEF Errors
<1> QED
  BY <1>1, <1>2, UseEndKeeps

LEMMA UseErrorKeeps ==
  ASSUME StreamInv, UseError
  PROVE  StreamInv'
<1>1. /\ use.pc = "select" /\ link[Use].offer = {} /\ link[Source].err # {}
      /\ UseEnd("provider_failed", link[Source].err) /\ UNCHANGED <<usage, training>>
  BY DEF UseError, UseSelecting
<1>2. link[Source].err \in SUBSET Errors
  BY Sources DEF StreamInv, TypeOK
<1> QED
  BY <1>1, <1>2, UseEndKeeps

LEMMA UseLogKeeps ==
  ASSUME StreamInv, UseLog
  PROVE  StreamInv'
<1>1. use.pc = "log" /\ UseEnd("ok", {}) /\ usage' \in {usage, usage + 1}
      /\ training' = Append(training, [model |-> served, length |-> use.count])
  BY DEF UseLog
<1>2. usage = 0 /\ training = <<>>
  BY <1>1, UseWorking DEF StreamInv
<1>3. usage' \in {0, 1} /\ training' = <<[model |-> served, length |-> use.count]>>
  BY <1>1, <1>2
<1> QED
  BY <1>1, <1>3, UseEndKeeps

\* The error channel is seen closed, or the token channel with no error left.
LEMMA UseNotesKeeps ==
  ASSUME StreamInv, use.pc = "select", link[Use].offer = {}, UNCHANGED <<link, usage, training>>,
         UNCHANGED <<chain, served, outcomes, outVars>>, UseUnchanged,
         \/ ErrsClosed(Source) /\ use' = [use EXCEPT !.errsOpen = FALSE]
         \/ Closed(Source) /\ ~LateError /\ use' = [use EXCEPT !.pc = "log"]
  PROVE  StreamInv'
<1>0. TypeOK /\ ChannelsOK /\ LeavesOK /\ SingleOK /\ ChainOK /\ UseOK /\ HandlerOK
      /\ OffersOK /\ CountOK /\ DeliveredOK /\ LogsOK /\ ErrorsOK
  BY DEF StreamInv
<1>1. /\ UNCHANGED <<providers, sse, gone, sent, verdict, drained, chain, served, link, usage,
                     training, outcomes, handler, delivered, reply>>
  BY DEF UseUnchanged, config, leafVars, outVars
<1>2. /\ Lead' = Lead /\ Source' = Source /\ Asked /\ Asked' /\ outcomes = <<>>
      /\ Source \in Links /\ Source # Use
      /\ use'.pc \in {"select", "log"} /\ use'.count = use.count
      /\ use' \in [pc : {"preflight", "select", "log", "done"}, errsOpen : BOOLEAN,
                   count : 0 .. MaxProviders * MaxTokens]
      /\ ErrsClosed(Source)' = ErrsClosed(Source) /\ Closed(Source)' = Closed(Source)
  BY <1>0, <1>1, UseWorking, Sources DEF TypeOK, Lead, Source, Asked, ErrsClosed, Closed
<1>3. \A c \in Links : Held(c)' = Held(c)
  BY <1>1 DEF Held
<1>a. use'.pc = "log" => /\ Closed(Source) /\ link[Source].err = {} /\ ~(ErrsClosed(Source) /\ use'.pc = "select")
  BY <1>0, <1>1 DEF TypeOK, LateError, UseOK, ErrsClosed
<1>b. use'.pc = "log" => Lead # 0 /\ verdict[Lead] = "clean" /\ use.count = sent[Lead]
  <2> SUFFICES ASSUME use'.pc = "log"
               PROVE  Lead # 0 /\ verdict[Lead] = "clean" /\ use.count = sent[Lead]
    OBVIOUS
  <2>1. CASE providers = 1
    <3>1. Lead = 1 /\ Source = 1 /\ Lead \in Leaves /\ link[Lead].state = "closed" /\ link[Lead].err = {}
          /\ Lead \notin drained
      BY <1>0, <1>a, <2>1, Sources, Places DEF SingleOK, Closed
    <3>2. verdict[Lead] \in {"none", "clean", "failed", "canceled"} /\ verdict[Lead] # "none"
          /\ verdict[Lead] \notin {"failed", "canceled"}
      BY <1>0, <3>1 DEF LeavesOK, TypeOK, Verdicts
    <3>3. Held(Lead) = 0 /\ Held(Chain) = 0 /\ use.count \in Nat /\ sent[Lead] \in Nat
      <4>1. link[Lead].offer = {} /\ link[Chain].offer = {}
        BY <1>0, <2>1, <3>1, Places DEF ChannelsOK, SingleOK
      <4> QED
        BY <1>0, <3>1, <4>1, Places DEF Held, TypeOK
    <3> QED
      BY <1>0, <2>1, <3>1, <3>2, <3>3 DEF CountOK
  <2>2. CASE providers # 1
    BY <1>0, <1>a, <2>2, Sources DEF ChainOK, Closed, Returned
  <2> QED
    BY <2>1, <2>2
<1>4. TypeOK'
  BY <1>0, <1>1, <1>2, UseTyped DEF TypeOK, Channel
<1>5. ChannelsOK'
  BY <1>0, <1>1, <1>2, <1>3 DEF ChannelsOK, Returned
<1>6. LeavesOK'
  BY <1>0, <1>1, <1>2, <1>3, Places DEF LeavesOK
<1>7. SingleOK'
  BY <1>0, <1>1, <1>2, <1>3, Places DEF SingleOK, Asked
<1>8. ChainOK'
  BY <1>0, <1>1, <1>2, <1>3, Sources, Places DEF ChainOK, Asked, Closed, ErrsClosed, Returned
<1>9. UseOK'
  <2>1. use'.pc = "select" /\ ~use'.errsOpen => ErrsClosed(Source)
    BY <1>0, <1>1 DEF TypeOK, UseOK
  <2> QED
    BY <1>0, <1>1, <1>2, <1>a, <1>b, <2>1 DEF UseOK, Asked
<1>10. HandlerOK'
  BY <1>0, <1>1, <1>2, <1>3, Places DEF HandlerOK, ErrsClosed
<1>11. OffersOK'
  BY <1>0, <1>1, <1>2, <1>3, Places DEF OffersOK
<1>12. CountOK'
  BY <1>0, <1>1, <1>2, <1>3, Sources, Places DEF CountOK
<1>13. DeliveredOK'
  BY <1>0, <1>1, <1>2, <1>3, Places DEF DeliveredOK
<1>14. LogsOK'
  BY <1>0, <1>1, <1>2 DEF LogsOK
<1>15. ErrorsOK'
  BY <1>0, <1>1, <1>2 DEF ErrorsOK, Blamed
<1> QED
  BY <1>4, <1>5, <1>6, <1>7, <1>8, <1>9, <1>10, <1>11, <1>12, <1>13, <1>14, <1>15 DEF StreamInv

LEMMA UseToksClosedKeeps ==
  ASSUME StreamInv, UseToksClosed
  PROVE  StreamInv'
<1>1. use.pc = "select" /\ link[Use].offer = {} /\ Closed(Source) /\ UNCHANGED <<usage, training>>
  BY DEF UseToksClosed, UseSelecting
<1>2. CASE gone /\ UseEnd("client_gone", {"canceled"})
  <2>1. {"canceled"} \in SUBSET Errors
    BY DEF Errors
  <2> QED
    BY <1>1, <1>2, <2>1, UseEndKeeps
<1>3. CASE ~gone /\ LateError /\ UseEnd("provider_failed", link[Source].err)
  <2>1. link[Source].err \in SUBSET Errors /\ link[Source].err # {}
    BY <1>3, Sources DEF StreamInv, TypeOK, LateError
  <2> QED
    BY <1>1, <1>3, <2>1, UseEndKeeps
<1>4. CASE /\ ~gone /\ ~LateError /\ use' = [use EXCEPT !.pc = "log"]
           /\ UNCHANGED <<link, chain, served, outcomes, outVars>> /\ UseUnchanged
  BY <1>1, <1>4, UseNotesKeeps
<1> QED
  BY <1>2, <1>3, <1>4 DEF UseToksClosed

LEMMA UseErrsClosedKeeps ==
  ASSUME StreamInv, UseErrsClosed
  PROVE  StreamInv'
  BY UseNotesKeeps DEF UseErrsClosed, UseSelecting

-----------------------------------------------------------------------------
(***************************************************************************)
(* The HTTP handler and the end of the context.                            *)
(***************************************************************************)
\* The token the handler is offered is the next of the leading provider's.
LEMMA TokenForClient ==
  ASSUME StreamInv, handler.pc = "select", link[Use].offer # {}
  PROVE  /\ reply = "none" /\ Lead \in Leaves /\ Len(delivered) < sent[Lead]
         /\ link[Use].offer = {[from |-> Lead, n |-> Len(delivered) + 1]}
<1>0. TypeOK /\ ChannelsOK /\ LeavesOK /\ SingleOK /\ ChainOK /\ UseOK /\ HandlerOK
      /\ OffersOK /\ CountOK /\ DeliveredOK /\ LogsOK /\ ErrorsOK
  BY DEF StreamInv
<1>1. link[Use].state = "open" /\ reply = "none" /\ use.pc # "done"
  BY <1>0, Places DEF ChannelsOK, UseOK, HandlerOK
<1>2. use.count \in Nat /\ Len(delivered) \in Nat /\ Held(Use) = 1 /\ Held(Chain) \in {0, 1}
      /\ Held(Lead) \in {0, 1}
  BY <1>0, Places DEF TypeOK, Held
<1>3. Len(delivered) + 1 = use.count
  BY <1>0, <1>1, <1>2 DEF DeliveredOK
<1>4. Lead # 0
  BY <1>0, <1>2, <1>3 DEF CountOK
<1>5. Lead \in Leaves /\ sent[Lead] \in Nat
  BY <1>0, <1>4, Sources DEF TypeOK
<1>6. Len(delivered) < sent[Lead]
  BY <1>0, <1>2, <1>3, <1>4, <1>5 DEF CountOK
<1> QED
  BY <1>0, <1>1, <1>3, <1>5, <1>6 DEF OffersOK

\* "done" is sent for an answer the use case has recorded as a clean finish.
LEMMA DoneIsOk ==
  ASSUME StreamInv, HandlerToksClosed, reply' = "done"
  PROVE  outcomes = <<"ok">> /\ reply = "none" /\ link[Use].offer = {}
<1>0. TypeOK /\ ChannelsOK /\ LeavesOK /\ SingleOK /\ ChainOK /\ UseOK /\ HandlerOK
      /\ OffersOK /\ CountOK /\ DeliveredOK /\ LogsOK /\ ErrorsOK
  BY DEF StreamInv
<1>1. /\ Closed(Use) /\ link[Use].state # "idle" /\ handler.pc = "select"
      /\ ~(handler.errsOpen /\ link[Use].err # {})
  BY DEF HandlerToksClosed, HandlerSelecting
<1>2. link[Use].err = {} /\ use.pc = "done" /\ reply = "none" /\ link[Use].offer = {}
  BY <1>0, <1>1, Places DEF HandlerOK, ErrsClosed, Closed, UseOK, Asked, TypeOK, ChannelsOK
<1> QED
  BY <1>0, <1>2 DEF LogsOK

LEMMA HandlerTyped ==
  ASSUME TypeOK, link' \in [Links -> Channel],
         handler' \in [pc : {"select", "drain", "done"}, errsOpen : BOOLEAN],
         delivered' \in Seq(Tokens), reply' \in {"none", "done", "error", "gone"},
         UNCHANGED <<providers, sse, gone, sent, verdict, chain, drained, use, usage, training,
                     outcomes, served>>
  PROVE  TypeOK'
<1>1. /\ providers' = providers /\ sse' = sse /\ gone' = gone /\ sent' = sent /\ verdict' = verdict
      /\ chain' = chain /\ drained' = drained /\ served' = served
      /\ use' = use /\ usage' = usage /\ training' = training /\ outcomes' = outcomes
  OBVIOUS
<1> QED
  BY <1>1 DEF TypeOK, Channel

\* A token leaves the use case's channel: it is written, its write fails, or
\* it is drained.
LEMMA HandlerTakesKeeps ==
  ASSUME StreamInv, HandlerToken \/ HandlerWriteFails \/ HandlerDrainTakes
  PROVE  StreamInv'
<1>0. TypeOK /\ ChannelsOK /\ LeavesOK /\ SingleOK /\ ChainOK /\ UseOK /\ HandlerOK
      /\ OffersOK /\ CountOK /\ DeliveredOK /\ LogsOK /\ ErrorsOK
  BY DEF StreamInv
<1>1. /\ UNCHANGED <<providers, sse, gone, sent, verdict, drained, chain, served, use, usage, training,
                     outcomes>>
      /\ link' = [link EXCEPT ![Use].offer = {}] /\ link[Use].offer # {}
      /\ \/ /\ handler.pc = "select" /\ UNCHANGED <<handler, reply>>
            /\ \E tok \in link[Use].offer : delivered' = Append(delivered, tok)
         \/ /\ handler.pc \in {"select", "drain"} /\ delivered' = delivered
            /\ handler'.pc = "drain" /\ handler'.errsOpen = handler.errsOpen
            /\ handler' \in [pc : {"select", "drain", "done"}, errsOpen : BOOLEAN]
            /\ reply' \in {"gone", reply} /\ (handler.pc = "select" => reply' = "gone")
  <2>1. HandlerUnchanged /\ TakeToken /\ UNCHANGED gone /\ link[Use].offer # {}
    BY DEF HandlerToken, HandlerWriteFails, HandlerDrainTakes
  <2>2. \/ /\ handler.pc = "select" /\ UNCHANGED <<handler, reply>>
           /\ \E tok \in link[Use].offer : delivered' = Append(delivered, tok)
        \/ /\ handler.pc \in {"select", "drain"} /\ delivered' = delivered
           /\ handler'.pc = "drain" /\ handler'.errsOpen = handler.errsOpen
           /\ handler' \in [pc : {"select", "drain", "done"}, errsOpen : BOOLEAN]
           /\ reply' \in {"gone", reply} /\ (handler.pc = "select" => reply' = "gone")
    BY <1>0 DEF HandlerToken, HandlerWriteFails, HandlerDrainTakes, HandlerSelecting, TypeOK
  <2> QED
    BY <2>1, <2>2 DEF HandlerUnchanged, TakeToken, config, leafVars, useVars
<1>2. /\ Lead' = Lead /\ Source' = Source /\ Source \in Links /\ Source # Use
      /\ link[Use].state = "open" /\ use.pc \in {"select", "log"} /\ link[Use].err = {}
      /\ link[Use].offer = {[from |-> Lead, n |-> use.count]} /\ use.count \in Nat
      /\ Held(Use) = 1
  <2>1. link[Use].state = "open" /\ link[Use].err = {}
    BY <1>0, <1>1, Places DEF ChannelsOK, Returned
  <2>2. use.count \in Nat
    BY <1>0, Places DEF TypeOK
  <2> QED
    BY <1>0, <1>1, <2>1, <2>2, Sources DEF Lead, Source, UseOK, OffersOK, Held
<1>3. /\ link'[Use].state = "open" /\ link'[Use].offer = {} /\ link'[Use].err = {}
      /\ \A c \in Links \ {Use} : link'[c] = link[c]
      /\ link' \in [Links -> Channel] /\ Held(Use)' = 0
  <2>1. link \in [Links -> Channel]
    BY <1>0 DEF TypeOK, Channel
  <2>2. link' \in [Links -> Channel]
    BY <1>1, <2>1, ChannelTypes, Places
  <2> QED
    BY <1>1, <1>2, <2>1, <2>2, Places DEF Held
<1>a. \/ /\ delivered' = Append(delivered, [from |-> Lead, n |-> use.count]) /\ reply = "none"
         /\ reply' = "none" /\ handler' = handler /\ handler.pc = "select"
         /\ Len(delivered) + 1 = use.count
      \/ /\ delivered' = delivered /\ reply' # "none" /\ reply' \in {"gone", reply}
         /\ handler'.pc = "drain" /\ handler'.errsOpen = handler.errsOpen
         /\ handler' \in [pc : {"select", "drain", "done"}, errsOpen : BOOLEAN]
  <2>1. CASE /\ handler.pc = "select" /\ UNCHANGED <<handler, reply>>
             /\ \E tok \in link[Use].offer : delivered' = Append(delivered, tok)
    <3>1. reply = "none"
      BY <1>0, <2>1 DEF HandlerOK
    <3>2. Len(delivered) + 1 = use.count
      BY <1>0, <1>2, <3>1 DEF DeliveredOK
    <3>3. delivered' = Append(delivered, [from |-> Lead, n |-> use.count])
      BY <1>2, <2>1
    <3> QED
      BY <2>1, <3>1, <3>2, <3>3
  <2>2. CASE /\ handler.pc \in {"select", "drain"} /\ delivered' = delivered
             /\ handler'.pc = "drain" /\ handler'.errsOpen = handler.errsOpen
             /\ handler' \in [pc : {"select", "drain", "done"}, errsOpen : BOOLEAN]
             /\ reply' \in {"gone", reply} /\ (handler.pc = "select" => reply' = "gone")
    BY <1>0, <2>2 DEF HandlerOK
  <2> QED
    BY <1>1, <2>1, <2>2
<1>4. TypeOK'
  <2>1. handler' \in [pc : {"select", "drain", "done"}, errsOpen : BOOLEAN]
    BY <1>0, <1>a DEF TypeOK
  <2>2. reply' \in {"none", "done", "error", "gone"}
    BY <1>0, <1>a DEF TypeOK
  <2>3. delivered' \in Seq(Tokens)
    <3>1. [from |-> Lead, n |-> use.count] \in Tokens /\ delivered \in Seq(Tokens)
      BY <1>0, <1>2, Places DEF TypeOK
    <3> DEFINE tok == [from |-> Lead, n |-> use.count]
    <3>2. delivered' = Append(delivered, tok) \/ delivered' = delivered
      BY <1>a
    <3>3. tok \in Tokens
      BY <3>1
    <3> HIDE DEF tok
    <3> QED
      BY <3>1, <3>2, <3>3
  <2> QED
    BY <1>0, <1>1, <1>3, <2>1, <2>2, <2>3, HandlerTyped
<1>5. ChannelsOK'
  BY <1>0, <1>1, <1>2, <1>3 DEF ChannelsOK, Returned
<1>6. LeavesOK'
  BY <1>0, <1>1, <1>2, <1>3, Places DEF LeavesOK
<1>7. SingleOK'
  BY <1>0, <1>1, <1>2, <1>3, Places DEF SingleOK, Asked
<1>8. ChainOK'
  <2>1. \A c \in Links : link'[c].state = link[c].state /\ link'[c].err = link[c].err
    BY <1>2, <1>3
  <2> QED
    BY <1>0, <1>1, <1>2, <2>1, Sources, Places DEF ChainOK, Asked, Closed, ErrsClosed, Returned
<1>9. UseOK'
  BY <1>0, <1>1, <1>2, <1>3, Places DEF UseOK, Asked, Closed, ErrsClosed
<1>10. HandlerOK'
  <2>1. outcomes = <<>> /\ ~ErrsClosed(Use) /\ ~ErrsClosed(Use)'
    BY <1>0, <1>2, <1>3 DEF LogsOK, ErrsClosed
  <2> QED
    BY <1>0, <1>1, <1>2, <1>a, <2>1 DEF HandlerOK
<1>11. OffersOK'
  BY <1>0, <1>1, <1>2, <1>3, Places DEF OffersOK
<1>12. CountOK'
  <2>1. Held(Chain)' = Held(Chain) /\ (Lead # 0 => Held(Lead)' = Held(Lead))
    BY <1>0, <1>2, <1>3, Sources, Places DEF Held
  <2>2. providers = 1 \/ chain.pc = "select" => Lead # 0
    BY <1>0, Sources DEF SingleOK, ChainOK
  <2> QED
    BY <1>0, <1>1, <1>2, <2>1, <2>2 DEF CountOK
<1>13. DeliveredOK'
  <2> DEFINE tok == [from |-> Lead, n |-> use.count]
  <2>1. delivered \in Seq(Tokens) /\ Len(delivered) \in Nat
    BY <1>0 DEF TypeOK
  <2>2. CASE delivered' = Append(delivered, tok) /\ Len(delivered) + 1 = use.count
    <3>1. tok.from = Lead /\ tok.n = Len(delivered) + 1
      BY <2>2
    <3>2. tok = [from |-> Lead, n |-> Len(delivered) + 1]
      BY <2>2
    <3> HIDE DEF tok
    <3>3. \A i \in DOMAIN delivered' : delivered'[i] = [from |-> Lead, n |-> i]
      <4> SUFFICES ASSUME NEW i \in DOMAIN delivered'
                   PROVE  delivered'[i] = [from |-> Lead, n |-> i]
        OBVIOUS
      <4>1. i \in DOMAIN delivered \/ i = Len(delivered) + 1
        BY <2>1, <2>2
      <4>2. CASE i \in DOMAIN delivered
        <5>1. delivered'[i] = delivered[i]
          BY <2>1, <2>2, <4>2
        <5> QED
          BY <1>0, <4>2, <5>1 DEF DeliveredOK
      <4>3. CASE i = Len(delivered) + 1
        BY <2>1, <2>2, <3>2, <4>3
      <4> QED
        BY <4>1, <4>2, <4>3
    <3>4. Len(delivered') = use.count
      BY <2>1, <2>2
    <3> QED
      BY <1>0, <1>1, <1>2, <1>3, <3>3, <3>4 DEF DeliveredOK
  <2>3. CASE delivered' = delivered /\ reply' # "none"
    BY <1>0, <1>1, <1>2, <1>3, <2>1, <2>3 DEF DeliveredOK
  <2> QED
    BY <1>a, <2>2, <2>3
<1>14. LogsOK'
  BY <1>0, <1>1, <1>2, <1>3, <1>a DEF LogsOK
<1>15. ErrorsOK'
  <2>1. reply' # "error" \/ (reply = "error" /\ delivered' = delivered)
    BY <1>a
  <2> QED
    BY <1>0, <1>1, <1>2, <1>3, <2>1 DEF ErrorsOK, Blamed, Asked
<1> QED
  BY <1>4, <1>5, <1>6, <1>7, <1>8, <1>9, <1>10, <1>11, <1>12, <1>13, <1>14, <1>15 DEF StreamInv

\* The handler ends its response, drains or returns, or the context ends.
LEMMA HandlerEndsKeeps ==
  ASSUME StreamInv,
         HandlerToksClosed \/ HandlerErrsClosed \/ HandlerError \/ HandlerCanceled \/ HandlerDrained
  PROVE  StreamInv'
<1>0. TypeOK /\ ChannelsOK /\ LeavesOK /\ SingleOK /\ ChainOK /\ UseOK /\ HandlerOK
      /\ OffersOK /\ CountOK /\ DeliveredOK /\ LogsOK /\ ErrorsOK
  BY DEF StreamInv
<1>1. /\ UNCHANGED <<providers, sse, gone, sent, verdict, drained, chain, served, use, usage, training,
                     outcomes, delivered>>
      /\ Lead' = Lead /\ Source' = Source
  BY DEF HandlerToksClosed, HandlerErrsClosed, HandlerError, HandlerCanceled, HandlerDrained,
         HandlerReturns, HandlerUnchanged, config, leafVars, useVars, Lead, Source
<1>2. /\ \A c \in Links : link'[c].state = link[c].state /\ link'[c].offer = link[c].offer
      /\ \A c \in Links \ {Use} : link'[c] = link[c]
      /\ \/ link'[Use] = link[Use]
         \/ /\ link'[Use].err = {} /\ link[Use].err # {}
            /\ reply' = "error" /\ handler.pc = "select" /\ handler'.pc = "drain"
      /\ link' \in [Links -> Channel]
  <2>1. link \in [Links -> Channel]
    BY <1>0 DEF TypeOK, Channel
  <2>2. CASE UNCHANGED link
    BY <2>1, <2>2
  <2>3. CASE HandlerError
    <3>1. /\ link' = [link EXCEPT ![Use].err = {}] /\ link[Use].err # {} /\ reply' = "error"
          /\ handler' = [handler EXCEPT !.pc = "drain"] /\ handler.pc = "select"
      BY <2>3 DEF HandlerError, HandlerSelecting
    <3>2. handler'.pc = "drain"
      BY <1>0, <3>1 DEF TypeOK
    <3>3. link' \in [Links -> Channel]
      BY <2>1, <3>1, ChannelTypes, Places
    <3> QED
      BY <2>1, <3>1, <3>2, <3>3, Places
  <2> QED
    BY <2>2, <2>3 DEF HandlerToksClosed, HandlerErrsClosed, HandlerCanceled, HandlerDrained
<1>3. /\ handler' \in [pc : {"select", "drain", "done"}, errsOpen : BOOLEAN]
      /\ reply' \in {"none", "done", "error", "gone"}
      /\ reply' = "none" <=> handler'.pc = "select"
      /\ reply # "none" => reply' = reply
      /\ reply' = "none" /\ ~handler'.errsOpen => ErrsClosed(Use)
      /\ reply = "none" /\ reply' # "none" => Asked
  BY <1>0 DEF HandlerToksClosed, HandlerErrsClosed, HandlerError, HandlerCanceled, HandlerDrained,
              HandlerReturns, HandlerSelecting, TypeOK, HandlerOK, Asked
<1>4a. reply = "none" /\ reply' = "done" => outcomes = <<"ok">>
  <2> SUFFICES ASSUME reply = "none", reply' = "done"
               PROVE  outcomes = <<"ok">>
    OBVIOUS
  <2>1. /\ Closed(Use) /\ link[Use].state # "idle" /\ handler.pc = "select"
        /\ ~(handler.errsOpen /\ link[Use].err # {})
    BY <1>0 DEF HandlerToksClosed, HandlerErrsClosed, HandlerError, HandlerCanceled, HandlerDrained,
                HandlerSelecting, HandlerOK
  <2>2. link[Use].err = {} /\ use.pc = "done"
    BY <1>0, <2>1 DEF HandlerOK, ErrsClosed, Closed, UseOK, Asked, TypeOK
  <2> QED
    BY <1>0, <2>2 DEF LogsOK
<1>4b. reply = "none" /\ reply' = "error" =>
         /\ Asked /\ link[Use].err # {} /\ link[Use].offer = {}
  <2> SUFFICES ASSUME reply = "none", reply' = "error"
               PROVE  Asked /\ link[Use].err # {} /\ link[Use].offer = {}
    OBVIOUS
  <2>1. link[Use].err # {}
    BY <1>0 DEF HandlerToksClosed, HandlerErrsClosed, HandlerError, HandlerCanceled, HandlerDrained,
                HandlerSelecting, HandlerOK
  <2> QED
    BY <1>0, <2>1, Places DEF ChannelsOK, Returned, Asked
<1>4. TypeOK'
  BY <1>0, <1>1, <1>2, <1>3, HandlerTyped DEF TypeOK
<1>5. ChannelsOK'
  BY <1>0, <1>1, <1>2, Places DEF ChannelsOK, Returned
<1>6. LeavesOK'
  BY <1>0, <1>1, <1>2, <1>3, Places DEF LeavesOK
<1>7. SingleOK'
  BY <1>0, <1>1, <1>2, Places DEF SingleOK, Asked
<1>8. ChainOK'
  BY <1>0, <1>1, <1>2, Sources, Places DEF ChainOK, Asked, Closed, ErrsClosed, Returned
<1>9. UseOK'
  BY <1>0, <1>1, <1>2, Sources, Places DEF UseOK, Asked, Closed, ErrsClosed
<1>10. HandlerOK'
  <2>1. ErrsClosed(Use) => ErrsClosed(Use)'
    BY <1>2, Places DEF ErrsClosed
  <2> QED
    BY <1>0, <1>1, <1>3, <2>1 DEF HandlerOK, UseOK
<1>11. OffersOK'
  BY <1>0, <1>1, <1>2, Places DEF OffersOK
<1>12. CountOK'
  <2>1. Held(Chain)' = Held(Chain) /\ Held(Lead)' = Held(Lead)
    BY <1>0, <1>1, <1>2, Sources, Places DEF Held
  <2> QED
    BY <1>0, <1>1, <2>1 DEF CountOK
<1>13. DeliveredOK'
  <2>1. Held(Use)' = Held(Use) /\ (reply' = "none" => reply = "none")
    BY <1>1, <1>2, <1>3, Places DEF Held
  <2> QED
    BY <1>0, <1>1, <2>1 DEF DeliveredOK
<1>14. LogsOK'
  <2>1. reply' = "none" => reply = "none" /\ link'[Use].err = link[Use].err
    BY <1>2, <1>3
  <2>2. reply' = "done" => outcomes = <<"ok">>
    BY <1>0, <1>3, <1>4a DEF LogsOK
  <2> QED
    BY <1>0, <1>1, <2>1, <2>2 DEF LogsOK
<1>15. ErrorsOK'
  <2>1. /\ Asked' = Asked /\ link'[Source].err = link[Source].err /\ Blamed' = Blamed
        /\ (link'[Use].err # {} => link[Use].err # {})
    BY <1>0, <1>1, <1>2, Sources, Places DEF Asked, Blamed
  <2>2. ~gone /\ reply' = "error" /\ outcomes # <<"refused">> => Blamed /\ Len(delivered) = use.count
    <3>1. CASE reply = "none"
      <4>1. reply' = "error" => link[Use].err # {} /\ Held(Use) = 0
        BY <1>4b, <3>1 DEF Held
      <4>2. Len(delivered) \in Nat
        BY <1>0 DEF TypeOK
      <4> QED
        BY <1>0, <3>1, <4>1, <4>2 DEF ErrorsOK, DeliveredOK
    <3>2. CASE reply # "none"
      BY <1>0, <1>3, <3>2 DEF ErrorsOK
    <3> QED
      BY <3>1, <3>2
  <2> QED
    BY <1>0, <1>1, <2>1, <2>2 DEF ErrorsOK
<1> QED
  BY <1>4, <1>5, <1>6, <1>7, <1>8, <1>9, <1>10, <1>11, <1>12, <1>13, <1>14, <1>15 DEF StreamInv

LEMMA ContextDoneKeeps ==
  ASSUME StreamInv, ContextDone
  PROVE  StreamInv'
<1>0. TypeOK /\ ChannelsOK /\ LeavesOK /\ SingleOK /\ ChainOK /\ UseOK /\ HandlerOK
      /\ OffersOK /\ CountOK /\ DeliveredOK /\ LogsOK /\ ErrorsOK
  BY DEF StreamInv
<1>1. /\ UNCHANGED <<providers, sse, link, sent, verdict, drained, chain, served, use, usage, training,
                     outcomes, handler, delivered, reply>>
      /\ gone' = TRUE /\ ~gone
  BY DEF ContextDone, config, leafVars, useVars, outVars
<1>2. Lead' = Lead /\ Source' = Source
  BY <1>1 DEF Lead, Source
<1>3. \A c \in Links : Held(c)' = Held(c)
  BY <1>1 DEF Held
<1>4. TypeOK'
  BY <1>0, <1>1 DEF TypeOK
<1>5. ChannelsOK'
  BY <1>0, <1>1, <1>2, <1>3 DEF ChannelsOK, Returned
<1>6. LeavesOK'
  BY <1>0, <1>1, <1>2, <1>3, Places DEF LeavesOK
<1>7. SingleOK'
  BY <1>0, <1>1, <1>2, <1>3, Places DEF SingleOK, Asked
<1>8. ChainOK'
  BY <1>0, <1>1, <1>2, <1>3, Sources, Places DEF ChainOK, Asked, Closed, ErrsClosed, Returned
<1>9. UseOK'
  BY <1>0, <1>1, <1>2, <1>3, Sources, Places DEF UseOK, Asked, Closed, ErrsClosed
<1>10. HandlerOK'
  BY <1>0, <1>1, <1>2, <1>3, Places DEF HandlerOK, ErrsClosed
<1>11. OffersOK'
  BY <1>0, <1>1, <1>2, <1>3, Places DEF OffersOK
<1>12. CountOK'
  BY <1>0, <1>1, <1>2, <1>3, Sources, Places DEF CountOK
<1>13. DeliveredOK'
  BY <1>0, <1>1, <1>2, <1>3, Places DEF DeliveredOK
<1>14. LogsOK'
  BY <1>0, <1>1, <1>2 DEF LogsOK
<1>15. ErrorsOK'
  BY <1>1 DEF ErrorsOK
<1> QED
  BY <1>4, <1>5, <1>6, <1>7, <1>8, <1>9, <1>10, <1>11, <1>12, <1>13, <1>14, <1>15 DEF StreamInv

-----------------------------------------------------------------------------
(***************************************************************************)
(* The invariant, and what follows from it.                                *)
(***************************************************************************)
LEMMA StreamInit == Init => StreamInv
<1> SUFFICES ASSUME Init PROVE StreamInv
  OBVIOUS
<1>1. /\ providers \in Leaves /\ sse \in BOOLEAN /\ gone = FALSE
      /\ link = [c \in Links |-> [state |-> "idle", offer |-> {}, err |-> {}]]
      /\ sent = [p \in Leaves |-> 0] /\ verdict = [p \in Leaves |-> "none"]
      /\ chain = [pc |-> "done", at |-> 0, committed |-> FALSE, toksOpen |-> FALSE, errsOpen |-> FALSE]
      /\ drained = {} /\ use = [pc |-> "preflight", errsOpen |-> TRUE, count |-> 0]
      /\ served = 0 /\ usage = 0 /\ training = <<>> /\ outcomes = <<>>
      /\ handler = [pc |-> "select", errsOpen |-> TRUE] /\ delivered = <<>> /\ reply = "none"
  BY DEF Init
<1>2. /\ \A c \in Links : link[c].state = "idle" /\ link[c].offer = {} /\ link[c].err = {}
      /\ \A p \in Leaves : sent[p] = 0 /\ verdict[p] = "none"
      /\ chain.pc = "done" /\ chain.at = 0 /\ ~chain.committed
      /\ use.pc = "preflight" /\ use.errsOpen /\ use.count = 0
      /\ handler.pc = "select" /\ handler.errsOpen
  BY <1>1
<1>3. Lead \in {0, 1} /\ Lead \in Links /\ (Lead # 0 => Lead \in Leaves)
      /\ (providers = 1 => Lead = 1)
  BY <1>2, Places DEF Lead, Use
<1>4. TypeOK
  <2>1. link \in [Links -> [state : {"idle", "open", "returning", "errsClosed", "closed"},
                            offer : SUBSET Tokens, err : SUBSET Errors]]
    BY <1>1
  <2>2. 0 \in 0 .. MaxTokens /\ 0 \in 0 .. MaxProviders /\ 0 \in 0 .. MaxProviders * MaxTokens
    BY StreamAssumption, CountRange
  <2>3. /\ sent \in [Leaves -> 0 .. MaxTokens] /\ verdict \in [Leaves -> Verdicts]
        /\ chain \in [pc : {"next", "select", "done"}, at : 0 .. MaxProviders,
                      committed : BOOLEAN, toksOpen : BOOLEAN, errsOpen : BOOLEAN]
        /\ use \in [pc : {"preflight", "select", "log", "done"}, errsOpen : BOOLEAN,
                    count : 0 .. MaxProviders * MaxTokens]
    BY <1>1, <2>2 DEF Verdicts
  <2>4. /\ drained \subseteq Leaves /\ served \in 0 .. MaxProviders /\ usage \in Nat
        /\ handler \in [pc : {"select", "drain", "done"}, errsOpen : BOOLEAN]
        /\ reply \in {"none", "done", "error", "gone"} /\ gone \in BOOLEAN
    BY <1>1, <2>2
  <2>5. /\ training \in Seq([model : Leaves, length : Nat])
        /\ outcomes \in Seq({"refused", "ok", "provider_failed", "client_gone"})
        /\ delivered \in Seq(Tokens)
    BY <1>1
  <2> QED
    <3>1. providers \in Leaves /\ sse \in BOOLEAN
      BY <1>1
    <3> QED
      BY <2>1, <2>3, <2>4, <2>5, <3>1 DEF TypeOK
<1>5. ChannelsOK
  BY <1>2 DEF ChannelsOK
<1>6. LeavesOK
  BY <1>2, Places DEF LeavesOK
<1>7. SingleOK
  BY <1>1, <1>2, Places DEF SingleOK, Asked
<1>8. ChainOK
  BY <1>1, <1>2, Places DEF ChainOK, Asked, Leaves, Returned
<1>9. UseOK
  BY <1>1, <1>2, Places DEF UseOK, Asked
<1>10. HandlerOK
  BY <1>1, <1>2 DEF HandlerOK
<1>11. OffersOK
  BY <1>2, Places DEF OffersOK
<1>12. CountOK
  <2>1. Held(Chain) = 0 /\ Held(Lead) = 0
    BY <1>2, <1>3, Places DEF Held
  <2> QED
    BY <1>2, <1>3, <2>1, Places DEF CountOK
<1>13. DeliveredOK
  BY <1>1, <1>2, Places DEF DeliveredOK, Held
<1>14. LogsOK
  BY <1>1, <1>2 DEF LogsOK
<1>15. ErrorsOK
  <2>1. Source \in Links /\ ~Asked
    BY <1>2, Places DEF Source, Asked
  <2> QED
    BY <1>1, <1>2, <2>1, Places DEF ErrorsOK
<1> QED
  BY <1>4, <1>5, <1>6, <1>7, <1>8, <1>9, <1>10, <1>11, <1>12, <1>13, <1>14, <1>15 DEF StreamInv

LEMMA StreamStep == StreamInv /\ [Next]_vars => StreamInv'
<1> SUFFICES ASSUME StreamInv, [Next]_vars PROVE StreamInv'
  OBVIOUS
<1>1. ASSUME NEW p \in Leaves, Leaf(p)
      PROVE  StreamInv'
  <2>1. p \in Links
    BY Places
  <2>2. CASE LeafEmit(p)
    BY <2>2, LeafEmitKeeps
  <2>3. CASE LeafFinish(p)
    <3>1. LeafEnd(p, "clean", {}) /\ link[p].state = "open" /\ link[p].offer = {}
      BY <2>3 DEF LeafFinish, Free
    <3> QED
      BY <3>1, LeafEndKeeps
  <2>4. CASE LeafFail(p)
    <3>1. /\ LeafEnd(p, "failed", {"provider"}) /\ link[p].state = "open" /\ link[p].offer = {}
          /\ {"provider"} \in SUBSET Errors
      BY <2>4 DEF LeafFail, Free, Errors
    <3> QED
      BY <3>1, LeafEndKeeps
  <2>5. CASE LeafCanceled(p)
    <3>1. /\ LeafEnd(p, "canceled", {"canceled"}) /\ link[p].state = "open" /\ gone
          /\ {"canceled"} \in SUBSET Errors
      BY <2>5 DEF LeafCanceled, Errors
    <3> QED
      BY <3>1, LeafEndKeeps
  <2>6. CASE CloseStep(p)
    BY <2>1, <2>6, CloseStepKeeps
  <2> QED
    BY <1>1, <2>2, <2>3, <2>4, <2>5, <2>6 DEF Leaf
<1>2. ASSUME NEW p \in Leaves, Drain(p)
      PROVE  StreamInv'
  BY <1>2, DrainKeeps
<1>3. CASE ChainStep
  <2>1. CASE CloseStep(Chain)
    BY <2>1, CloseStepKeeps, Places
  <2> QED
    BY <1>3, <2>1, ChainTryKeeps, ChainExhaustedKeeps, ChainTokenKeeps, ChainNotesKeeps,
       ChainCleanKeeps, ChainErrorKeeps, ChainCanceledKeeps DEF ChainStep
<1>4. CASE UseStep
  <2>1. CASE CloseStep(Use)
    BY <2>1, CloseStepKeeps, Places
  <2> QED
    BY <1>4, <2>1, UseRefuseKeeps, UseAdmitKeeps, UseTokenKeeps, UseCanceledKeeps,
       UseErrsClosedKeeps, UseErrorKeeps, UseToksClosedKeeps, UseLogKeeps DEF UseStep
<1>5. CASE HandlerStep
  BY <1>5, HandlerTakesKeeps, HandlerEndsKeeps DEF HandlerStep
<1>6. CASE ContextDone
  BY <1>6, ContextDoneKeeps
<1>7. CASE UNCHANGED vars
  <2>1. UNCHANGED <<providers, sse, gone, link, sent, verdict, chain, drained, use, served, usage,
                    training, outcomes, handler, delivered, reply>>
    BY <1>7 DEF vars
  <2>2. Lead' = Lead /\ Source' = Source /\ Asked' = Asked
    BY <2>1 DEF Lead, Source, Asked
  <2>3. TypeOK' /\ ChannelsOK' /\ LeavesOK'
    BY <2>1, <2>2 DEF StreamInv, TypeOK, ChannelsOK, LeavesOK, Returned
  <2>4. SingleOK' /\ ChainOK' /\ UseOK' /\ HandlerOK'
    BY <2>1, <2>2 DEF StreamInv, SingleOK, ChainOK, UseOK, HandlerOK, Closed, ErrsClosed, Returned
  <2>5. OffersOK' /\ CountOK' /\ DeliveredOK'
    BY <2>1, <2>2 DEF StreamInv, OffersOK, CountOK, DeliveredOK, Held
  <2>6. LogsOK' /\ ErrorsOK'
    BY <2>1, <2>2 DEF StreamInv, LogsOK, ErrorsOK, Blamed
  <2> QED
    BY <2>3, <2>4, <2>5, <2>6 DEF StreamInv
<1> QED
  BY <1>1, <1>2, <1>3, <1>4, <1>5, <1>6, <1>7 DEF Next, Terminated

\* StreamInv holds of every state a request can reach, whatever the numbers of
\* providers and tokens, and whichever ready case each select takes.
THEOREM StreamInvariant == Spec => []StreamInv
  BY StreamInit, StreamStep, PTL DEF Spec

\* Channels, counters, and logs keep their types: in particular the tokens the
\* use case has counted stay within one answer.
THEOREM StreamTypes == Spec => []TypeOK
<1>1. StreamInv => TypeOK
  BY DEF StreamInv
<1> QED
  BY <1>1, StreamInvariant, PTL

\* An error the client sees while it is there is earned: with nothing sent,
\* every provider of the chain has failed; otherwise the one being streamed and
\* all before it (chain/provider.go tryOne, usecase/rewrite.go run).
THEOREM ErrorsAreReal == Spec => []ErrorIsReal
<1>1. StreamInv => ErrorIsReal
  <2> SUFFICES ASSUME StreamInv, reply = "error", ~gone, outcomes # <<"refused">>,
                      NEW p \in 1 .. (IF delivered = <<>> THEN providers ELSE delivered[1].from)
               PROVE  verdict[p] = "failed"
    BY DEF ErrorIsReal
  <2>1. TypeOK /\ SingleOK /\ ChainOK /\ DeliveredOK /\ ErrorsOK
    BY DEF StreamInv
  <2>2. Blamed /\ Len(delivered) = use.count
    BY <2>1 DEF ErrorsOK
  <2>3. p \in 1 .. Lead /\ Lead \in Leaves
    <3>1. CASE delivered = <<>>
      BY <2>1, <2>2, <3>1, Sources DEF Blamed
    <3>2. CASE delivered # <<>>
      <4>1. delivered \in Seq(Tokens) /\ 1 \in DOMAIN delivered
        BY <2>1, <3>2 DEF TypeOK
      <4>2. delivered[1].from = Lead
        BY <2>1, <4>1 DEF DeliveredOK
      <4> QED
        BY <2>1, <2>2, <3>2, <4>2, Sources DEF Blamed
    <3> QED
      BY <3>1, <3>2
  <2>4. CASE p = Lead
    BY <2>2, <2>4 DEF Blamed
  <2>5. CASE p # Lead
    <3>1. p < Lead /\ p \in Leaves /\ Lead # 1
      BY <2>3, <2>5, Places DEF Leaves
    <3>2. providers # 1 /\ Lead = chain.at
      BY <2>1, <3>1, Sources
    <3> QED
      BY <2>1, <3>1, <3>2 DEF ChainOK
  <2> QED
    BY <2>4, <2>5
<1> QED
  BY <1>1, StreamInvariant, PTL

\* usage_logs and the training log get at most one row, for a clean finish
\* only, naming the provider that served and its answer's length; the metric is
\* bumped once; and "done" is a clean finish (usecase/rewrite.go run, persist).
THEOREM LogsAreExact == Spec => []LogsCleanFinish
<1>1. StreamInv => LogsCleanFinish
  <2> SUFFICES ASSUME StreamInv PROVE LogsCleanFinish
    OBVIOUS
  <2>1. LogsOK
    BY DEF StreamInv
  <2>2. CASE outcomes = <<"ok">>
    <3>1. /\ training = <<[model |-> Lead, length |-> use.count]>>
          /\ verdict[Lead] = "clean" /\ use.count = sent[Lead]
      BY <2>1, <2>2 DEF LogsOK
    <3>2. Len(training) = 1 /\ \A i \in DOMAIN training :
            training[i].model = Lead /\ training[i].length = use.count
      BY <3>1
    <3>3. use.pc = "done" /\ Len(outcomes) = 1 /\ usage <= Len(training)
      BY <2>1, <2>2 DEF LogsOK
    <3> QED
      BY <2>2, <3>1, <3>2, <3>3 DEF LogsCleanFinish
  <2>3. CASE outcomes # <<"ok">>
    <3>1. training = <<>> /\ usage <= Len(training) /\ reply # "done"
      BY <2>1, <2>3 DEF LogsOK
    <3>2. Len(training) = 0 /\ DOMAIN training = {}
      BY <3>1
    <3>3. Len(outcomes) = IF use.pc = "done" THEN 1 ELSE 0
      <4>1. CASE use.pc = "done"
        BY <2>1, <4>1 DEF LogsOK
      <4>2. CASE use.pc # "done"
        BY <2>1, <4>2 DEF LogsOK
      <4> QED
        BY <4>1, <4>2
    <3> QED
      BY <3>1, <3>2, <3>3 DEF LogsCleanFinish
  <2> QED
    BY <2>2, <2>3
<1> QED
  BY <1>1, StreamInvariant, PTL

-----------------------------------------------------------------------------
(***************************************************************************)
(* The refinement: an adapter's token is Produce, its end End, a token      *)
(* written Deliver, the end of the response Close; every other step of the  *)
(* goroutines leaves Answer's variables alone.                              *)
(***************************************************************************)
LEMMA AnswerInit == Init => Ans!Init
  BY DEF Init, Ans!Init

\* Under StreamInv each step is a step of Answer, or leaves its variables alone.
LEMMA AnswerStep == StreamInv /\ [Next]_vars => [Ans!Next]_(Ans!vars)
<1> SUFFICES ASSUME StreamInv, [Next]_vars PROVE Ans!Next \/ UNCHANGED <<sent, verdict, delivered, reply>>
  BY DEF Ans!vars
<1>0. TypeOK /\ ChannelsOK /\ LeavesOK /\ SingleOK /\ ChainOK /\ UseOK /\ HandlerOK
      /\ OffersOK /\ CountOK /\ DeliveredOK /\ LogsOK /\ ErrorsOK
  BY DEF StreamInv
<1>1. ASSUME NEW p \in Leaves, LeafEmit(p)
      PROVE  Ans!Next
  <2>1. link[p].state = "open"
    BY <1>1 DEF LeafEmit, Free
  <2>2. verdict[p] = "none"
    BY <1>0, <2>1, WorkingLeads
  <2>3. Ans!Produce(p)
    BY <1>1, <2>2 DEF LeafEmit, LeafUnchanged, outVars, Ans!Produce
  <2> QED
    BY <2>3 DEF Ans!Next
<1>2. ASSUME NEW p \in Leaves, LeafFinish(p) \/ LeafFail(p) \/ LeafCanceled(p)
      PROVE  Ans!Next
  <2>1. /\ link[p].state = "open" /\ UNCHANGED <<sent, delivered, reply>>
        /\ \E v \in {"clean", "failed", "canceled"} : verdict' = [verdict EXCEPT ![p] = v]
    BY <1>2 DEF LeafFinish, LeafFail, LeafCanceled, LeafEnd, Free, LeafUnchanged, outVars
  <2>2. verdict[p] = "none"
    BY <1>0, <2>1, WorkingLeads
  <2>3. Ans!End(p)
    BY <2>1, <2>2 DEF Ans!End
  <2> QED
    BY <2>3 DEF Ans!Next
<1>3. CASE HandlerToken
  <2>1. handler.pc = "select" /\ link[Use].offer # {} /\ UNCHANGED <<sent, verdict, reply>>
    BY <1>3 DEF HandlerToken, HandlerSelecting, HandlerUnchanged, leafVars
  <2>2. /\ reply = "none" /\ Lead \in Leaves /\ Len(delivered) < sent[Lead]
        /\ link[Use].offer = {[from |-> Lead, n |-> Len(delivered) + 1]}
    BY <2>1, TokenForClient
  <2>3. delivered' = Append(delivered, [from |-> Lead, n |-> Len(delivered) + 1])
    BY <1>3, <2>2 DEF HandlerToken
  <2>4. \A i \in DOMAIN delivered : delivered[i].from = Lead
    BY <1>0 DEF DeliveredOK
  <2>5. Ans!Deliver(Lead)
    BY <2>1, <2>2, <2>3, <2>4 DEF Ans!Deliver, Ans!Received
  <2> QED
    BY <2>2, <2>5 DEF Ans!Next
<1>4. CASE HandlerToksClosed
  <2>1. UNCHANGED <<sent, verdict, delivered>> /\ reply' \in {"error", "done"} /\ reply = "none"
    BY <1>0, <1>4 DEF HandlerToksClosed, HandlerSelecting, HandlerOK, HandlerUnchanged, leafVars
  <2>2. CASE reply' = "error"
    BY <2>1, <2>2 DEF Ans!Next, Ans!Close
  <2>3. CASE reply' = "done"
    <3>1. outcomes = <<"ok">> /\ Held(Use) = 0
      BY <1>4, <2>3, DoneIsOk DEF Held
    <3>2. Lead # 0 /\ verdict[Lead] = "clean" /\ use.count = sent[Lead]
      BY <1>0, <3>1 DEF LogsOK
    <3>3. Lead \in Leaves /\ Len(delivered) \in Nat
      BY <1>0, <3>2, Sources DEF TypeOK
    <3>4. Len(delivered) = sent[Lead] /\ \A i \in DOMAIN delivered : delivered[i].from = Lead
      BY <1>0, <2>1, <3>1, <3>2, <3>3 DEF DeliveredOK
    <3>5. Ans!Whole(Lead)
      BY <3>2, <3>4 DEF Ans!Whole, Ans!Received
    <3> QED
      BY <2>1, <2>3, <3>3, <3>5 DEF Ans!Next, Ans!Close
  <2> QED
    BY <2>1, <2>2, <2>3
<1>5. CASE HandlerWriteFails \/ HandlerError \/ HandlerCanceled
  <2>1. UNCHANGED <<sent, verdict, delivered>> /\ reply' \in {"error", "gone"} /\ reply = "none"
    BY <1>0, <1>5 DEF HandlerWriteFails, HandlerError, HandlerCanceled, HandlerSelecting, HandlerOK,
                      HandlerUnchanged, leafVars
  <2> QED
    BY <2>1 DEF Ans!Next, Ans!Close
<1>6. CASE UseRefuse
  <2>1. UNCHANGED <<sent, verdict, delivered>> /\ reply' = "error" /\ reply = "none"
    BY <1>0, <1>6 DEF UseRefuse, HandlerOK, leafVars
  <2> QED
    BY <2>1 DEF Ans!Next, Ans!Close
<1>7. CASE HandlerErrsClosed \/ HandlerDrainTakes \/ HandlerDrained
  BY <1>7 DEF HandlerErrsClosed, HandlerDrainTakes, HandlerDrained, HandlerReturns, HandlerUnchanged, leafVars
<1>8. ASSUME NEW c \in Links, CloseStep(c)
      PROVE  UNCHANGED <<sent, verdict, delivered, reply>>
  BY <1>8 DEF CloseStep, leafVars, outVars
<1>9. ASSUME NEW p \in Leaves, Drain(p)
      PROVE  UNCHANGED <<sent, verdict, delivered, reply>>
  BY <1>9 DEF Drain, leafVars, outVars
<1>10. CASE ChainStep
  <2>1. ChainUnchanged \/ CloseStep(Chain)
    BY <1>10 DEF ChainStep, ChainTry, ChainExhausted, ChainToken, ChainToksClosed, ChainErrsClosed,
                 ChainClean, ChainError, ChainCanceled
  <2> QED
    BY <1>8, <2>1, Places DEF ChainUnchanged, leafVars, outVars
<1>11. CASE UseStep /\ ~UseRefuse
  <2>1. CASE CloseStep(Use)
    BY <1>8, <2>1, Places
  <2>2. CASE ~CloseStep(Use)
    <3>1. UseUnchanged /\ UNCHANGED outVars
      BY <1>11, <2>2 DEF UseStep, UseAdmit, UseToken, UseCanceled, UseErrsClosed, UseError,
                         UseToksClosed, UseLog, UseEnd, outVars
    <3> QED
      BY <3>1 DEF UseUnchanged, leafVars, outVars
  <2> QED
    BY <2>1, <2>2
<1>12. CASE ContextDone \/ UNCHANGED vars
  BY <1>12 DEF ContextDone, vars, leafVars, outVars
<1> QED
  BY <1>1, <1>2, <1>3, <1>4, <1>5, <1>6, <1>7, <1>8, <1>9, <1>10, <1>11, <1>12, Places
     DEF Next, Leaf, HandlerStep, Terminated

\* The goroutines implement Answer: what the client receives is a beginning of
\* one provider's answer, token by token, and "done" comes after the whole of
\* one that ended well, whichever channels were seen first.
THEOREM AnswerImplemented == Spec => Ans!Init /\ [][Ans!Next]_(Ans!vars)
  BY AnswerInit, AnswerStep, StreamInvariant, PTL DEF Spec
=============================================================================
