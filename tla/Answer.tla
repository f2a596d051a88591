-------------------------------- MODULE Answer --------------------------------
(***************************************************************************)
(* What a streamed rewrite promises its client, whatever runs in between:  *)
(* the tokens received are a beginning of one provider's answer, in order; *)
(* "done" comes only after the whole of an answer that ended well; and the *)
(* response ends.                                                          *)
(***************************************************************************)
EXTENDS Naturals, Sequences

CONSTANT Providers

VARIABLES
  sent,       \* how much of its answer each provider has produced
  verdict,    \* how each answer ended
  delivered,  \* what the client has received
  reply       \* how the response ended

vars == <<sent, verdict, delivered, reply>>

Init ==
  /\ sent = [p \in Providers |-> 0] /\ verdict = [p \in Providers |-> "none"]
  /\ delivered = <<>> /\ reply = "none"

Produce(p) ==
  /\ verdict[p] = "none"
  /\ sent' = [sent EXCEPT ![p] = @ + 1]
  /\ UNCHANGED <<verdict, delivered, reply>>

End(p) ==
  /\ verdict[p] = "none"
  /\ \E v \in {"clean", "failed", "canceled"} : verdict' = [verdict EXCEPT ![p] = v]
  /\ UNCHANGED <<sent, delivered, reply>>

Received(p) == \A i \in DOMAIN delivered : delivered[i].from = p

Deliver(p) ==
  /\ reply = "none" /\ Received(p) /\ Len(delivered) < sent[p]
  /\ delivered' = Append(delivered, [from |-> p, n |-> Len(delivered) + 1])
  /\ UNCHANGED <<sent, verdict, reply>>

Whole(p) == verdict[p] = "clean" /\ Received(p) /\ Len(delivered) = sent[p]

Close ==
  /\ reply = "none"
  /\ \/ reply' \in {"error", "gone"}
     \/ (\E p \in Providers : Whole(p)) /\ reply' = "done"
  /\ UNCHANGED <<sent, verdict, delivered>>

Next == (\E p \in Providers : Produce(p) \/ End(p) \/ Deliver(p)) \/ Close

Spec == Init /\ [][Next]_vars /\ WF_vars(Close)
=============================================================================
