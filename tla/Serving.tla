-------------------------------- MODULE Serving --------------------------------
(***************************************************************************)
(* The HTTP server as the back-office modules see it: a goroutine per      *)
(* request, which keeps what it has read between two database statements.  *)
(* What a request is doing is a record with a field pc.                    *)
(***************************************************************************)
EXTENDS Integers, FiniteSets

CONSTANTS
  Workers,                   \* requests the server can be serving at one time
  Scenes,                    \* the mixes of operations an instance admits
  MaxRequests, MaxAborts,    \* bounds
  NoRow                      \* what a table has where no row is

ASSUME ServingAssumption == {MaxRequests, MaxAborts} \subseteq Nat

VARIABLES
  ops,         \* the operations of this behaviour, one of Scenes
  work,        \* what each worker is executing
  requests, aborts

Existing(t) == {i \in DOMAIN t : t[i] # NoRow}

servingVars == <<ops, work, requests, aborts>>

Idle == [pc |-> "idle"]
Busy == {w \in Workers : work[w] # Idle}

\* A request of kind op arrives.
Arrive(op) ==
  /\ op \in ops /\ requests < MaxRequests
  /\ requests' = requests + 1
  /\ UNCHANGED <<ops, aborts>>

\* It is answered by its first statement.
Served(op) == Arrive(op) /\ UNCHANGED work

\* Worker w takes it and goes on with what it read.
Begin(w, op, task) ==
  /\ Arrive(op) /\ work[w] = Idle
  /\ work' = [work EXCEPT ![w] = task]

At(w, pc) == work[w].pc = pc /\ UNCHANGED <<ops, requests, aborts>>
Goto(w, task) == work' = [work EXCEPT ![w] = task]
Finish(w) == Goto(w, Idle)

\* The request is cut short: the client is gone or the process is stopped.
Abort(w) ==
  /\ work[w] # Idle /\ aborts < MaxAborts
  /\ aborts' = aborts + 1
  /\ Finish(w)
  /\ UNCHANGED <<ops, requests>>

ServingInit ==
  /\ ops \in Scenes
  /\ work = [w \in Workers |-> Idle]
  /\ requests = 0 /\ aborts = 0

ServingTypeOK ==
  /\ ops \in Scenes
  /\ DOMAIN work = Workers
  /\ requests \in 0..MaxRequests /\ aborts \in 0..MaxAborts
=============================================================================
