----------------------------- MODULE ServiceCalls -----------------------------
(***************************************************************************)
(* The request goroutines of a gRPC server. A goroutine is idle or holds   *)
(* the record of a call: its name, the step it is at and its local values. *)
(***************************************************************************)
EXTENDS Naturals

CONSTANTS
  Requests,  \* request goroutines
  Calls,     \* the operations that are called
  MaxCalls   \* bound on the number of calls

VARIABLES
  request,   \* what each goroutine is doing
  calls      \* calls so far

Idle == [pc |-> "idle"]

Quiet == \A r \in Requests : request[r] = Idle

\* A call arrives at an idle goroutine.
Starts(r, call) ==
  /\ request[r] = Idle
  /\ call \in Calls
  /\ calls < MaxCalls
  /\ calls' = calls + 1

Becomes(r, next) == request' = [request EXCEPT ![r] = next]

Return(r) == Becomes(r, Idle)

Goes(r, pc) == Becomes(r, [request[r] EXCEPT !.pc = pc])

\* r is a call of the given name that comes to the given step.
At(r, call, pc) == request[r] # Idle /\ request[r].call = call /\ request[r].pc = pc
=============================================================================
