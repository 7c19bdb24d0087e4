----------------------------- MODULE GatewayCalls -----------------------------
(***************************************************************************)
(* How the API gateway calls a service: a call is tried up to Tries times, *)
(* again only after a try that was given up at its deadline (or, where the *)
(* client retries Unavailable, one that never reached the service, which   *)
(* is a try without an effect as well). What a try that was given up asked *)
(* for may have been done, may never be done, or may be done later.        *)
(***************************************************************************)
EXTENDS Faults, ServiceCalls

CONSTANTS
  Tries,     \* WithMax of the retry interceptor
  TimingOut  \* the steps whose tries may be given up

ASSUME TriesAssumption == Tries \in Nat \ {0}

VARIABLE late  \* the requests of given up tries that may still take effect

\* Requests do not differ: a click takes some idle one, the same in a state.
IsNext(r) == r = CHOOSE s \in Requests : request[s] = Idle

\* Mutant: WithMax is left out.
TriesForever(r) == TRUE

TriesAgain(r) == request[r].tries < Tries

\* Mutant: without WithCodes a try is repeated although it was answered.
RepeatsAnswered(r, step, Served, Left) ==
  /\ step \in TimingOut
  /\ UNCHANGED faults
  /\ Served
  /\ UNCHANGED late

\* The try is given up at its deadline.
GivesUp(r, step, Served, Left) ==
  /\ step \in TimingOut
  /\ Fault
  /\ \/ Served /\ UNCHANGED late
     \/ Left /\ UNCHANGED late
     \/ Left /\ late' = late \union {request[r]}

\* One try of the call that r has to make: Served is what the service does with
\* it, Left that it does nothing, Then(result) how r goes on.
Try(r, step, Served, Left, Then(_)) ==
  \/ \E result \in Results :
       /\ Ends(step, result)
       /\ IF result = "error" THEN Left ELSE Served
       /\ Then(IF result = "ok" THEN "ok" ELSE "error")
       /\ UNCHANGED late
  \/ /\ GivesUp(r, step, Served, Left)
     /\ IF TriesAgain(r) THEN Becomes(r, [request[r] EXCEPT !.tries = @ + 1])
        ELSE Then("error")

\* A read may be tried as often: only its answer counts.
Read(step, Then(_)) ==
  \E result \in {"ok", "error"} : Ends(step, result) /\ Then(result)
=============================================================================
