-------------------------------- MODULE Faults --------------------------------
(***************************************************************************)
(* How a call to a database, a cache or another service ends: it works, it *)
(* fails, or it takes effect and is reported as failed (a commit whose     *)
(* answer is lost, a deadline that expires, a connection that breaks).     *)
(***************************************************************************)
EXTENDS Naturals

CONSTANTS
  Failing,   \* the steps that may fail with no effect
  Losing,    \* the steps that may take effect and still return an error
  MaxFaults  \* bound on the number of faults, restarts included

VARIABLE faults  \* faults so far

Fault == faults < MaxFaults /\ faults' = faults + 1

Ends(step, result) ==
  \/ result = "ok" /\ UNCHANGED faults
  \/ result = "error" /\ step \in Failing /\ Fault
  \/ result = "lost" /\ step \in Losing /\ Fault

Results == {"ok", "error", "lost"}
=============================================================================
