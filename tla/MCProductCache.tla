---------------------------- MODULE MCProductCache ----------------------------
(* Model values and sets for the runs of ProductCache.                     *)
EXTENDS ProductCache

CONSTANTS r1, r2, blank, photo

TwoRequests == {r1, r2}
TwoImages == {blank, photo}
AllCalls == Operations

\* One sneaker to a page, and a page of its own for both.
SomePages == {[limit |-> 1, offset |-> 1], [limit |-> 2, offset |-> 0]}

\* Every step may fail, or take effect and be reported as failed.
AnyStep == {"get", "load", "set", "row", "del"}
=============================================================================
