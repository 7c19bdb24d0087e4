------------------------------ MODULE MCCheckout ------------------------------
(* Model values and sets for the run of Checkout.                          *)
EXTENDS Checkout

CONSTANTS t1, s1, s2, r1, r2

TwoSneakers == {s1, s2}
OneTab == {t1}
TwoRequests == {r1, r2}

AllCalls == Operations
Numbered == 1..MaxCalls
AnyStep == Steps
Writes == {"write", "order", "clear"}
=============================================================================
