---------------------------- MODULE MCFavoritesTab ----------------------------
(* Model values and sets for the run of FavoritesTab.                      *)
EXTENDS FavoritesTab

CONSTANTS u1, u2, s1, s2, r1, r2

TwoUsers == {u1, u2}
TwoSneakers == {s1, s2}
OnlyOne == {s1}
TwoRequests == {r1, r2}

AllCalls == Operations
AnyStep == Steps
Writes == {"write"}
=============================================================================
