-------------------------- MODULE MCFavouritesCache --------------------------
(* Model values and sets for the runs of FavouritesCache.                  *)
EXTENDS FavouritesCache

CONSTANTS s1, s2, r1, r2

TwoSneakers == {s1, s2}
TwoRequests == {r1, r2}

AllCalls == Operations

\* Every step may fail. One error at a time leaves the cache right.
AnyError == {"exists", "smembers", "check", "insert", "delete", "invalidate", "load",
             "del", "sadd", "expire"}

\* Errors that leave the expiry of the cache as it was.
CoveredErrors == AnyError \ {"expire"}
CoveredLosses == {"invalidate", "del"}
=============================================================================
