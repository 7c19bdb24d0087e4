----------------------------- MODULE MCCartCache -----------------------------
(* Model values and sets for the runs of CartCache.                        *)
EXTENDS CartCache

CONSTANTS i1, i2, i3, r1, r2

TwoItems == {i1, i2}
ThreeItems == {i1, i2, i3}
OneRequest == {r1}
TwoRequests == {r1, r2}

None == {}
AllCalls == Operations
NoUpdates == Operations \ {"update"}
AddAndGet == {"add", "get"}

\* Errors that leave the cached cart as good as it was.
ReadErrors ==
  {"exists", "hgetall", "load", "del", "check", "insert", "update", "delete", "clear"}

\* Errors after which a cached cart is dropped or has its expiry.
CoveredErrors == ReadErrors \union {"hset", "expire", "hdel"}

CoveredLosses == {"insert", "delete", "clear", "del", "hset", "expire", "hdel"}

CacheWrite == {"hset"}
=============================================================================
