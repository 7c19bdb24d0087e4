--------------------------- MODULE MCOrderPayments ---------------------------
(* Model values and sets for the runs of OrderPayments.                    *)
EXTENDS OrderPayments, TLC

CONSTANTS o1, r1, r2, r3

OneOrder == {o1}
OneRequest == {r1}
TwoRequests == {r1, r2}
ThreeRequests == {r1, r2, r3}

\* Request goroutines do not differ.
RequestSymmetry == Permutations(ThreeRequests)

None == {}
AnyStep == Steps

\* Internal callers ship, cancel and retry; only webhooks decide on payment.
Operations == {"SHIPPED", "CANCELLED", "PENDING_PAYMENT"}
Fulfilment == {"SHIPPED", "CANCELLED"}

\* The faults that a repeated webhook, or nobody at all, has to make good.
ToleratedErrors == {"insert", "charge", "link", "announce", "readPayment",
                    "settle", "publish"}
ToleratedLosses == {"insert", "record", "link", "announce", "cas", "publish"}
=============================================================================
