------------------------ MODULE MCWebhookRegistration ------------------------
(* Model values and sets for the runs of WebhookRegistration.              *)
EXTENDS WebhookRegistration, TLC

CONSTANTS p1, p2, u1, u2, noUrl, w1, w2, w3, w4

TwoInstances == {p1, p2}
TwoUrls == {u1, u2}
FourIds == {w1, w2, w3, w4}
Refunds == {"refund.succeeded"}

\* Instances, URLs and ids do not differ.
Symmetry == Permutations(TwoInstances) \union Permutations(TwoUrls) \union Permutations(FourIds)

AnyStep == {"list", "delete", "create"}
==============================================================================
