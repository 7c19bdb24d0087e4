------------------------------ MODULE MCAccounts ------------------------------
(* Model values and sets for the run of Accounts.                          *)
EXTENDS Accounts, TLC

CONSTANTS e1, e2, c1, c2, k1, k2, r1, r2

TwoEmails == {e1, e2}
TwoClients == {c1, c2}
TwoSecrets == {k1, k2}
TwoRequests == {r1, r2}

AllCalls == Operations
AnyStep == Steps
AnyWrite == Writes

\* Nothing depends on which email, client, secret or request it is.
Symmetry == Permutations(TwoEmails) \union Permutations(TwoClients)
            \union Permutations(TwoSecrets) \union Permutations(TwoRequests)
=============================================================================
