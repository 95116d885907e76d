----------------------------- MODULE MCAccounts -----------------------------
(* Instances of the accounts for TLC. *)
EXTENDS Accounts, TLC

CONSTANTS admin, ann, e1, e2

Newcomers == {<<ann, e1>>, <<ann, e2>>}
OneAtATime == {<<admin, None>>, <<None, e2>>}

Alike == Permutations(Clients) \cup Permutations(Access) \cup Permutations(Refresh)
=============================================================================
