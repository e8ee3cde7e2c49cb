----------------------------- MODULE MCAuthTokens -----------------------------
(* AuthTokens on a small instance.                                         *)
EXTENDS AuthTokens, TLC

CONSTANTS u1, u2, r1, r2

(* A refresh has to queue with what it reads, a login with is_active.      *)
Queued ==
    {{"refresh", kind} : kind \in {"refresh", "revoke all", "set active", "expire"}}
    \cup {{"login", "set active"}}

MCUsers == {u1, u2}
MCRequests == {r1, r2}

Sym == Permutations(MCUsers) \cup Permutations(MCRequests)
=============================================================================
