----------------------------- MODULE TokenSessions -----------------------------
(***************************************************************************)
(* What refresh tokens promise, one step per operation: a login opens a    *)
(* session, which has one token at a time until it is closed.  A refresh   *)
(* with rotation gives an open session of an active user its next token.   *)
(* AuthTokens shows that the handlers keep this promise.                   *)
(***************************************************************************)
EXTENDS Naturals

CONSTANTS
    Users,
    MaxTokens       \* bound on the tokens ever issued

VARIABLES
    sessions,       \* the open sessions: user and token, by number
    active,         \* User.is_active
    lastToken       \* the number of the latest token; a session has the
                    \* number of its first one

vars == <<sessions, active, lastToken>>

Session == [user : Users, token : 1..MaxTokens, expired : BOOLEAN]

Init ==
    /\ sessions = << >>
    /\ active \in [Users -> BOOLEAN]
    /\ lastToken = 0

Of(u) == {l \in DOMAIN sessions : sessions[l].user = u}

Put(l, session) ==
    sessions' = [k \in DOMAIN sessions \cup {l} |->
                    IF k = l THEN session ELSE sessions[k]]

Close(closed) ==
    sessions' = [l \in DOMAIN sessions \ closed |-> sessions[l]]

NewToken(u) ==
    [user |-> u, token |-> lastToken + 1, expired |-> FALSE]

Issue(u, l) ==
    /\ active[u]
    /\ lastToken < MaxTokens
    /\ lastToken' = lastToken + 1
    /\ Put(l, NewToken(u))
    /\ UNCHANGED active

(* login_for_access_token                                                  *)
Login(u) == Issue(u, lastToken + 1)

(* refresh_access_token                                                    *)
Rotate(l) ==
    /\ ~sessions[l].expired
    /\ Issue(sessions[l].user, l)

(* revoke_all_user_refresh_tokens                                          *)
RevokeAll(u) ==
    /\ Close(Of(u))
    /\ UNCHANGED <<active, lastToken>>

Expire(l) ==
    /\ Put(l, [sessions[l] EXCEPT !.expired = TRUE])
    /\ UNCHANGED <<active, lastToken>>

(* cleanup_expired_tokens                                                  *)
CleanUp ==
    /\ Close({l \in DOMAIN sessions : sessions[l].expired})
    /\ UNCHANGED <<active, lastToken>>

(* update_user, delete_user                                                *)
SetActive(u, flag) ==
    /\ active' = [active EXCEPT ![u] = flag]
    /\ UNCHANGED <<sessions, lastToken>>

Next ==
    \/ \E u \in Users :
          \/ Login(u)
          \/ RevokeAll(u)
          \/ \E flag \in BOOLEAN : SetActive(u, flag)
    \/ \E l \in DOMAIN sessions : Rotate(l) \/ Expire(l)
    \/ CleanUp

Spec == Init /\ [][Next]_vars
=============================================================================
