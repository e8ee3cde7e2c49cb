------------------------------ MODULE AuthTokens ------------------------------
(***************************************************************************)
(* Refresh tokens (app/services/auth.py and app/routers/auth.py, and       *)
(* update_user and delete_user of app/routers/users.py), one query or      *)
(* commit per action.  A rotation verifies, revokes and creates in one     *)
(* transaction, at READ COMMITTED and with no lock on the row it read.     *)
(* Passwords, hashes, access tokens and rate limits are left out; of the   *)
(* times of a token, whether it has expired.                               *)
(***************************************************************************)
EXTENDS Naturals

CONSTANTS
    Users,
    Requests,       \* handlers that can run at the same time
    Conflicts,      \* pairs of kinds which, for one user, do not overlap
    None,
    MaxTokens       \* bound on the tokens ever issued

Kinds == {"login", "refresh", "revoke all", "set active", "expire"}

ASSUME ConflictsAssumption == \A pair \in Conflicts : pair \subseteq Kinds
ASSUME MaxTokensAssumption == MaxTokens \in Nat
ASSUME NoneAssumption == None \notin Users

VARIABLES
    rotation,       \* settings.REFRESH_TOKEN_ROTATION
    active,         \* User.is_active
    rows,           \* refresh_tokens, by id
    lastToken,
    requests,
    told,           \* the tokens that callers were given, by session
    out             \* sessions whose callers have to log in again

vars == <<rotation, active, rows, lastToken, requests, told, out>>

(* session is the first token of the chain, which no column records.       *)
RefreshToken == [user : Users, session : 1..MaxTokens,
                 is_revoked : BOOLEAN, expired : BOOLEAN]

Request == [pc : {"idle", "authenticated", "verified", "allowed", "answer"},
            user : Users \cup {None}, session : 0..MaxTokens,
            token : 0..MaxTokens]

Idle == [pc |-> "idle", user |-> None, session |-> 0, token |-> 0]

Init ==
    /\ rotation \in BOOLEAN
    /\ active \in [Users -> BOOLEAN]
    /\ rows = << >>
    /\ lastToken = 0
    /\ requests = [r \in Requests |-> Idle]
    /\ told = << >>
    /\ out = {}

-----------------------------------------------------------------------------

With(f, x, y) == [z \in DOMAIN f \cup {x} |-> IF z = x THEN y ELSE f[z]]

Live == {t \in DOMAIN rows : ~rows[t].is_revoked}

LiveOf(l) == {t \in Live : rows[t].session = l}

SessionsOf(tokens) == {rows[t].session : t \in tokens}

KindOf(r) == CASE requests[r].pc = "authenticated"           -> "login"
               [] requests[r].pc \in {"verified", "allowed"} -> "refresh"
               [] OTHER                                      -> "none"

(* Nothing under way for the user is in conflict.                          *)
MayRun(kind, u) ==
    \A r \in Requests :
        requests[r].user = u => {kind, KindOf(r)} \notin Conflicts

Goto(r, request) == requests' = [requests EXCEPT ![r] = request]

(* create_user_refresh_token in the table as it is otherwise.              *)
Created(table, u, l) ==
    With(table, lastToken + 1,
         [user |-> u, session |-> l, is_revoked |-> FALSE, expired |-> FALSE])

Revoked(table, tokens) ==
    [t \in DOMAIN table |-> IF t \in tokens
                            THEN [table[t] EXCEPT !.is_revoked = TRUE]
                            ELSE table[t]]

-----------------------------------------------------------------------------
(* login_for_access_token                                                  *)

Authenticate(r, u) ==
    /\ requests[r].pc = "idle"
    /\ MayRun("login", u)
    /\ active[u]                                                 \* else 401
    /\ Goto(r, [pc |-> "authenticated", user |-> u,
                session |-> 0, token |-> 0])
    /\ UNCHANGED <<rotation, active, rows, lastToken, told, out>>

(* INSERT and commit; where the bound on ids ends, a 500.                  *)
Issue(r) ==
    LET u == requests[r].user
        n == lastToken + 1
    IN  /\ requests[r].pc = "authenticated"
        /\ IF lastToken < MaxTokens
           THEN /\ rows' = Created(rows, u, n)
                /\ lastToken' = n
                /\ Goto(r, [pc |-> "answer", user |-> u,
                            session |-> n, token |-> n])
           ELSE Goto(r, Idle) /\ UNCHANGED <<rows, lastToken>>
        /\ UNCHANGED <<rotation, active, told, out>>

-----------------------------------------------------------------------------
(* refresh_access_token                                                    *)

(* Mutant: revoked tokens are let pass.                                    *)
VerifyUnexpired(r, t) ==
    /\ requests[r].pc = "idle"
    /\ t \in DOMAIN rows
    /\ MayRun("refresh", rows[t].user)
    /\ ~rows[t].expired
    /\ Goto(r, [pc |-> "verified", user |-> rows[t].user,
                session |-> rows[t].session, token |-> t])
    /\ UNCHANGED <<rotation, active, rows, lastToken, told, out>>

(* verify_user_refresh_token                                               *)
Verify(r, t) ==
    /\ requests[r].pc = "idle"
    /\ t \in DOMAIN rows                                         \* else 401
    /\ MayRun("refresh", rows[t].user)
    /\ ~rows[t].is_revoked                                       \* else 401
    /\ ~rows[t].expired                                          \* else 401
    /\ Goto(r, [pc |-> "verified", user |-> rows[t].user,
                session |-> rows[t].session, token |-> t])
    /\ UNCHANGED <<rotation, active, rows, lastToken, told, out>>

(* Mutant: is_active is not looked at.                                     *)
ReadUserOnly(r) ==
    /\ requests[r].pc = "verified"
    /\ Goto(r, [requests[r] EXCEPT !.pc = "allowed"])
    /\ UNCHANGED <<rotation, active, rows, lastToken, told, out>>

ReadUser(r) ==
    /\ requests[r].pc = "verified"
    /\ Goto(r, IF active[requests[r].user]
               THEN [requests[r] EXCEPT !.pc = "allowed"]
               ELSE Idle)                                        \* 401
    /\ UNCHANGED <<rotation, active, rows, lastToken, told, out>>

(* Mutant: the revocation is committed before there is a new token.        *)
RevokeFirst(r) ==
    LET t == requests[r].token
        u == requests[r].user
        n == lastToken + 1
    IN  /\ requests[r].pc = "allowed"
        /\ IF rotation /\ t \in Live
           THEN rows' = Revoked(rows, {t}) /\ UNCHANGED <<lastToken, requests>>
           ELSE IF rotation /\ t \in DOMAIN rows /\ lastToken < MaxTokens
           THEN /\ rows' = Created(rows, u, requests[r].session)
                /\ lastToken' = n
                /\ Goto(r, [requests[r] EXCEPT !.pc = "answer", !.token = n])
           ELSE Goto(r, Idle) /\ UNCHANGED <<rows, lastToken>>
        /\ UNCHANGED <<rotation, active, told, out>>

(* revoke_refresh_token, create_user_refresh_token and commit.  The UPDATE *)
(* is by primary key, whatever the row says by now; when the row is gone   *)
(* it fails and nothing is written.  Without rotation only last_used_at is.*)
Rotate(r) ==
    LET t == requests[r].token
        u == requests[r].user
        n == lastToken + 1
    IN  /\ requests[r].pc = "allowed"
        /\ IF rotation /\ t \in DOMAIN rows /\ lastToken < MaxTokens
           THEN /\ rows' = Created(Revoked(rows, {t}), u, requests[r].session)
                /\ lastToken' = n
                /\ Goto(r, [requests[r] EXCEPT !.pc = "answer", !.token = n])
           ELSE Goto(r, Idle) /\ UNCHANGED <<rows, lastToken>>
        /\ UNCHANGED <<rotation, active, told, out>>

-----------------------------------------------------------------------------
(* The end of either: the answer, or a crash at any point.                 *)

Answer(r) ==
    LET l == requests[r].session
    IN  /\ requests[r].pc = "answer"
        /\ told' = With(told, l, {requests[r].token} \cup
                                 (IF l \in DOMAIN told THEN told[l] ELSE {}))
        /\ Goto(r, Idle)
        /\ UNCHANGED <<rotation, active, rows, lastToken, out>>

(* What was not committed is rolled back; an answer that was due is lost.  *)
Crash(r) ==
    /\ requests[r].pc # "idle"
    /\ out' = IF requests[r].pc = "answer" THEN out \cup {requests[r].session}
                                           ELSE out
    /\ Goto(r, Idle)
    /\ UNCHANGED <<rotation, active, rows, lastToken, told>>

-----------------------------------------------------------------------------
(* Operations of one statement                                             *)

(* revoke_all_user_refresh_tokens                                          *)
RevokeAll(u) ==
    LET tokens == {t \in Live : rows[t].user = u}
    IN  /\ MayRun("revoke all", u)
        /\ rows' = Revoked(rows, tokens)
        /\ out' = out \cup SessionsOf(tokens)
        /\ UNCHANGED <<rotation, active, lastToken, requests, told>>

(* cleanup_expired_tokens                                                  *)
CleanUp ==
    LET tokens == {t \in DOMAIN rows : rows[t].expired}
    IN  /\ rows' = [t \in DOMAIN rows \ tokens |-> rows[t]]
        /\ out' = out \cup SessionsOf(tokens \cap Live)
        /\ UNCHANGED <<rotation, active, lastToken, requests, told>>

(* update_user can say either, delete_user is FALSE.                       *)
SetActive(u, flag) ==
    /\ MayRun("set active", u)
    /\ active' = [active EXCEPT ![u] = flag]
    /\ UNCHANGED <<rotation, rows, lastToken, requests, told, out>>

(* Time passes expires_at.                                                 *)
Expire(t) ==
    /\ MayRun("expire", rows[t].user)
    /\ rows' = [rows EXCEPT ![t].expired = TRUE]
    /\ UNCHANGED <<rotation, active, lastToken, requests, told, out>>

-----------------------------------------------------------------------------

Handle(r) ==
    \/ \E u \in Users : Authenticate(r, u)
    \/ Issue(r)
    \/ \E l \in DOMAIN told : \E t \in told[l] : Verify(r, t)
    \/ ReadUser(r)
    \/ Rotate(r)
    \/ Answer(r)
    \/ Crash(r)

Next ==
    \/ \E r \in Requests : Handle(r)
    \/ \E u \in Users :
          RevokeAll(u) \/ \E flag \in BOOLEAN : SetActive(u, flag)
    \/ \E t \in DOMAIN rows : Expire(t)
    \/ CleanUp

Spec == Init /\ [][Next]_vars

-----------------------------------------------------------------------------
(* Properties                                                              *)

(* refresh_access_token, "the old refresh token is revoked and a new one   *)
(* is returned": of the tokens that come from one login one can be used.   *)
OneLiveTokenPerSession ==
    \A t, s \in Live : rows[t].session = rows[s].session => t = s

(* "A crash mid-rotation leaves the caller with the original token still   *)
(* valid, never with no token": unless all tokens were revoked, the token  *)
(* ran out, or an answer was lost after the commit, the caller has a token *)
(* that is not revoked, or an answer with one is on its way.               *)
CallersKeepAToken ==
    \A l \in DOMAIN told \ out :
        \/ LiveOf(l) \cap told[l] # {}
        \/ \E r \in Requests : /\ requests[r].pc = "answer"
                               /\ requests[r].token \in LiveOf(l)

(* The sessions that the table stands for.                                 *)
TokenOf(l) == CHOOSE t \in LiveOf(l) : TRUE

SessionOf(l) ==
    [user    |-> rows[TokenOf(l)].user,
     token   |-> TokenOf(l),
     expired |-> rows[TokenOf(l)].expired]

OpenSessions == [l \in SessionsOf(Live) |-> SessionOf(l)]

Sessions == INSTANCE TokenSessions WITH sessions <- OpenSessions

(* However the handlers interleave, each operation takes effect in one     *)
(* step of TokenSessions or in none; in particular no inactive user gets a *)
(* token, and no session that was closed comes back.                       *)
SessionsSpec == Sessions!Spec
=============================================================================
