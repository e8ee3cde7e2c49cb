--------------------------- MODULE AuthTokensProofs ---------------------------
(* What the handlers of refresh tokens keep, and what has to queue for it, *)
(* for every number of users, handlers and tokens.                         *)
EXTENDS AuthTokens, TLAPS

(* Refreshes of a user queue with each other and with what they have read, *)
(* and logins with the deactivation of the user.                           *)
EnoughQueue ==
    /\ \A kind \in {"refresh", "revoke all", "set active", "expire"} :
          {"refresh", kind} \in Conflicts
    /\ {"login", "set active"} \in Conflicts

-----------------------------------------------------------------------------
(* The invariant                                                           *)

TypeInv ==
    /\ rotation \in BOOLEAN
    /\ active \in [Users -> BOOLEAN]
    /\ lastToken \in 0..MaxTokens
    /\ DOMAIN rows \subseteq 1..lastToken
    /\ \A t \in DOMAIN rows : /\ rows[t] \in RefreshToken
                             /\ rows[t].session \in 1..lastToken
    /\ requests \in [Requests -> Request]

(* Between its query of the token and its commit.                          *)
Refreshing(r) == requests[r].pc \in {"verified", "allowed"}

(* What a handler has read is still so, unless the row is gone.            *)
ReadInv ==
    \A r \in Requests :
        /\ requests[r].pc # "idle" => requests[r].user \in Users
        /\ requests[r].pc \in {"authenticated", "allowed"} =>
              active[requests[r].user]
        /\ Refreshing(r) =>
              /\ requests[r].token \in 1..lastToken
              /\ requests[r].session \in 1..lastToken
              /\ requests[r].token \in DOMAIN rows =>
                    LET row == rows[requests[r].token]
                    IN  /\ row.user = requests[r].user
                        /\ row.session = requests[r].session
                        /\ ~row.is_revoked
                        /\ ~row.expired

(* Refreshes of one user are one at a time.                                *)
AloneInv ==
    \A r, q \in Requests :
        Refreshing(r) /\ Refreshing(q) /\ requests[r].user = requests[q].user
            => r = q

Inv == TypeInv /\ ReadInv /\ AloneInv /\ OneLiveTokenPerSession

-----------------------------------------------------------------------------

LEMMA InitInv == Init => Inv
<1> SUFFICES ASSUME Init PROVE Inv
  OBVIOUS
<1>1. DOMAIN rows = {}
  BY DEF Init
<1>2. Idle \in Request
  BY MaxTokensAssumption DEF Idle, Request
<1>3. \A r \in Requests : requests[r] = Idle
  BY DEF Init
<1>4. TypeInv
  BY <1>1, <1>2, MaxTokensAssumption DEF Init, TypeInv
<1>5. ReadInv /\ AloneInv
  BY <1>3 DEF ReadInv, AloneInv, Refreshing, Idle
<1>6. OneLiveTokenPerSession
  BY <1>1 DEF OneLiveTokenPerSession, Live
<1> QED BY <1>4, <1>5, <1>6 DEF Inv

(* A handler goes on: nothing else is done, and what it goes on with holds.*)
LEMMA GoneOn ==
    ASSUME Inv, NEW r \in Requests, NEW next \in Request, Goto(r, next),
           UNCHANGED <<rotation, active, rows, lastToken>>,
           next.pc # "idle" => next.user \in Users,
           next.pc \in {"authenticated", "allowed"} => active[next.user],
           next.pc \in {"verified", "allowed"} =>
              /\ next.token \in 1..lastToken
              /\ next.session \in 1..lastToken
              /\ next.token \in DOMAIN rows =>
                    /\ rows[next.token].user = next.user
                    /\ rows[next.token].session = next.session
                    /\ ~rows[next.token].is_revoked
                    /\ ~rows[next.token].expired
              /\ \A q \in Requests \ {r} :
                    ~(Refreshing(q) /\ requests[q].user = next.user)
    PROVE  Inv'
<1>1. /\ requests'[r] = next
      /\ \A q \in Requests \ {r} : requests'[q] = requests[q]
      /\ requests' \in [Requests -> Request]
  BY DEF Goto, Inv, TypeInv
<1>2. TypeInv'
  BY <1>1 DEF Inv, TypeInv
<1>3. ReadInv'
  BY <1>1 DEF Inv, ReadInv, Refreshing
<1>4. AloneInv'
  BY <1>1 DEF Inv, AloneInv, Refreshing
<1>5. OneLiveTokenPerSession'
  BY DEF Inv, OneLiveTokenPerSession, Live
<1> QED BY <1>2, <1>3, <1>4, <1>5 DEF Inv

LEMMA GoneIdle ==
    ASSUME Inv, NEW r \in Requests, Goto(r, Idle),
           UNCHANGED <<rotation, active, rows, lastToken>>
    PROVE  Inv'
<1>1. Idle \in Request /\ Idle.pc = "idle"
  BY MaxTokensAssumption DEF Idle, Request
<1> QED BY <1>1, GoneOn

(* A kind that may run overlaps no refresh of the user in conflict with it.*)
LEMMA Queued ==
    ASSUME EnoughQueue, NEW u \in Users
    PROVE  /\ \A kind \in {"refresh", "revoke all", "set active", "expire"} :
                 MayRun(kind, u) => \A r \in Requests :
                    ~(Refreshing(r) /\ requests[r].user = u)
           /\ MayRun("set active", u) => \A r \in Requests :
                 ~(requests[r].pc = "authenticated" /\ requests[r].user = u)
<1>1. ASSUME NEW kind \in {"refresh", "revoke all", "set active", "expire"},
             MayRun(kind, u), NEW r \in Requests,
             Refreshing(r), requests[r].user = u
      PROVE  FALSE
  <2>1. KindOf(r) = "refresh"
    BY <1>1 DEF Refreshing, KindOf
  <2>2. {kind, "refresh"} = {"refresh", kind}
    OBVIOUS
  <2> QED BY <1>1, <2>1, <2>2 DEF EnoughQueue, MayRun
<1>2. ASSUME MayRun("set active", u), NEW r \in Requests,
             requests[r].pc = "authenticated", requests[r].user = u
      PROVE  FALSE
  <2>1. KindOf(r) = "login"
    BY <1>2 DEF KindOf
  <2>2. {"set active", "login"} = {"login", "set active"}
    OBVIOUS
  <2> QED BY <1>2, <2>1, <2>2 DEF EnoughQueue, MayRun
<1> QED BY <1>1, <1>2

-----------------------------------------------------------------------------
(* A token is created: for a session that had none, or in exchange for the *)
(* one that it had.                                                        *)

Dead(row) == [row EXCEPT !.is_revoked = TRUE]

LEMMA DeadRow ==
    ASSUME NEW row \in RefreshToken
    PROVE  /\ Dead(row) \in RefreshToken
           /\ Dead(row).session = row.session
           /\ Dead(row).user = row.user
           /\ Dead(row).expired = row.expired
           /\ Dead(row).is_revoked
BY DEF Dead, RefreshToken

LEMMA InvNewToken ==
    ASSUME Inv, NEW r \in Requests, NEW next \in Request, NEW u \in Users,
           NEW l \in 1..(lastToken + 1), NEW old,
           lastToken < MaxTokens,
           DOMAIN rows' = DOMAIN rows \cup {lastToken + 1},
           rows'[lastToken + 1] = [user |-> u, session |-> l,
                                   is_revoked |-> FALSE, expired |-> FALSE],
           \A t \in DOMAIN rows :
              rows'[t] = IF t \in old THEN Dead(rows[t])
                                      ELSE rows[t],
           lastToken' = lastToken + 1,
           Goto(r, next), next.pc = "answer", next.user \in Users,
           UNCHANGED <<rotation, active>>,
           \A t \in Live : rows[t].session = l => t \in old,
           \A q \in Requests \ {r} : Refreshing(q) => requests[q].token \notin old
    PROVE  Inv'
<1> DEFINE n == lastToken + 1
           row == [user |-> u, session |-> l, is_revoked |-> FALSE,
                   expired |-> FALSE]
<1>1. /\ requests'[r] = next
      /\ \A q \in Requests \ {r} : requests'[q] = requests[q]
      /\ requests' \in [Requests -> Request]
  BY DEF Goto, Inv, TypeInv
<1>2. n \notin DOMAIN rows /\ n \in Nat /\ lastToken \in Nat
  BY DEF Inv, TypeInv
<1>3. row \in RefreshToken
  BY <1>2, MaxTokensAssumption DEF RefreshToken
<1>4. /\ DOMAIN rows' = DOMAIN rows \cup {n}
      /\ rows'[n] = row
      /\ \A t \in DOMAIN rows :
            rows'[t] = IF t \in old THEN Dead(rows[t])
                                    ELSE rows[t]
  OBVIOUS
<1>5. \A t \in DOMAIN rows :
         /\ rows'[t] \in RefreshToken
         /\ rows'[t].session = rows[t].session
         /\ rows'[t].user = rows[t].user
         /\ rows'[t].expired = rows[t].expired
         /\ ~rows'[t].is_revoked => ~rows[t].is_revoked /\ t \notin old
         /\ t \notin old => rows'[t] = rows[t]
  <2> SUFFICES ASSUME NEW t \in DOMAIN rows
               PROVE  /\ rows'[t] \in RefreshToken
                      /\ rows'[t].session = rows[t].session
                      /\ rows'[t].user = rows[t].user
                      /\ rows'[t].expired = rows[t].expired
                      /\ ~rows'[t].is_revoked =>
                            ~rows[t].is_revoked /\ t \notin old
                      /\ t \notin old => rows'[t] = rows[t]
    OBVIOUS
  <2>1. rows[t] \in RefreshToken
    BY DEF Inv, TypeInv
  <2>2. CASE t \in old
    BY <1>4, <2>1, <2>2, DeadRow
  <2>3. CASE t \notin old
    BY <1>4, <2>1, <2>3
  <2> QED BY <2>2, <2>3
<1> HIDE DEF row
<1>6. TypeInv'
  <2>1. \A t \in DOMAIN rows' : rows'[t] \in RefreshToken
    BY <1>3, <1>4, <1>5
  <2>2. \A t \in DOMAIN rows' : rows'[t].session \in 1..lastToken'
    BY <1>2, <1>4, <1>5 DEF Inv, TypeInv, row
  <2> QED
    BY <1>1, <1>2, <1>4, <2>1, <2>2, MaxTokensAssumption DEF Inv, TypeInv
<1>7. ReadInv'
  <2> SUFFICES ASSUME NEW q \in Requests
               PROVE  ReadInv!(q)'
    BY DEF ReadInv
  <2>1. CASE q = r
    BY <1>1, <2>1 DEF Refreshing
  <2>2. CASE q # r
    <3>1. requests'[q] = requests[q]
      BY <1>1, <2>2
    <3>2. Refreshing(q) => /\ requests[q].token # n
                           /\ requests[q].token \in 1..lastToken'
                           /\ requests[q].session \in 1..lastToken'
                           /\ requests[q].token \notin old
      BY <1>2, <2>2 DEF Inv, ReadInv
    <3> QED BY <1>4, <1>5, <3>1, <3>2 DEF Inv, ReadInv, Refreshing
  <2> QED BY <2>1, <2>2
<1>8. AloneInv'
  BY <1>1 DEF Inv, AloneInv, Refreshing
<1>9. OneLiveTokenPerSession'
  <2> SUFFICES ASSUME NEW s \in DOMAIN rows', NEW t \in DOMAIN rows',
                      ~rows'[s].is_revoked, ~rows'[t].is_revoked,
                      rows'[s].session = rows'[t].session
               PROVE  s = t
    BY DEF OneLiveTokenPerSession, Live
  <2>1. ASSUME NEW x \in DOMAIN rows, ~rows'[x].is_revoked
        PROVE  x \in Live /\ rows'[x].session # l
    BY <1>5, <2>1 DEF Live
  <2>2. CASE s # n /\ t # n
    BY <1>4, <1>5, <2>1, <2>2 DEF Inv, OneLiveTokenPerSession
  <2>3. CASE s = n \/ t = n
    BY <1>4, <2>1, <2>3 DEF row
  <2> QED BY <2>2, <2>3
<1> QED BY <1>6, <1>7, <1>8, <1>9 DEF Inv

-----------------------------------------------------------------------------
(* The actions                                                             *)

LEMMA IssueInv ==
    ASSUME Inv, NEW r \in Requests, Issue(r)
    PROVE  Inv'
<1> DEFINE u == requests[r].user
           n == lastToken + 1
           next == [pc |-> "answer", user |-> u, session |-> n, token |-> n]
<1>1. CASE lastToken < MaxTokens
  <2>1. /\ rows' = Created(rows, u, n)
        /\ lastToken' = n
        /\ Goto(r, next)
        /\ UNCHANGED <<rotation, active>>
    BY <1>1 DEF Issue
  <2>2. u \in Users /\ lastToken \in Nat /\ n \notin DOMAIN rows
    BY DEF Issue, Inv, ReadInv, TypeInv
  <2>3. next \in Request
    BY <1>1, <2>2, MaxTokensAssumption DEF Request
  <2>4. \A t \in Live : rows[t].session # n
    BY <2>2 DEF Inv, TypeInv, Live
  <2>5. /\ DOMAIN rows' = DOMAIN rows \cup {n}
        /\ rows'[n] = [user |-> u, session |-> n,
                       is_revoked |-> FALSE, expired |-> FALSE]
        /\ \A t \in DOMAIN rows : rows'[t] = rows[t]
    BY <2>1, <2>2 DEF Created, With
  <2>6. PICK old : old = {}
    OBVIOUS
  <2>7. n \in 1..(lastToken + 1) /\ next.pc = "answer" /\ next.user = u
    BY <2>2
  <2>8. /\ \A t \in DOMAIN rows :
              rows'[t] = IF t \in old THEN Dead(rows[t])
                                      ELSE rows[t]
        /\ \A t \in Live : rows[t].session = n => t \in old
        /\ \A q \in Requests \ {r} :
              Refreshing(q) => requests[q].token \notin old
    BY <2>4, <2>5, <2>6
  <2> HIDE DEF next, u
  <2> QED
    BY <1>1, <2>1, <2>2, <2>3, <2>5, <2>7, <2>8, InvNewToken
<1>2. CASE ~(lastToken < MaxTokens)
  BY <1>2, GoneIdle DEF Issue
<1> QED BY <1>1, <1>2

LEMMA RotateInv ==
    ASSUME Inv, NEW r \in Requests, Rotate(r)
    PROVE  Inv'
<1> DEFINE t == requests[r].token
           u == requests[r].user
           l == requests[r].session
           n == lastToken + 1
           next == [requests[r] EXCEPT !.pc = "answer", !.token = n]
<1>1. CASE rotation /\ t \in DOMAIN rows /\ lastToken < MaxTokens
  <2>1. /\ rows' = Created(Revoked(rows, {t}), u, l)
        /\ lastToken' = n
        /\ Goto(r, next)
        /\ UNCHANGED <<rotation, active>>
    BY <1>1 DEF Rotate
  <2>2. /\ Refreshing(r) /\ requests[r] \in Request
        /\ u \in Users /\ lastToken \in Nat /\ n \notin DOMAIN rows
        /\ l \in 1..lastToken
        /\ rows[t].session = l /\ ~rows[t].is_revoked /\ rows[t].user = u
    BY <1>1 DEF Rotate, Inv, ReadInv, TypeInv, Refreshing
  <2>3. next \in Request /\ next.pc = "answer" /\ next.user = u
    <3>1. n \in 0..MaxTokens
      BY <1>1, <2>2, MaxTokensAssumption
    <3> QED BY <2>2, <3>1 DEF Request
  <2>4. \A s \in Live : rows[s].session = l => s \in {t}
    BY <1>1, <2>2 DEF Inv, OneLiveTokenPerSession, Live
  <2>5. /\ DOMAIN rows' = DOMAIN rows \cup {n}
        /\ rows'[n] = [user |-> u, session |-> l,
                       is_revoked |-> FALSE, expired |-> FALSE]
    BY <2>1 DEF Created, Revoked, With
  <2>6. \A q \in Requests \ {r} : Refreshing(q) => requests[q].token \notin {t}
    BY <1>1, <2>2 DEF Inv, AloneInv, ReadInv
  <2>7. l \in 1..(lastToken + 1)
    BY <2>2
  <2>8. PICK old : old = {t}
    OBVIOUS
  <2>9. /\ \A s \in DOMAIN rows :
              rows'[s] = IF s \in old THEN Dead(rows[s])
                                      ELSE rows[s]
        /\ \A s \in Live : rows[s].session = l => s \in old
        /\ \A q \in Requests \ {r} :
              Refreshing(q) => requests[q].token \notin old
    <3>1. \A s \in DOMAIN rows :
             rows'[s] = IF s \in {t} THEN Dead(rows[s])
                                     ELSE rows[s]
      BY <2>1, <2>2 DEF Created, Revoked, With, Dead
    <3> QED BY <2>4, <2>6, <2>8, <3>1
  <2> HIDE DEF next, u, l, t
  <2> QED
    BY <1>1, <2>1, <2>2, <2>3, <2>5, <2>7, <2>9, InvNewToken
<1>2. CASE ~(rotation /\ t \in DOMAIN rows /\ lastToken < MaxTokens)
  BY <1>2, GoneIdle DEF Rotate
<1> QED BY <1>1, <1>2

LEMMA VerifyInv ==
    ASSUME EnoughQueue, Inv, NEW r \in Requests, NEW t, Verify(r, t)
    PROVE  Inv'
<1> DEFINE next == [pc |-> "verified", user |-> rows[t].user,
                    session |-> rows[t].session, token |-> t]
<1>1. /\ t \in DOMAIN rows /\ t \in 1..lastToken
      /\ rows[t] \in RefreshToken /\ rows[t].session \in 1..lastToken
      /\ ~rows[t].is_revoked /\ ~rows[t].expired
      /\ MayRun("refresh", rows[t].user)
      /\ Goto(r, next)
      /\ UNCHANGED <<rotation, active, rows, lastToken>>
  BY DEF Verify, Inv, TypeInv
<1>2. rows[t].user \in Users
  BY <1>1 DEF RefreshToken
<1>3. \A q \in Requests : ~(Refreshing(q) /\ requests[q].user = rows[t].user)
  BY <1>1, <1>2, Queued
<1>4. t \in 1..MaxTokens
  BY <1>1, MaxTokensAssumption DEF Inv, TypeInv
<1>5. next \in Request
  BY <1>1, <1>2, <1>4 DEF Request, RefreshToken
<1>6. /\ next.pc = "verified"
      /\ next.user = rows[t].user
      /\ next.session = rows[t].session
      /\ next.token = t
  OBVIOUS
<1> HIDE DEF next
<1> QED BY <1>1, <1>2, <1>3, <1>5, <1>6, GoneOn

LEMMA ReadUserInv ==
    ASSUME Inv, NEW r \in Requests, ReadUser(r)
    PROVE  Inv'
<1> DEFINE next == [requests[r] EXCEPT !.pc = "allowed"]
<1>1. CASE active[requests[r].user]
  <2>1. /\ Refreshing(r) /\ requests[r] \in Request
        /\ Goto(r, next)
        /\ UNCHANGED <<rotation, active, rows, lastToken>>
    BY <1>1 DEF ReadUser, Inv, TypeInv, Refreshing
  <2>2. /\ next \in Request
        /\ next.pc = "allowed"
        /\ next.user = requests[r].user
        /\ next.session = requests[r].session
        /\ next.token = requests[r].token
    BY <2>1 DEF Request
  <2>3. requests[r].pc = "verified"
    BY DEF ReadUser
  <2>4. \A q \in Requests \ {r} :
           ~(Refreshing(q) /\ requests[q].user = next.user)
    BY <2>1, <2>2 DEF Inv, AloneInv
  <2> HIDE DEF next
  <2> QED
    BY <1>1, <2>1, <2>2, <2>3, <2>4, GoneOn DEF Inv, ReadInv
<1>2. CASE ~active[requests[r].user]
  BY <1>2, GoneIdle DEF ReadUser
<1> QED BY <1>1, <1>2

LEMMA AuthenticateInv ==
    ASSUME Inv, NEW r \in Requests, NEW u \in Users, Authenticate(r, u)
    PROVE  Inv'
<1> DEFINE next == [pc |-> "authenticated", user |-> u,
                    session |-> 0, token |-> 0]
<1>1. /\ next \in Request
      /\ next.pc = "authenticated"
      /\ next.user = u
  BY MaxTokensAssumption DEF Request
<1>2. /\ Goto(r, next)
      /\ active[u]
      /\ UNCHANGED <<rotation, active, rows, lastToken>>
  BY DEF Authenticate
<1> HIDE DEF next
<1> QED BY <1>1, <1>2, GoneOn

(* Rows are revoked, expire or go: whoever has read one is not refreshing. *)
LEMMA InvRows ==
    ASSUME Inv, UNCHANGED <<rotation, active, lastToken, requests>>,
           DOMAIN rows' \subseteq DOMAIN rows,
           \A t \in DOMAIN rows' :
              /\ rows'[t] \in RefreshToken
              /\ rows'[t].session = rows[t].session
              /\ rows'[t].user = rows[t].user
              /\ rows[t].is_revoked => rows'[t].is_revoked
              /\ \A r \in Requests :
                    Refreshing(r) /\ requests[r].user = rows[t].user =>
                       /\ rows'[t].is_revoked = rows[t].is_revoked
                       /\ rows'[t].expired = rows[t].expired
    PROVE  Inv'
<1>1. TypeInv'
  BY DEF Inv, TypeInv
<1>2. ReadInv'
  BY DEF Inv, ReadInv, Refreshing
<1>3. AloneInv'
  BY DEF Inv, AloneInv, Refreshing
<1>4. OneLiveTokenPerSession'
  BY DEF Inv, OneLiveTokenPerSession, Live
<1> QED BY <1>1, <1>2, <1>3, <1>4 DEF Inv

LEMMA RevokeAllInv ==
    ASSUME EnoughQueue, Inv, NEW u \in Users, RevokeAll(u)
    PROVE  Inv'
<1> DEFINE tokens == {t \in Live : rows[t].user = u}
<1>1. /\ DOMAIN rows' = DOMAIN rows
      /\ \A t \in DOMAIN rows :
            rows'[t] = IF t \in tokens
                       THEN Dead(rows[t])
                       ELSE rows[t]
      /\ UNCHANGED <<rotation, active, lastToken, requests>>
      /\ MayRun("revoke all", u)
  BY DEF RevokeAll, Revoked, Dead
<1>2. \A r \in Requests : ~(Refreshing(r) /\ requests[r].user = u)
  BY <1>1, Queued
<1>3. ASSUME NEW t \in DOMAIN rows
      PROVE  /\ rows'[t] \in RefreshToken
             /\ rows'[t].session = rows[t].session
             /\ rows'[t].user = rows[t].user
             /\ rows[t].is_revoked => rows'[t].is_revoked
             /\ rows[t].user # u => rows'[t] = rows[t]
  <2>1. rows[t] \in RefreshToken
    BY DEF Inv, TypeInv
  <2>2. CASE t \in tokens
    <3>1. rows'[t] = Dead(rows[t]) /\ rows[t].user = u
      BY <1>1, <2>2
    <3>2. /\ rows'[t] \in RefreshToken
          /\ rows'[t].session = rows[t].session
          /\ rows'[t].user = rows[t].user
          /\ rows'[t].is_revoked
      BY <2>1, <3>1, DeadRow
    <3> QED BY <3>1, <3>2
  <2>3. CASE t \notin tokens
    BY <1>1, <2>1, <2>3
  <2> QED BY <2>2, <2>3
<1> QED BY <1>1, <1>2, <1>3, InvRows

LEMMA ExpireInv ==
    ASSUME EnoughQueue, Inv, NEW t \in DOMAIN rows, Expire(t)
    PROVE  Inv'
<1>1. rows[t] \in RefreshToken /\ rows[t].user \in Users
  BY DEF Inv, TypeInv, RefreshToken
<1>2. /\ DOMAIN rows' = DOMAIN rows
      /\ rows'[t] = [rows[t] EXCEPT !.expired = TRUE]
      /\ \A s \in DOMAIN rows \ {t} : rows'[s] = rows[s]
      /\ UNCHANGED <<rotation, active, lastToken, requests>>
      /\ MayRun("expire", rows[t].user)
  BY DEF Expire
<1>3. \A r \in Requests : ~(Refreshing(r) /\ requests[r].user = rows[t].user)
  BY <1>1, <1>2, Queued
<1>4. /\ rows'[t] \in RefreshToken
      /\ rows'[t].session = rows[t].session
      /\ rows'[t].user = rows[t].user
      /\ rows'[t].is_revoked = rows[t].is_revoked
  BY <1>1, <1>2 DEF RefreshToken
<1>5. \A s \in DOMAIN rows : rows[s] \in RefreshToken
  BY DEF Inv, TypeInv
<1> QED BY <1>2, <1>3, <1>4, <1>5, InvRows

LEMMA CleanUpInv ==
    ASSUME Inv, CleanUp
    PROVE  Inv'
<1>1. /\ DOMAIN rows' \subseteq DOMAIN rows
      /\ \A t \in DOMAIN rows' : rows'[t] = rows[t]
      /\ UNCHANGED <<rotation, active, lastToken, requests>>
  BY DEF CleanUp
<1>2. \A t \in DOMAIN rows : rows[t] \in RefreshToken
  BY DEF Inv, TypeInv
<1> QED BY <1>1, <1>2, InvRows

LEMMA SetActiveInv ==
    ASSUME EnoughQueue, Inv, NEW u \in Users, NEW flag \in BOOLEAN,
           SetActive(u, flag)
    PROVE  Inv'
<1>1. /\ active' = [active EXCEPT ![u] = flag]
      /\ UNCHANGED <<rotation, rows, lastToken, requests>>
      /\ MayRun("set active", u)
  BY DEF SetActive
<1>2. \A r \in Requests :
         requests[r].pc \in {"authenticated", "allowed"} =>
            requests[r].user # u
  BY <1>1, Queued DEF Refreshing
<1>3. TypeInv'
  BY <1>1 DEF Inv, TypeInv
<1>4. ReadInv'
  BY <1>1, <1>2 DEF Inv, TypeInv, ReadInv, Refreshing
<1>5. AloneInv' /\ OneLiveTokenPerSession'
  BY <1>1 DEF Inv, AloneInv, Refreshing, OneLiveTokenPerSession, Live
<1> QED BY <1>3, <1>4, <1>5 DEF Inv

LEMMA NextInv ==
    ASSUME EnoughQueue, Inv, [Next]_vars
    PROVE  Inv'
<1>1. CASE UNCHANGED vars
  BY <1>1 DEF vars, Inv, TypeInv, ReadInv, AloneInv, Refreshing,
              OneLiveTokenPerSession, Live
<1>2. ASSUME NEW r \in Requests, Handle(r)
      PROVE  Inv'
  <2>1. CASE \E u \in Users : Authenticate(r, u)
    BY <2>1, AuthenticateInv
  <2>2. CASE Issue(r)
    BY <2>2, IssueInv
  <2>3. CASE \E l \in DOMAIN told : \E t \in told[l] : Verify(r, t)
    BY <2>3, VerifyInv
  <2>4. CASE ReadUser(r)
    BY <2>4, ReadUserInv
  <2>5. CASE Rotate(r)
    BY <2>5, RotateInv
  <2>6. CASE Answer(r)
    BY <2>6, GoneIdle DEF Answer
  <2>7. CASE Crash(r)
    BY <2>7, GoneIdle DEF Crash
  <2> QED
    BY <1>2, <2>1, <2>2, <2>3, <2>4, <2>5, <2>6, <2>7 DEF Handle
<1>3. ASSUME NEW u \in Users, RevokeAll(u)
      PROVE  Inv'
  BY <1>3, RevokeAllInv
<1>4. ASSUME NEW u \in Users, NEW flag \in BOOLEAN, SetActive(u, flag)
      PROVE  Inv'
  BY <1>4, SetActiveInv
<1>5. ASSUME NEW t \in DOMAIN rows, Expire(t)
      PROVE  Inv'
  BY <1>5, ExpireInv
<1>6. CASE CleanUp
  BY <1>6, CleanUpInv
<1> QED BY <1>1, <1>2, <1>3, <1>4, <1>5, <1>6 DEF Next

LEMMA Invariance == EnoughQueue => (Spec => []Inv)
<1> SUFFICES ASSUME EnoughQueue PROVE Spec => []Inv
  OBVIOUS
<1>1. Init => Inv
  BY InitInv
<1>2. Inv /\ [Next]_vars => Inv'
  BY NextInv
<1> QED BY <1>1, <1>2, PTL DEF Spec

(* If refreshes of a user queue with each other and with what they read,   *)
(* at most one of the tokens that come from one login can be used.         *)
THEOREM OneTokenASession ==
    EnoughQueue => (Spec => []OneLiveTokenPerSession)
<1> SUFFICES ASSUME EnoughQueue PROVE Spec => []OneLiveTokenPerSession
  OBVIOUS
<1>1. Inv => OneLiveTokenPerSession
  BY DEF Inv
<1> QED BY <1>1, Invariance, PTL

-----------------------------------------------------------------------------
(* What the callers hold: a token that was not told is of one handler, and *)
(* can be used unless its session is out.                                  *)

Told(t) == \E l \in DOMAIN told : t \in told[l]

AnswerInv ==
    /\ \A l \in DOMAIN told : told[l] \subseteq 1..lastToken
    /\ \A r \in Requests : Refreshing(r) => Told(requests[r].token)
    /\ \A r \in Requests : requests[r].pc = "answer" =>
          /\ requests[r].token \in 1..lastToken
          /\ ~Told(requests[r].token)
          /\ \/ requests[r].token \in LiveOf(requests[r].session)
             \/ requests[r].session \in out
          /\ requests[r].token \in DOMAIN rows =>
                rows[requests[r].token].session = requests[r].session
    /\ \A r, q \in Requests :
          /\ requests[r].pc = "answer" /\ requests[q].pc = "answer"
          /\ requests[r].token = requests[q].token
          => r = q

CallersInv == AnswerInv /\ CallersKeepAToken

LEMMA InitCallers == Init => CallersInv
<1> SUFFICES ASSUME Init PROVE CallersInv
  OBVIOUS
<1>1. DOMAIN told = {}
  BY DEF Init
<1>2. \A r \in Requests : requests[r].pc = "idle"
  BY DEF Init, Idle
<1> QED
  BY <1>1, <1>2 DEF CallersInv, AnswerInv, CallersKeepAToken, Refreshing

(* A handler goes on that had no answer to give and has none yet.          *)
LEMMA CallersGoneOn ==
    ASSUME Inv, CallersInv, NEW r \in Requests, NEW next, Goto(r, next),
           UNCHANGED <<rows, lastToken, told, out>>,
           requests[r].pc # "answer", next.pc # "answer",
           next.pc \in {"verified", "allowed"} => Told(next.token)
    PROVE  CallersInv'
<1>1. /\ requests'[r] = next
      /\ \A q \in Requests \ {r} : requests'[q] = requests[q]
  BY DEF Goto, Inv, TypeInv
<1>2. AnswerInv'
  BY <1>1 DEF CallersInv, AnswerInv, Told, LiveOf, Live, Refreshing
<1>3. CallersKeepAToken'
  BY <1>1 DEF CallersInv, CallersKeepAToken, LiveOf, Live
<1> QED BY <1>2, <1>3 DEF CallersInv

(* A token is created for session l, whose other tokens are revoked.       *)
LEMMA CallersNewToken ==
    ASSUME Inv, CallersInv, NEW r \in Requests, NEW l, NEW old,
           requests[r].pc # "answer",
           DOMAIN rows' = DOMAIN rows \cup {lastToken + 1},
           rows'[lastToken + 1].session = l,
           ~rows'[lastToken + 1].is_revoked,
           \A t \in DOMAIN rows \ old : rows'[t] = rows[t],
           \A t \in old : Told(t) /\ (t \in DOMAIN rows => rows[t].session = l),
           lastToken' = lastToken + 1,
           NEW next, Goto(r, next), next.pc = "answer", next.session = l,
           next.token = lastToken + 1,
           UNCHANGED <<told, out>>
    PROVE  CallersInv'
<1> DEFINE n == lastToken + 1
<1>1. /\ requests'[r] = next
      /\ \A q \in Requests \ {r} : requests'[q] = requests[q]
  BY DEF Goto, Inv, TypeInv
<1>2. lastToken \in Nat /\ n \notin DOMAIN rows
  BY MaxTokensAssumption DEF Inv, TypeInv
<1>3. /\ n \in LiveOf(l)'
      /\ \A k, t : t \in LiveOf(k) /\ t \notin old => t \in LiveOf(k)'
      /\ \A k, t : t \in LiveOf(k) /\ k # l => t \in LiveOf(k)'
  BY <1>2 DEF LiveOf, Live
<1>4. AnswerInv'
  <2>1. \A k \in DOMAIN told' : told'[k] \subseteq 1..lastToken'
    BY <1>2 DEF CallersInv, AnswerInv
  <2>2. \A t : Told(t)' <=> Told(t)
    BY DEF Told
  <2>3. ~Told(n)
    BY <1>2 DEF CallersInv, AnswerInv, Told
  <2>4. \A q \in Requests : Refreshing(q)' => Told(requests[q].token)'
    BY <1>1, <2>2 DEF CallersInv, AnswerInv, Refreshing
  <2>5. ASSUME NEW q \in Requests, requests'[q].pc = "answer"
        PROVE  /\ requests'[q].token \in 1..lastToken'
               /\ ~Told(requests[q].token)'
               /\ \/ requests'[q].token \in LiveOf(requests[q].session)'
                  \/ requests'[q].session \in out'
               /\ requests'[q].token \in DOMAIN rows' =>
                     rows'[requests'[q].token].session = requests'[q].session
    <3>1. CASE q = r
      BY <1>1, <1>2, <1>3, <2>2, <2>3, <3>1
    <3>2. CASE q # r
      <4>1. PICK t, k : t = requests[q].token /\ k = requests[q].session
        OBVIOUS
      <4>2. requests'[q] = requests[q] /\ requests[q].pc = "answer"
        BY <1>1, <2>5, <3>2
      <4>3. /\ t \in 1..lastToken /\ ~Told(t)
            /\ t \in LiveOf(k) \/ k \in out
            /\ t \in DOMAIN rows => rows[t].session = k
        BY <4>1, <4>2 DEF CallersInv, AnswerInv
      <4>4. t \notin old /\ t # n
        BY <1>2, <4>3
      <4>5. t \in DOMAIN rows' => rows'[t].session = k
        BY <4>3, <4>4
      <4>6. t \in 1..lastToken' /\ ~Told(t)' /\ (t \in LiveOf(k)' \/ k \in out')
        BY <1>2, <1>3, <2>2, <4>3, <4>4
      <4> QED
        BY <4>1, <4>2, <4>5, <4>6 DEF Told, LiveOf, Live
    <3> QED BY <3>1, <3>2
  <2>6. ASSUME NEW p \in Requests, NEW q \in Requests,
               requests'[p].pc = "answer", requests'[q].pc = "answer",
               requests'[p].token = requests'[q].token
        PROVE  p = q
    BY <1>1, <1>2, <2>6 DEF CallersInv, AnswerInv
  <2> QED
    BY <2>1, <2>4, <2>5, <2>6 DEF AnswerInv, Told, LiveOf, Live, Refreshing
<1>5. CallersKeepAToken'
  <2> SUFFICES ASSUME NEW k \in DOMAIN told \ out
               PROVE  \/ \E t \in told[k] : t \in LiveOf(k)'
                      \/ \E q \in Requests : /\ requests'[q].pc = "answer"
                                            /\ requests'[q].token \in LiveOf(k)'
    BY DEF CallersKeepAToken, LiveOf, Live
  <2>1. CASE k = l
    BY <1>1, <1>3, <2>1
  <2>2. CASE k # l
    <3>1. CASE \E t \in told[k] : t \in LiveOf(k)
      BY <1>3, <2>2, <3>1
    <3>2. CASE \E q \in Requests : /\ requests[q].pc = "answer"
                                  /\ requests[q].token \in LiveOf(k)
      BY <1>1, <1>3, <2>2, <3>2
    <3> QED BY <3>1, <3>2 DEF CallersInv, CallersKeepAToken
  <2> QED BY <2>1, <2>2
<1> QED BY <1>4, <1>5 DEF CallersInv

(* Tokens that can no longer be used are of sessions that are out.         *)
LEMMA CallersRows ==
    ASSUME CallersInv, UNCHANGED <<lastToken, requests, told>>,
           out \subseteq out',
           DOMAIN rows' \subseteq DOMAIN rows,
           \A t \in DOMAIN rows' : rows'[t].session = rows[t].session,
           \A t \in Live : \/ rows[t].session \in out'
                          \/ /\ t \in DOMAIN rows'
                             /\ ~rows'[t].is_revoked
                             /\ rows'[t].session = rows[t].session
    PROVE  CallersInv'
<1>1. \A k, t : t \in LiveOf(k) => t \in LiveOf(k)' \/ k \in out'
  BY DEF LiveOf, Live
<1>2. \A t : Told(t)' <=> Told(t)
  BY DEF Told
<1>3. AnswerInv'
  <2>1. ASSUME NEW q \in Requests, requests[q].pc = "answer"
        PROVE  /\ \/ requests'[q].token \in LiveOf(requests[q].session)'
                  \/ requests'[q].session \in out'
               /\ requests'[q].token \in DOMAIN rows' =>
                     rows'[requests'[q].token].session = requests'[q].session
    <3>1. PICK t, k : t = requests[q].token /\ k = requests[q].session
      OBVIOUS
    <3>2. /\ t \in LiveOf(k) \/ k \in out
          /\ t \in DOMAIN rows => rows[t].session = k
      BY <2>1, <3>1 DEF CallersInv, AnswerInv
    <3>3. /\ t \in LiveOf(k)' \/ k \in out'
          /\ t \in DOMAIN rows' => rows'[t].session = k
      BY <1>1, <3>2
    <3> QED BY <3>1, <3>3 DEF LiveOf, Live
  <2> QED
    BY <2>1 DEF CallersInv, AnswerInv, Told, LiveOf, Live, Refreshing
<1>4. CallersKeepAToken'
  <2> SUFFICES ASSUME NEW k \in DOMAIN told \ out'
               PROVE  \/ \E t \in told[k] : t \in LiveOf(k)'
                      \/ \E q \in Requests : /\ requests[q].pc = "answer"
                                            /\ requests[q].token \in LiveOf(k)'
    BY DEF CallersKeepAToken, LiveOf, Live
  <2> QED BY <1>1 DEF CallersInv, CallersKeepAToken
<1> QED BY <1>3, <1>4 DEF CallersInv

LEMMA CallersIssue ==
    ASSUME Inv, CallersInv, NEW r \in Requests, Issue(r)
    PROVE  CallersInv'
<1> DEFINE u == requests[r].user
           n == lastToken + 1
           next == [pc |-> "answer", user |-> u, session |-> n, token |-> n]
<1>1. CASE lastToken < MaxTokens
  <2>1. /\ rows' = Created(rows, u, n)
        /\ lastToken' = n
        /\ Goto(r, next)
        /\ requests[r].pc # "answer"
        /\ UNCHANGED <<told, out>>
    BY <1>1 DEF Issue
  <2>2. n \notin DOMAIN rows
    BY MaxTokensAssumption DEF Inv, TypeInv
  <2>3. /\ DOMAIN rows' = DOMAIN rows \cup {n}
        /\ rows'[n].session = n /\ ~rows'[n].is_revoked
        /\ \A t \in DOMAIN rows : rows'[t] = rows[t]
    BY <2>1, <2>2 DEF Created, With
  <2>4. PICK old : old = {}
    OBVIOUS
  <2>5. next.pc = "answer" /\ next.session = n /\ next.token = n
    OBVIOUS
  <2>6. /\ \A s \in DOMAIN rows \ old : rows'[s] = rows[s]
        /\ \A s \in old : Told(s) /\ (s \in DOMAIN rows => rows[s].session = n)
    BY <2>3, <2>4
  <2>7. PICK l : l = n
    OBVIOUS
  <2>8. /\ rows'[n].session = l /\ next.session = l
        /\ \A s \in old : Told(s) /\ (s \in DOMAIN rows => rows[s].session = l)
    BY <2>3, <2>5, <2>6, <2>7
  <2> HIDE DEF next, u
  <2> QED BY <2>1, <2>3, <2>5, <2>6, <2>8, CallersNewToken
<1>2. CASE ~(lastToken < MaxTokens)
  BY <1>2, CallersGoneOn DEF Issue, Idle
<1> QED BY <1>1, <1>2

LEMMA CallersRotate ==
    ASSUME Inv, CallersInv, NEW r \in Requests, Rotate(r)
    PROVE  CallersInv'
<1> DEFINE t == requests[r].token
           u == requests[r].user
           l == requests[r].session
           n == lastToken + 1
           next == [requests[r] EXCEPT !.pc = "answer", !.token = n]
<1>1. CASE rotation /\ t \in DOMAIN rows /\ lastToken < MaxTokens
  <2>1. /\ rows' = Created(Revoked(rows, {t}), u, l)
        /\ lastToken' = n
        /\ Goto(r, next)
        /\ requests[r].pc = "allowed"
        /\ UNCHANGED <<told, out>>
    BY <1>1 DEF Rotate
  <2>2. /\ n \notin DOMAIN rows
        /\ requests[r] \in Request
        /\ rows[t].session = l
        /\ Told(t)
    BY <1>1, <2>1, MaxTokensAssumption
       DEF Inv, TypeInv, ReadInv, Refreshing, CallersInv, AnswerInv
  <2>3. /\ DOMAIN rows' = DOMAIN rows \cup {n}
        /\ rows'[n].session = l /\ ~rows'[n].is_revoked
        /\ \A s \in DOMAIN rows \ {t} : rows'[s] = rows[s]
    BY <2>1, <2>2 DEF Created, Revoked, With
  <2>4. PICK old : old = {t}
    OBVIOUS
  <2>5. next.pc = "answer" /\ next.session = l /\ next.token = n
    BY <2>2 DEF Request
  <2>6. /\ \A s \in DOMAIN rows \ old : rows'[s] = rows[s]
        /\ \A s \in old : Told(s) /\ (s \in DOMAIN rows => rows[s].session = l)
    BY <2>2, <2>3, <2>4
  <2> HIDE DEF next, u, t, l
  <2> QED BY <2>1, <2>3, <2>5, <2>6, CallersNewToken
<1>2. CASE ~(rotation /\ t \in DOMAIN rows /\ lastToken < MaxTokens)
  BY <1>2, CallersGoneOn DEF Rotate, Idle
<1> QED BY <1>1, <1>2

LEMMA CallersAnswer ==
    ASSUME Inv, CallersInv, NEW r \in Requests, Answer(r)
    PROVE  CallersInv'
<1>1. PICK l, n : l = requests[r].session /\ n = requests[r].token
  OBVIOUS
<1>2. /\ requests[r].pc = "answer"
      /\ requests'[r].pc = "idle"
      /\ \A q \in Requests \ {r} : requests'[q] = requests[q]
      /\ UNCHANGED <<rows, lastToken, out>>
  BY DEF Answer, Goto, Idle, Inv, TypeInv
<1>3. /\ DOMAIN told' = DOMAIN told \cup {l}
      /\ \A k \in DOMAIN told : k # l => told'[k] = told[k]
      /\ told'[l] = {n} \cup (IF l \in DOMAIN told THEN told[l] ELSE {})
  BY <1>1 DEF Answer, With
<1>4. /\ n \in 1..lastToken
      /\ n \in LiveOf(l) \/ l \in out
      /\ n \in DOMAIN rows => rows[n].session = l
  BY <1>1, <1>2 DEF CallersInv, AnswerInv
<1>5. \A t : Told(t)' <=> Told(t) \/ t = n
  BY <1>3 DEF Told
<1>6. \A k, t : t \in LiveOf(k)' <=> t \in LiveOf(k)
  BY <1>2 DEF LiveOf, Live
<1>7. AnswerInv'
  <2>1. \A k \in DOMAIN told' : told'[k] \subseteq 1..lastToken'
    BY <1>2, <1>3, <1>4 DEF CallersInv, AnswerInv
  <2>2. ASSUME NEW q \in Requests, requests'[q].pc = "answer"
        PROVE  requests[q].pc = "answer" /\ q # r /\ requests[q].token # n
    BY <1>1, <1>2, <2>2 DEF CallersInv, AnswerInv
  <2>3. \A q \in Requests : Refreshing(q)' => Told(requests[q].token)'
    <3> SUFFICES ASSUME NEW q \in Requests, Refreshing(q)'
                 PROVE  Told(requests[q].token)'
      OBVIOUS
    <3>1. PICK t : t = requests[q].token
      OBVIOUS
    <3>2. q # r /\ requests'[q] = requests[q]
      BY <1>2 DEF Refreshing
    <3>3. Told(t)'
      BY <1>5, <3>1, <3>2 DEF Refreshing, CallersInv, AnswerInv
    <3> QED BY <3>1, <3>2, <3>3 DEF Told
  <2>4. ASSUME NEW q \in Requests, requests'[q].pc = "answer"
        PROVE  /\ requests'[q].token \in 1..lastToken'
               /\ ~Told(requests[q].token)'
               /\ \/ requests'[q].token \in LiveOf(requests[q].session)'
                  \/ requests'[q].session \in out'
               /\ requests'[q].token \in DOMAIN rows' =>
                     rows'[requests'[q].token].session = requests'[q].session
    <3>1. PICK t, k : t = requests[q].token /\ k = requests[q].session
      OBVIOUS
    <3>2. requests'[q] = requests[q] /\ requests[q].pc = "answer" /\ t # n
      BY <1>2, <2>2, <2>4, <3>1
    <3>3. /\ t \in 1..lastToken /\ ~Told(t) /\ (t \in LiveOf(k) \/ k \in out)
          /\ t \in DOMAIN rows => rows[t].session = k
      BY <3>1, <3>2 DEF CallersInv, AnswerInv
    <3>4. ~Told(t)' /\ (t \in LiveOf(k)' \/ k \in out')
      BY <1>2, <1>5, <1>6, <3>2, <3>3
    <3> QED
      BY <1>2, <3>1, <3>2, <3>3, <3>4 DEF Told, LiveOf, Live
  <2>5. \A p, q \in Requests :
           /\ requests'[p].pc = "answer" /\ requests'[q].pc = "answer"
           /\ requests'[p].token = requests'[q].token
           => p = q
    BY <1>2, <2>2 DEF CallersInv, AnswerInv
  <2> QED
    BY <2>1, <2>3, <2>4, <2>5 DEF AnswerInv, Told, LiveOf, Live, Refreshing
<1>8. CallersKeepAToken'
  <2> SUFFICES ASSUME NEW k \in DOMAIN told' \ out
               PROVE  \/ \E t \in told'[k] : t \in LiveOf(k)
                      \/ \E q \in Requests : /\ requests'[q].pc = "answer"
                                            /\ requests'[q].token \in LiveOf(k)
    BY <1>2 DEF CallersKeepAToken, LiveOf, Live
  <2>1. CASE k = l
    BY <1>3, <1>4, <2>1
  <2>2. CASE k # l
    <3>1. CASE \E t \in told[k] : t \in LiveOf(k)
      BY <1>3, <2>2, <3>1
    <3>2. ASSUME NEW q \in Requests, requests[q].pc = "answer",
                 requests[q].token \in LiveOf(k)
          PROVE  q # r
      <4>1. n \notin LiveOf(k)
        BY <1>4, <2>2 DEF LiveOf, Live
      <4> QED BY <1>1, <3>2, <4>1
    <3> QED
      BY <1>2, <1>3, <2>2, <3>1, <3>2 DEF CallersInv, CallersKeepAToken
  <2> QED BY <2>1, <2>2
<1> QED BY <1>7, <1>8 DEF CallersInv

LEMMA CallersCrash ==
    ASSUME Inv, CallersInv, NEW r \in Requests, Crash(r)
    PROVE  CallersInv'
<1>1. PICK l : l = requests[r].session
  OBVIOUS
<1>2. /\ requests'[r].pc = "idle"
      /\ \A q \in Requests \ {r} : requests'[q] = requests[q]
      /\ UNCHANGED <<rows, lastToken, told>>
      /\ out \subseteq out'
      /\ requests[r].pc = "answer" => l \in out'
  BY <1>1 DEF Crash, Goto, Idle, Inv, TypeInv
<1>3. AnswerInv'
  BY <1>2 DEF CallersInv, AnswerInv, Told, LiveOf, Live, Refreshing
<1>4. CallersKeepAToken'
  <2> SUFFICES ASSUME NEW k \in DOMAIN told \ out'
               PROVE  \/ \E t \in told[k] : t \in LiveOf(k)
                      \/ \E q \in Requests : /\ requests'[q].pc = "answer"
                                            /\ requests'[q].token \in LiveOf(k)
    BY <1>2 DEF CallersKeepAToken, LiveOf, Live
  <2>1. ASSUME NEW q \in Requests, requests[q].pc = "answer",
               requests[q].token \in LiveOf(k)
        PROVE  q # r
    <3>1. q = r => k = l
      BY <1>1, <2>1 DEF CallersInv, AnswerInv, LiveOf, Live
    <3> QED BY <1>2, <2>1, <3>1
  <2> QED BY <1>2, <2>1 DEF CallersInv, CallersKeepAToken
<1> QED BY <1>3, <1>4 DEF CallersInv

LEMMA CallersRevokeAll ==
    ASSUME Inv, CallersInv, NEW u \in Users, RevokeAll(u)
    PROVE  CallersInv'
<1>1. PICK tokens : tokens = {t \in Live : rows[t].user = u}
  OBVIOUS
<1>2. /\ rows' = Revoked(rows, tokens)
      /\ out' = out \cup SessionsOf(tokens)
      /\ UNCHANGED <<lastToken, requests, told>>
  BY <1>1 DEF RevokeAll
<1>3. \A t \in DOMAIN rows : rows[t] \in RefreshToken
  BY DEF Inv, TypeInv
<1>4. /\ DOMAIN rows' = DOMAIN rows
      /\ \A t \in DOMAIN rows \ tokens : rows'[t] = rows[t]
      /\ \A t \in DOMAIN rows' : rows'[t].session = rows[t].session
      /\ \A t \in tokens : rows[t].session \in out'
  BY <1>2, <1>3 DEF Revoked, SessionsOf, RefreshToken
<1>5. \A t \in Live : t \notin tokens => ~rows'[t].is_revoked
  BY <1>4 DEF Live
<1> QED BY <1>2, <1>4, <1>5, CallersRows DEF Live

LEMMA CallersCleanUp ==
    ASSUME Inv, CallersInv, CleanUp
    PROVE  CallersInv'
<1>1. PICK tokens : tokens = {t \in DOMAIN rows : rows[t].expired}
  OBVIOUS
<1>2. /\ rows' = [t \in DOMAIN rows \ tokens |-> rows[t]]
      /\ out' = out \cup SessionsOf(tokens \cap Live)
      /\ UNCHANGED <<lastToken, requests, told>>
  BY <1>1 DEF CleanUp
<1>3. /\ DOMAIN rows' = DOMAIN rows \ tokens
      /\ \A t \in DOMAIN rows' : rows'[t] = rows[t]
      /\ \A t \in tokens \cap Live : rows[t].session \in out'
  BY <1>2 DEF SessionsOf
<1> QED BY <1>2, <1>3, CallersRows DEF Live

LEMMA CallersExpire ==
    ASSUME Inv, CallersInv, NEW t \in DOMAIN rows, Expire(t)
    PROVE  CallersInv'
<1>1. rows[t] \in RefreshToken
  BY DEF Inv, TypeInv
<1>2. /\ DOMAIN rows' = DOMAIN rows
      /\ rows'[t] = [rows[t] EXCEPT !.expired = TRUE]
      /\ \A s \in DOMAIN rows \ {t} : rows'[s] = rows[s]
      /\ UNCHANGED <<lastToken, requests, told, out>>
  BY DEF Expire
<1>3. rows'[t].session = rows[t].session /\ rows'[t].is_revoked = rows[t].is_revoked
  BY <1>1, <1>2 DEF RefreshToken
<1> QED BY <1>2, <1>3, CallersRows DEF Live

LEMMA CallersNextInv ==
    ASSUME Inv, CallersInv, [Next]_vars
    PROVE  CallersInv'
<1>1. ASSUME UNCHANGED <<rows, lastToken, requests, told, out>>
      PROVE  CallersInv'
  BY <1>1 DEF CallersInv, AnswerInv, CallersKeepAToken, Told, LiveOf, Live,
              Refreshing
<1>2. ASSUME NEW r \in Requests, Handle(r)
      PROVE  CallersInv'
  <2>1. CASE \E u \in Users : Authenticate(r, u)
    BY <2>1, CallersGoneOn DEF Authenticate
  <2>2. CASE Issue(r)
    BY <2>2, CallersIssue
  <2>3. CASE \E l \in DOMAIN told : \E t \in told[l] : Verify(r, t)
    <3>1. PICK l \in DOMAIN told : \E t \in told[l] : Verify(r, t)
      BY <2>3
    <3>2. PICK t \in told[l] : Verify(r, t)
      BY <3>1
    <3> QED BY <3>2, CallersGoneOn DEF Verify, Told
  <2>4. CASE ReadUser(r)
    <3>1. requests[r] \in Request /\ Told(requests[r].token)
      BY <2>4 DEF ReadUser, Inv, TypeInv, CallersInv, AnswerInv, Refreshing
    <3>2. PICK next : /\ next = IF active[requests[r].user]
                                THEN [requests[r] EXCEPT !.pc = "allowed"]
                                ELSE Idle
                      /\ Goto(r, next)
      BY <2>4 DEF ReadUser
    <3>3. /\ next.pc # "answer"
          /\ next.pc \in {"verified", "allowed"} =>
                next.token = requests[r].token
      BY <3>1, <3>2 DEF Request, Idle
    <3>4. PICK t : t = requests[r].token
      OBVIOUS
    <3>5. next.pc \in {"verified", "allowed"} => Told(next.token)
      BY <3>1, <3>3
    <3> QED BY <2>4, <3>2, <3>3, <3>5, CallersGoneOn DEF ReadUser
  <2>5. CASE Rotate(r)
    BY <2>5, CallersRotate
  <2>6. CASE Answer(r)
    BY <2>6, CallersAnswer
  <2>7. CASE Crash(r)
    BY <2>7, CallersCrash
  <2> QED
    BY <1>2, <2>1, <2>2, <2>3, <2>4, <2>5, <2>6, <2>7 DEF Handle
<1>3. ASSUME NEW u \in Users, RevokeAll(u)
      PROVE  CallersInv'
  BY <1>3, CallersRevokeAll
<1>4. ASSUME NEW u \in Users, NEW flag \in BOOLEAN, SetActive(u, flag)
      PROVE  CallersInv'
  BY <1>1, <1>4 DEF SetActive
<1>5. ASSUME NEW t \in DOMAIN rows, Expire(t)
      PROVE  CallersInv'
  BY <1>5, CallersExpire
<1>6. CASE CleanUp
  BY <1>6, CallersCleanUp
<1>7. CASE UNCHANGED vars
  BY <1>1, <1>7 DEF vars
<1> QED BY <1>2, <1>3, <1>4, <1>5, <1>6, <1>7 DEF Next

(* A caller whose session is not out has a token that can be used, or is   *)
(* being sent one, however rotations crash.                                *)
THEOREM CallersKeep ==
    EnoughQueue => (Spec => []CallersKeepAToken)
<1> SUFFICES ASSUME EnoughQueue PROVE Spec => []CallersKeepAToken
  OBVIOUS
<1>1. Init => CallersInv
  BY InitCallers
<1>2. Inv /\ CallersInv /\ [Next]_vars => CallersInv'
  BY CallersNextInv
<1>3. CallersInv => CallersKeepAToken
  BY DEF CallersInv
<1>4. Spec => []Inv
  BY Invariance
<1> QED BY <1>1, <1>2, <1>3, <1>4, PTL DEF Spec

-----------------------------------------------------------------------------
(* The handlers implement TokenSessions.                                   *)

AsSession(t, row) == [user |-> row.user, token |-> t, expired |-> row.expired]

(* The open sessions, without the choice of a token.                       *)
OpenFacts ==
    /\ OpenSessions = [l \in DOMAIN OpenSessions |-> OpenSessions[l]]
    /\ \A l : l \in DOMAIN OpenSessions <=> \E t \in Live : rows[t].session = l
    /\ \A t \in Live : OpenSessions[rows[t].session] = AsSession(t, rows[t])

LEMMA AsSessionFields ==
    \A t, row : /\ AsSession(t, row).user = row.user
                /\ AsSession(t, row).expired = row.expired
BY DEF AsSession

LEMMA InvOpen == Inv => OpenFacts
<1> SUFFICES ASSUME Inv PROVE OpenFacts
  OBVIOUS
<1>1. \A t \in Live : TokenOf(rows[t].session) = t
  BY DEF Inv, OneLiveTokenPerSession, TokenOf, LiveOf
<1>2. DOMAIN OpenSessions = SessionsOf(Live)
  BY DEF OpenSessions
<1>3. \A l \in SessionsOf(Live) : OpenSessions[l] = SessionOf(l)
  BY DEF OpenSessions
<1>4. \A l : l \in SessionsOf(Live) <=> \E t \in Live : rows[t].session = l
  BY DEF SessionsOf
<1>5. OpenSessions = [l \in DOMAIN OpenSessions |-> OpenSessions[l]]
  BY DEF OpenSessions
<1>6. \A t \in Live : OpenSessions[rows[t].session] = AsSession(t, rows[t])
  BY <1>1, <1>3, <1>4 DEF SessionOf, AsSession
<1> QED BY <1>2, <1>4, <1>5, <1>6 DEF OpenFacts

LEMMA InvOpenNext == Inv' => OpenFacts'
BY InvOpen, PTL

(* A token is created for session l, in the place of the one it had.       *)
LEMMA OpenPut ==
    ASSUME OpenFacts, OpenFacts', NEW u, NEW l,
           Live' = (Live \ LiveOf(l)) \cup {lastToken + 1},
           rows'[lastToken + 1].session = l,
           rows'[lastToken + 1].user = u,
           rows'[lastToken + 1].expired = FALSE,
           \A t \in Live \ LiveOf(l) :
              t # lastToken + 1 /\ rows'[t] = rows[t]
    PROVE  Sessions!Put(l, Sessions!NewToken(u))
<1> DEFINE n == lastToken + 1
<1>1. PICK f, g : f = OpenSessions /\ g = OpenSessions'
  OBVIOUS
<1>2. /\ \A k : k \in DOMAIN g <=> \E t \in Live' : rows'[t].session = k
      /\ \A t \in Live' : g[rows'[t].session] = AsSession(t, rows'[t])
      /\ g = [k \in DOMAIN g |-> g[k]]
  BY <1>1 DEF OpenFacts
<1>3. /\ \A k : k \in DOMAIN f <=> \E t \in Live : rows[t].session = k
      /\ \A t \in Live : f[rows[t].session] = AsSession(t, rows[t])
  BY <1>1 DEF OpenFacts
<1>4. DOMAIN g = DOMAIN f \cup {l}
  <2>1. \A k \in DOMAIN g : k \in DOMAIN f \/ k = l
    BY <1>2, <1>3
  <2>2. \A k \in DOMAIN f : k # l => k \in DOMAIN g
    BY <1>2, <1>3 DEF LiveOf
  <2>3. l \in DOMAIN g
    BY <1>2
  <2> QED BY <2>1, <2>2, <2>3
<1>5. g[l] = Sessions!NewToken(u)
  BY <1>2 DEF AsSession, Sessions!NewToken
<1>6. \A k \in DOMAIN f : k # l => g[k] = f[k]
  BY <1>2, <1>3 DEF LiveOf
<1>7. g = [k \in DOMAIN f \cup {l} |->
              IF k = l THEN Sessions!NewToken(u) ELSE f[k]]
  BY <1>2, <1>4, <1>5, <1>6
<1> QED BY <1>1, <1>7 DEF Sessions!Put

(* The tokens of some sessions can no longer be used.                      *)
LEMMA OpenClose ==
    ASSUME OpenFacts, OpenFacts', NEW closed,
           Live' = {t \in Live : rows[t].session \notin closed},
           \A t \in Live' : rows'[t] = rows[t]
    PROVE  Sessions!Close(closed)
<1>1. PICK f, g : f = OpenSessions /\ g = OpenSessions'
  OBVIOUS
<1>2. /\ \A k : k \in DOMAIN g <=> \E t \in Live' : rows'[t].session = k
      /\ \A t \in Live' : g[rows'[t].session] = AsSession(t, rows'[t])
      /\ g = [k \in DOMAIN g |-> g[k]]
  BY <1>1 DEF OpenFacts
<1>3. /\ \A k : k \in DOMAIN f <=> \E t \in Live : rows[t].session = k
      /\ \A t \in Live : f[rows[t].session] = AsSession(t, rows[t])
  BY <1>1 DEF OpenFacts
<1>4. DOMAIN g = DOMAIN f \ closed
  <2>1. \A k \in DOMAIN g : k \in DOMAIN f /\ k \notin closed
    BY <1>2, <1>3
  <2>2. \A k \in DOMAIN f : k \notin closed => k \in DOMAIN g
    BY <1>2, <1>3
  <2> QED BY <2>1, <2>2
<1>5. \A k \in DOMAIN g : g[k] = f[k]
  BY <1>2, <1>3
<1>6. g = [k \in DOMAIN f \ closed |-> f[k]]
  BY <1>2, <1>4, <1>5
<1> QED BY <1>1, <1>6 DEF Sessions!Close

LEMMA OpenSame ==
    ASSUME UNCHANGED <<rows, active, lastToken>>
    PROVE  UNCHANGED Sessions!vars
BY DEF Sessions!vars, OpenSessions, SessionOf, TokenOf, LiveOf, Live, SessionsOf

LEMMA RefineIssue ==
    ASSUME Inv, OpenFacts, OpenFacts', NEW r \in Requests, Issue(r)
    PROVE  [Sessions!Next]_(Sessions!vars)
<1> DEFINE u == requests[r].user
           n == lastToken + 1
<1>1. CASE lastToken < MaxTokens
  <2>1. /\ rows' = Created(rows, u, n)
        /\ lastToken' = n
        /\ requests[r].pc = "authenticated"
        /\ UNCHANGED active
    BY <1>1 DEF Issue
  <2>2. /\ u \in Users /\ active[u]
        /\ n \notin DOMAIN rows
        /\ \A t \in DOMAIN rows : rows[t].session # n
    BY <2>1, MaxTokensAssumption DEF Inv, TypeInv, ReadInv
  <2>3. /\ DOMAIN rows' = DOMAIN rows \cup {n}
        /\ rows'[n] = [user |-> u, session |-> n, is_revoked |-> FALSE,
                       expired |-> FALSE]
        /\ \A t \in DOMAIN rows : rows'[t] = rows[t]
    BY <2>1, <2>2 DEF Created, With
  <2>4. PICK v, l : v = u /\ l = n
    OBVIOUS
  <2>5. /\ Live' = (Live \ LiveOf(l)) \cup {n}
        /\ rows'[n].session = l /\ rows'[n].user = v /\ rows'[n].expired = FALSE
        /\ \A t \in Live \ LiveOf(l) : t # n /\ rows'[t] = rows[t]
    BY <2>2, <2>3, <2>4 DEF Live, LiveOf
  <2>6. Sessions!Put(l, Sessions!NewToken(v))
    BY <2>5, OpenPut
  <2>7. Sessions!Login(v)
    <3>1. active[v] /\ l = lastToken + 1
      BY <2>2, <2>4
    <3> QED
      BY <1>1, <2>1, <2>6, <3>1 DEF Sessions!Login, Sessions!Issue
  <2>8. v \in Users
    BY <2>2, <2>4
  <2> QED BY <2>7, <2>8 DEF Sessions!Next
<1>2. CASE ~(lastToken < MaxTokens)
  BY <1>2, OpenSame DEF Issue
<1> QED BY <1>1, <1>2

LEMMA RefineRotate ==
    ASSUME Inv, OpenFacts, OpenFacts', NEW r \in Requests, Rotate(r)
    PROVE  [Sessions!Next]_(Sessions!vars)
<1>1. PICK t, u, l, n : /\ t = requests[r].token
                       /\ u = requests[r].user
                       /\ l = requests[r].session
                       /\ n = lastToken + 1
  OBVIOUS
<1>2. CASE rotation /\ t \in DOMAIN rows /\ lastToken < MaxTokens
  <2>1. /\ rows' = Created(Revoked(rows, {t}), u, l)
        /\ lastToken' = n
        /\ requests[r].pc = "allowed"
        /\ UNCHANGED active
    BY <1>1, <1>2 DEF Rotate
  <2>2. /\ u \in Users /\ active[u]
        /\ n \notin DOMAIN rows
        /\ rows[t].session = l /\ rows[t].user = u
        /\ ~rows[t].is_revoked /\ ~rows[t].expired
        /\ rows[t] \in RefreshToken
    BY <1>1, <1>2, <2>1, MaxTokensAssumption
       DEF Inv, TypeInv, ReadInv, Refreshing
  <2>3. /\ DOMAIN rows' = DOMAIN rows \cup {n}
        /\ rows'[n] = [user |-> u, session |-> l, is_revoked |-> FALSE,
                       expired |-> FALSE]
        /\ rows'[t] = [rows[t] EXCEPT !.is_revoked = TRUE]
        /\ \A s \in DOMAIN rows \ {t} : rows'[s] = rows[s]
    BY <1>1, <1>2, <2>1, <2>2 DEF Created, Revoked, With
  <2>4. t \in Live /\ LiveOf(l) = {t}
    BY <1>2, <2>2 DEF Inv, OneLiveTokenPerSession, Live, LiveOf
  <2>5. rows'[t].is_revoked
    BY <2>2, <2>3 DEF RefreshToken
  <2>6. /\ Live' = (Live \ LiveOf(l)) \cup {lastToken + 1}
        /\ \A s \in Live \ LiveOf(l) :
              s # lastToken + 1 /\ rows'[s] = rows[s]
    <3>1. \A s \in DOMAIN rows \ {t} : rows'[s].is_revoked = rows[s].is_revoked
      BY <2>3
    <3>2. n \in Live'
      BY <2>3 DEF Live
    <3>3. \A s \in Live' : s \in Live \ {t} \/ s = n
      BY <2>3, <2>5, <3>1 DEF Live
    <3>4. \A s \in Live \ {t} : s \in Live' /\ s # n /\ rows'[s] = rows[s]
      BY <2>2, <2>3, <3>1 DEF Live
    <3> QED BY <1>1, <2>4, <3>2, <3>3, <3>4
  <2>7. Sessions!Put(l, Sessions!NewToken(u))
    <3>1. /\ rows'[lastToken + 1].session = l
          /\ rows'[lastToken + 1].user = u
          /\ rows'[lastToken + 1].expired = FALSE
      BY <1>1, <2>3
    <3> QED BY <2>6, <3>1, OpenPut
  <2>8. /\ l \in DOMAIN OpenSessions
        /\ OpenSessions[l].user = u
        /\ ~OpenSessions[l].expired
    BY <2>2, <2>4, AsSessionFields DEF OpenFacts
  <2>9. Sessions!Rotate(l)
    BY <1>1, <1>2, <2>1, <2>2, <2>7, <2>8 DEF Sessions!Rotate, Sessions!Issue
  <2> QED BY <2>8, <2>9 DEF Sessions!Next
<1>3. CASE ~(rotation /\ t \in DOMAIN rows /\ lastToken < MaxTokens)
  BY <1>1, <1>3, OpenSame DEF Rotate
<1> QED BY <1>2, <1>3

LEMMA RefineRevokeAll ==
    ASSUME Inv, OpenFacts, OpenFacts', NEW u \in Users, RevokeAll(u)
    PROVE  Sessions!RevokeAll(u)
<1>1. PICK tokens : tokens = {t \in Live : rows[t].user = u}
  OBVIOUS
<1>2. rows' = Revoked(rows, tokens) /\ UNCHANGED <<active, lastToken>>
  BY <1>1 DEF RevokeAll
<1>3. \A t \in DOMAIN rows : rows[t] \in RefreshToken
  BY DEF Inv, TypeInv
<1>4. /\ DOMAIN rows' = DOMAIN rows
      /\ \A t \in DOMAIN rows \ tokens : rows'[t] = rows[t]
      /\ \A t \in DOMAIN rows \cap tokens : rows'[t].is_revoked
  BY <1>2, <1>3 DEF Revoked, RefreshToken
<1>5. PICK closed : closed = Sessions!Of(u)
  OBVIOUS
<1>6. \A t \in Live : t \in tokens <=> rows[t].session \in closed
  BY <1>1, <1>5, AsSessionFields DEF OpenFacts, Sessions!Of
<1>7. /\ Live' = {t \in Live : rows[t].session \notin closed}
      /\ \A t \in Live' : rows'[t] = rows[t]
  BY <1>4, <1>6 DEF Live
<1>8. Sessions!Close(closed)
  BY <1>7, OpenClose
<1> QED BY <1>2, <1>5, <1>8 DEF Sessions!RevokeAll

LEMMA RefineCleanUp ==
    ASSUME Inv, OpenFacts, OpenFacts', CleanUp
    PROVE  Sessions!CleanUp
<1>1. PICK tokens : tokens = {t \in DOMAIN rows : rows[t].expired}
  OBVIOUS
<1>2. /\ DOMAIN rows' = DOMAIN rows \ tokens
      /\ \A t \in DOMAIN rows' : rows'[t] = rows[t]
      /\ UNCHANGED <<active, lastToken>>
  BY <1>1 DEF CleanUp
<1>3. PICK closed :
         closed = {l \in DOMAIN OpenSessions : OpenSessions[l].expired}
  OBVIOUS
<1>4. \A t \in Live : t \in tokens <=> rows[t].session \in closed
  BY <1>1, <1>3, AsSessionFields DEF OpenFacts, Live
<1>5. /\ Live' = {t \in Live : rows[t].session \notin closed}
      /\ \A t \in Live' : rows'[t] = rows[t]
  BY <1>2, <1>4 DEF Live
<1>6. Sessions!Close(closed)
  BY <1>5, OpenClose
<1> QED BY <1>2, <1>3, <1>6 DEF Sessions!CleanUp

LEMMA RefineExpire ==
    ASSUME Inv, OpenFacts, OpenFacts', NEW t \in DOMAIN rows, Expire(t)
    PROVE  [Sessions!Next]_(Sessions!vars)
<1>1. PICK f, g, l : /\ f = OpenSessions
                    /\ g = OpenSessions'
                    /\ l = rows[t].session
  OBVIOUS
<1>2. /\ DOMAIN rows' = DOMAIN rows
      /\ rows'[t] = [rows[t] EXCEPT !.expired = TRUE]
      /\ \A s \in DOMAIN rows \ {t} : rows'[s] = rows[s]
      /\ UNCHANGED <<active, lastToken>>
  BY DEF Expire
<1>3. rows[t] \in RefreshToken
  BY DEF Inv, TypeInv
<1>4. /\ rows'[t].session = l
      /\ rows'[t].user = rows[t].user
      /\ rows'[t].is_revoked = rows[t].is_revoked
      /\ rows'[t].expired = TRUE
  BY <1>1, <1>2, <1>3 DEF RefreshToken
<1>5. Live' = Live
  BY <1>2, <1>4 DEF Live
<1>6. /\ \A k : k \in DOMAIN g <=> \E s \in Live : rows'[s].session = k
      /\ \A s \in Live : g[rows'[s].session] = AsSession(s, rows'[s])
      /\ g = [k \in DOMAIN g |-> g[k]]
  BY <1>1, <1>5 DEF OpenFacts
<1>7. /\ \A k : k \in DOMAIN f <=> \E s \in Live : rows[s].session = k
      /\ \A s \in Live : f[rows[s].session] = AsSession(s, rows[s])
      /\ f = [k \in DOMAIN f |-> f[k]]
  BY <1>1 DEF OpenFacts
<1>8. Live \subseteq DOMAIN rows
  BY DEF Live
<1>9. DOMAIN g = DOMAIN f
  <2>1. \A s \in Live : rows'[s].session = rows[s].session
    BY <1>1, <1>2, <1>4, <1>8
  <2>2. \A k : k \in DOMAIN g <=> k \in DOMAIN f
    BY <1>6, <1>7, <2>1
  <2> QED BY <2>2
<1>10. CASE t \in Live
  <2>1. \A s \in Live : rows[s].session = l => s = t
    BY <1>1, <1>10 DEF Inv, OneLiveTokenPerSession
  <2>2. \A k \in DOMAIN f : k # l => g[k] = f[k]
    BY <1>1, <1>2, <1>6, <1>7, <1>8
  <2>3. /\ l \in DOMAIN f
        /\ f[l] = AsSession(t, rows[t])
        /\ g[l] = AsSession(t, rows'[t])
    BY <1>1, <1>4, <1>6, <1>7, <1>10
  <2>4. g[l] = [f[l] EXCEPT !.expired = TRUE]
    <3>1. PICK u, x, old, z : /\ u = rows[t].user
                             /\ x = rows[t].expired
                             /\ old = f[l]
                             /\ z = [old EXCEPT !.expired = TRUE]
      OBVIOUS
    <3>2. old \in [user : {u}, token : {t}, expired : {x}]
      BY <2>3, <3>1 DEF AsSession
    <3>3. z \in [user : {u}, token : {t}, expired : {TRUE}]
      BY <3>1, <3>2
    <3>4. z = [user |-> u, token |-> t, expired |-> TRUE]
      BY <3>3
    <3>5. g[l] = [user |-> u, token |-> t, expired |-> TRUE]
      BY <1>4, <2>3, <3>1 DEF AsSession
    <3>6. z = [f[l] EXCEPT !.expired = TRUE]
      BY <3>1, Zenon
    <3> QED BY <3>4, <3>5, <3>6, Zenon
  <2>5. PICK row : row = [f[l] EXCEPT !.expired = TRUE]
    OBVIOUS
  <2>6. g = [k \in DOMAIN f \cup {l} |-> IF k = l THEN row ELSE f[k]]
    BY <1>6, <1>9, <2>2, <2>3, <2>4, <2>5
  <2>7. Sessions!Put(l, [OpenSessions[l] EXCEPT !.expired = TRUE])
    BY <1>1, <2>5, <2>6 DEF Sessions!Put
  <2>8. Sessions!Expire(l) /\ l \in DOMAIN OpenSessions
    BY <1>1, <1>2, <2>3, <2>7 DEF Sessions!Expire
  <2> QED BY <2>8 DEF Sessions!Next
<1>11. CASE t \notin Live
  <2>1. \A k \in DOMAIN f : g[k] = f[k]
    BY <1>2, <1>6, <1>7, <1>8, <1>11
  <2>2. g = f
    BY <1>6, <1>7, <1>9, <2>1
  <2> QED BY <1>1, <1>2, <2>2 DEF Sessions!vars
<1> QED BY <1>10, <1>11

LEMMA RefineNext ==
    ASSUME Inv, OpenFacts, OpenFacts', [Next]_vars
    PROVE  [Sessions!Next]_(Sessions!vars)
<1>1. CASE UNCHANGED vars
  BY <1>1, OpenSame DEF vars
<1>2. ASSUME NEW r \in Requests, Handle(r)
      PROVE  [Sessions!Next]_(Sessions!vars)
  <2>1. CASE \E u \in Users : Authenticate(r, u)
    BY <2>1, OpenSame DEF Authenticate
  <2>2. CASE Issue(r)
    BY <2>2, RefineIssue
  <2>3. CASE \E l \in DOMAIN told : \E t \in told[l] : Verify(r, t)
    BY <2>3, OpenSame DEF Verify
  <2>4. CASE ReadUser(r)
    BY <2>4, OpenSame DEF ReadUser
  <2>5. CASE Rotate(r)
    BY <2>5, RefineRotate
  <2>6. CASE Answer(r)
    BY <2>6, OpenSame DEF Answer
  <2>7. CASE Crash(r)
    BY <2>7, OpenSame DEF Crash
  <2> QED
    BY <1>2, <2>1, <2>2, <2>3, <2>4, <2>5, <2>6, <2>7 DEF Handle
<1>3. ASSUME NEW u \in Users, RevokeAll(u)
      PROVE  [Sessions!Next]_(Sessions!vars)
  BY <1>3, RefineRevokeAll DEF Sessions!Next
<1>4. ASSUME NEW u \in Users, NEW flag \in BOOLEAN, SetActive(u, flag)
      PROVE  [Sessions!Next]_(Sessions!vars)
  <2>1. OpenSessions' = OpenSessions
    BY <1>4 DEF SetActive, OpenSessions, SessionOf, TokenOf, LiveOf, Live,
                SessionsOf
  <2>2. Sessions!SetActive(u, flag)
    BY <1>4, <2>1 DEF SetActive, Sessions!SetActive
  <2> QED BY <2>2 DEF Sessions!Next
<1>5. ASSUME NEW t \in DOMAIN rows, Expire(t)
      PROVE  [Sessions!Next]_(Sessions!vars)
  BY <1>5, RefineExpire
<1>6. CASE CleanUp
  BY <1>6, RefineCleanUp DEF Sessions!Next
<1> QED BY <1>1, <1>2, <1>3, <1>4, <1>5, <1>6 DEF Next

LEMMA RefineInit == Init => Sessions!Init
<1> SUFFICES ASSUME Init PROVE Sessions!Init
  OBVIOUS
<1>1. OpenSessions = << >>
  BY DEF Init, OpenSessions, SessionsOf, Live
<1> QED BY <1>1 DEF Init, Sessions!Init

(* However handlers interleave and crash, each operation on the tokens     *)
(* takes effect at once or not at all, as TokenSessions has it: a session  *)
(* that was closed stays closed, and an inactive user gets no token.       *)
THEOREM HandlersImplementSessions ==
    EnoughQueue => (Spec => SessionsSpec)
<1> SUFFICES ASSUME EnoughQueue PROVE Spec => SessionsSpec
  OBVIOUS
<1>1. Init => Sessions!Init
  BY RefineInit
<1>2. Inv /\ Inv' /\ [Next]_vars => [Sessions!Next]_(Sessions!vars)
  BY InvOpen, InvOpenNext, RefineNext
<1>3. Spec => []Inv
  BY Invariance
<1> QED BY <1>1, <1>2, <1>3, PTL DEF Spec, SessionsSpec, Sessions!Spec
=============================================================================
