---------------------------- MODULE SessionsProofs ----------------------------
(* Theorems about Sessions, for any sets of rows, users and workers.       *)
EXTENDS Sessions, FiniteSetTheorems, TLAPS

USE TTLAssumption, HorizonAssumption, NoTokenAssumption, NoClientAssumption

(***************************************************************************)
(* The tables.                                                             *)
(***************************************************************************)

(* CloseSessions keeps both tables well-typed and changes nothing but the  *)
(* revoked marks of the sessions in S and of their tokens.                 *)
LEMMA CloseSessionsType ==
  ASSUME TypeOK, NEW S, CloseSessions(S)
  PROVE  /\ DOMAIN sessions' = DOMAIN sessions
         /\ sessions' \in [DOMAIN sessions -> SessionRow]
         /\ DOMAIN tokens' = DOMAIN tokens
         /\ tokens' \in [DOMAIN tokens -> TokenRow]
         /\ \A s \in DOMAIN sessions :
              /\ sessions'[s].user = sessions[s].user
              /\ sessions'[s].client = sessions[s].client
              /\ sessions'[s].exp = sessions[s].exp
              /\ sessions'[s].revoked = (sessions[s].revoked \/ s \in S)
         /\ \A t \in DOMAIN tokens :
              /\ tokens'[t].session = tokens[t].session
              /\ tokens'[t].parent = tokens[t].parent
              /\ tokens'[t].exp = tokens[t].exp
              /\ tokens'[t].revoked
                   = (tokens[t].revoked \/ tokens[t].session \in S)
<1>1. /\ DOMAIN sessions' = DOMAIN sessions
      /\ DOMAIN tokens' = DOMAIN tokens
  BY DEF CloseSessions
<1>2. ASSUME NEW s \in DOMAIN sessions
      PROVE  /\ sessions'[s] \in SessionRow
             /\ sessions'[s].user = sessions[s].user
             /\ sessions'[s].client = sessions[s].client
             /\ sessions'[s].exp = sessions[s].exp
             /\ sessions'[s].revoked = (sessions[s].revoked \/ s \in S)
  <2>1. sessions[s] \in SessionRow
    BY DEF TypeOK
  <2>2. CASE s \in S
    <3>1. sessions'[s] = [sessions[s] EXCEPT !.revoked = TRUE]
      BY <2>2 DEF CloseSessions
    <3> QED  BY <2>1, <2>2, <3>1 DEF SessionRow
  <2>3. CASE s \notin S
    <3>1. sessions'[s] = sessions[s]
      BY <2>3 DEF CloseSessions
    <3> QED  BY <2>1, <2>3, <3>1 DEF SessionRow
  <2> QED  BY <2>2, <2>3
<1>3. ASSUME NEW t \in DOMAIN tokens
      PROVE  /\ tokens'[t] \in TokenRow
             /\ tokens'[t].session = tokens[t].session
             /\ tokens'[t].parent = tokens[t].parent
             /\ tokens'[t].exp = tokens[t].exp
             /\ tokens'[t].revoked
                  = (tokens[t].revoked \/ tokens[t].session \in S)
  <2>1. tokens[t] \in TokenRow
    BY DEF TypeOK
  <2>2. CASE tokens[t].session \in S
    <3>1. tokens'[t] = [tokens[t] EXCEPT !.revoked = TRUE]
      BY <2>2 DEF CloseSessions
    <3> QED  BY <2>1, <2>2, <3>1 DEF TokenRow
  <2>3. CASE tokens[t].session \notin S
    <3>1. tokens'[t] = tokens[t]
      BY <2>3 DEF CloseSessions
    <3> QED  BY <2>1, <2>3, <3>1 DEF TokenRow
  <2> QED  BY <2>2, <2>3
<1>4. sessions' \in [DOMAIN sessions -> SessionRow]
  BY <1>1, <1>2 DEF CloseSessions
<1>5. tokens' \in [DOMAIN tokens -> TokenRow]
  BY <1>1, <1>3 DEF CloseSessions
<1> QED  BY <1>1, <1>2, <1>3, <1>4, <1>5

(***************************************************************************)
(* What a step does to the tables, in terms of rows.                       *)
(***************************************************************************)

Consistent == TypeOK /\ References

\* Only the clock may move.
Quiet ==
  /\ now' \in {now, now + 1}
  /\ UNCHANGED <<sessions, tokens, consents, audit>>

\* Session s is opened for u with its first token t.
Opens(u, c, s, t) ==
  /\ now' = now
  /\ s \notin DOMAIN sessions /\ t \notin DOMAIN tokens
  /\ DOMAIN sessions' = DOMAIN sessions \cup {s}
  /\ DOMAIN tokens' = DOMAIN tokens \cup {t}
  /\ \A x \in DOMAIN sessions : sessions'[x] = sessions[x]
  /\ \A x \in DOMAIN tokens : tokens'[x] = tokens[x]
  /\ sessions'[s].user = u /\ sessions'[s].client = c
  /\ ~sessions'[s].revoked /\ sessions'[s].exp = now + TTL
  /\ tokens'[t].session = s /\ tokens'[t].parent = NoToken
  /\ ~tokens'[t].revoked /\ tokens'[t].exp = now + TTL
  /\ audit' = audit \cup
       {[action |-> "login", user |-> u, targets |-> {s}]}

\* Token t is rotated into t2, and its session slides.
Rotates(t, t2) ==
  /\ now' = now
  /\ t \in DOMAIN tokens /\ t2 \notin DOMAIN tokens
  /\ DOMAIN sessions' = DOMAIN sessions
  /\ DOMAIN tokens' = DOMAIN tokens \cup {t2}
  /\ \A x \in DOMAIN sessions :
       /\ sessions'[x].user = sessions[x].user
       /\ sessions'[x].client = sessions[x].client
       /\ sessions'[x].revoked = sessions[x].revoked
       /\ x # tokens[t].session => sessions'[x] = sessions[x]
  /\ sessions'[tokens[t].session].exp = now + TTL
  /\ \A x \in DOMAIN tokens :
       /\ tokens'[x].session = tokens[x].session
       /\ tokens'[x].parent = tokens[x].parent
       /\ tokens'[x].exp = tokens[x].exp
       /\ tokens'[x].revoked = (tokens[x].revoked \/ x = t)
  /\ tokens'[t2].session = tokens[t].session /\ tokens'[t2].parent = t
  /\ ~tokens'[t2].revoked /\ tokens'[t2].exp = now + TTL
  /\ UNCHANGED <<consents, audit>>

\* The sessions in S are revoked with all their tokens.
Closes(S) ==
  /\ now' = now
  /\ DOMAIN sessions' = DOMAIN sessions
  /\ DOMAIN tokens' = DOMAIN tokens
  /\ \A s \in DOMAIN sessions :
       /\ sessions'[s].user = sessions[s].user
       /\ sessions'[s].client = sessions[s].client
       /\ sessions'[s].exp = sessions[s].exp
       /\ sessions'[s].revoked = (sessions[s].revoked \/ s \in S)
  /\ \A t \in DOMAIN tokens :
       /\ tokens'[t].session = tokens[t].session
       /\ tokens'[t].parent = tokens[t].parent
       /\ tokens'[t].exp = tokens[t].exp
       /\ tokens'[t].revoked = (tokens[t].revoked \/ tokens[t].session \in S)

(* IssueTokens opens a session and leaves well-typed tables. *)
LEMMA IssueTokensOpens ==
  ASSUME TypeOK, NEW u \in User, NEW c \in Client \cup {NoClient},
         NEW n \in Name, NEW s \in Session, NEW t \in Token,
         IssueTokens(u, c, n, s, t), now' = now
  PROVE  /\ Opens(u, c, s, t)
         /\ DOMAIN sessions' \subseteq Session
         /\ sessions' \in [DOMAIN sessions' -> SessionRow]
         /\ DOMAIN tokens' \subseteq Token
         /\ tokens' \in [DOMAIN tokens' -> TokenRow]
         /\ audit' \subseteq AuditRow
<1> DEFINE srow == [user |-> u, client |-> c, name |-> n, revoked |-> FALSE,
                    exp |-> now + TTL]
           trow == [session |-> s, parent |-> NoToken, revoked |-> FALSE,
                    exp |-> now + TTL]
           arow == [action |-> "login", user |-> u, targets |-> {s}]
<1>1. now + TTL \in Nat
  BY DEF TypeOK
<1>2. /\ srow \in SessionRow
      /\ srow.user = u /\ srow.client = c
      /\ ~srow.revoked /\ srow.exp = now + TTL
  BY <1>1 DEF SessionRow
<1>9. /\ trow \in TokenRow
      /\ trow.session = s /\ trow.parent = NoToken
      /\ ~trow.revoked /\ trow.exp = now + TTL
  BY <1>1 DEF TokenRow
<1>3. arow \in AuditRow
  BY DEF AuditRow
<1>4. /\ sessions' = Insert(sessions, s, srow)
      /\ tokens' = Insert(tokens, t, trow)
      /\ audit' = audit \cup {arow}
      /\ s \notin DOMAIN sessions /\ t \notin DOMAIN tokens
  BY DEF IssueTokens, Fresh, Audited
<1> HIDE DEF srow, trow, arow
<1>5. /\ DOMAIN sessions' = DOMAIN sessions \cup {s}
      /\ DOMAIN sessions' \subseteq Session
      /\ sessions' \in [DOMAIN sessions' -> SessionRow]
      /\ sessions'[s] = srow
      /\ \A x \in DOMAIN sessions : sessions'[x] = sessions[x]
  BY <1>2, <1>4 DEF TypeOK, Insert
<1>6. /\ DOMAIN tokens' = DOMAIN tokens \cup {t}
      /\ DOMAIN tokens' \subseteq Token
      /\ tokens' \in [DOMAIN tokens' -> TokenRow]
      /\ tokens'[t] = trow
      /\ \A x \in DOMAIN tokens : tokens'[x] = tokens[x]
  BY <1>4, <1>9 DEF TypeOK, Insert
<1>7. Opens(u, c, s, t)
  BY <1>2, <1>4, <1>5, <1>6, <1>9 DEF Opens, arow
<1>8. audit' \subseteq AuditRow
  BY <1>3, <1>4 DEF TypeOK
<1> QED  BY <1>5, <1>6, <1>7, <1>8

(* RefreshCommit rotates the token it loaded. *)
LEMMA RefreshCommitRotates ==
  ASSUME Consistent, NEW p \in Worker, NEW n \in Name, NEW t2 \in Token,
         RefreshCommit(p, n, t2)
  PROVE  /\ Rotates(req[p].token, t2)
         /\ sessions' \in [DOMAIN sessions' -> SessionRow]
         /\ DOMAIN tokens' \subseteq Token
         /\ tokens' \in [DOMAIN tokens' -> TokenRow]
<1> DEFINE t == req[p].token
           s == tokens[t].session
           marked == [tokens EXCEPT ![t].revoked = TRUE]
           row == Successor(t)
<1>1. /\ t \in DOMAIN tokens
      /\ s \in DOMAIN sessions
      /\ t2 \notin DOMAIN tokens
  BY DEF Consistent, References, RefreshCommit, Fresh
<1>2. /\ now + TTL \in Nat
      /\ sessions[s] \in SessionRow
      /\ tokens[t] \in TokenRow
      /\ t \in Token /\ s \in Session
  BY <1>1 DEF Consistent, TypeOK, TokenRow
<1>3. /\ sessions' = [sessions EXCEPT ![s].name = n, ![s].exp = now + TTL]
      /\ tokens' = Insert(marked, t2, row)
      /\ UNCHANGED <<now, consents, audit>>
  BY DEF RefreshCommit, TouchSession, RotateToken
<1>4. /\ DOMAIN sessions' = DOMAIN sessions
      /\ \A x \in DOMAIN sessions : x # s => sessions'[x] = sessions[x]
      /\ sessions'[s] = [sessions[s] EXCEPT !.name = n, !.exp = now + TTL]
  BY <1>1, <1>3
<1>5. /\ sessions'[s] \in SessionRow
      /\ sessions'[s].user = sessions[s].user
      /\ sessions'[s].client = sessions[s].client
      /\ sessions'[s].revoked = sessions[s].revoked
      /\ sessions'[s].exp = now + TTL
  BY <1>2, <1>4 DEF SessionRow
<1>6. sessions' \in [DOMAIN sessions' -> SessionRow]
  BY <1>3, <1>4, <1>5 DEF Consistent, TypeOK
<1>7. /\ marked = [x \in DOMAIN tokens |-> marked[x]]
      /\ DOMAIN marked = DOMAIN tokens
      /\ \A x \in DOMAIN tokens : x # t => marked[x] = tokens[x]
      /\ marked[t] = [tokens[t] EXCEPT !.revoked = TRUE]
  BY <1>1
<1> HIDE DEF marked
<1>8. /\ marked[t] \in TokenRow
      /\ marked[t].session = tokens[t].session
      /\ marked[t].parent = tokens[t].parent
      /\ marked[t].exp = tokens[t].exp
      /\ marked[t].revoked
  BY <1>2, <1>7 DEF TokenRow
<1>9. marked \in [DOMAIN marked -> TokenRow]
  BY <1>7, <1>8 DEF Consistent, TypeOK
<1>10. /\ row \in TokenRow
       /\ row.session = s /\ row.parent = t
       /\ ~row.revoked /\ row.exp = now + TTL
  BY <1>2 DEF Successor, TokenRow
<1>11. DOMAIN marked \subseteq Token
  BY <1>7 DEF Consistent, TypeOK
<1> HIDE DEF row
<1>12. /\ DOMAIN tokens' = DOMAIN marked \cup {t2}
       /\ DOMAIN tokens' \subseteq Token
       /\ tokens' \in [DOMAIN tokens' -> TokenRow]
       /\ tokens'[t2] = row
       /\ \A x \in DOMAIN marked : x # t2 => tokens'[x] = marked[x]
  <2>1. tokens' = [x \in DOMAIN marked \cup {t2} |->
                     IF x = t2 THEN row ELSE marked[x]]
    BY <1>3 DEF Insert
  <2>2. \A x \in DOMAIN marked : marked[x] \in TokenRow
    BY <1>9
  <2> QED  BY <1>10, <1>11, <2>1, <2>2
<1>13. ASSUME NEW x \in DOMAIN tokens
       PROVE  /\ tokens'[x].session = tokens[x].session
              /\ tokens'[x].parent = tokens[x].parent
              /\ tokens'[x].exp = tokens[x].exp
              /\ tokens'[x].revoked = (tokens[x].revoked \/ x = t)
  <2>1. tokens'[x] = marked[x]
    BY <1>1, <1>7, <1>12
  <2>2. tokens[x].revoked \in BOOLEAN
    BY DEF Consistent, TypeOK, TokenRow
  <2>3. CASE x = t
    BY <1>8, <2>1, <2>3
  <2>4. CASE x # t
    BY <1>7, <2>1, <2>2, <2>4
  <2> QED  BY <2>3, <2>4
<1>14. Rotates(t, t2)
  BY <1>1, <1>3, <1>4, <1>5, <1>7, <1>10, <1>12, <1>13 DEF Rotates
<1> QED  BY <1>6, <1>12, <1>14

(* A closing step is one of Closes. *)
LEMMA CloseSessionsCloses ==
  ASSUME TypeOK, NEW S, CloseSessions(S), now' = now
  PROVE  Closes(S)
BY CloseSessionsType DEF Closes

(***************************************************************************)
(* Type correctness and referential integrity.                             *)
(***************************************************************************)

(* What a request in flight carries. *)
LEMMA RequestFields ==
  ASSUME NEW r \in Request
  PROVE  /\ r.op \in {"refresh", "logout"} => r.token \in Token
         /\ r.op = "seed" => r.seed \in Session
         /\ r.op = "revoke" => r.user \in User /\ r.targets \in SUBSET Session
         /\ r.op = "exchange" => r.user \in User /\ r.client \in Client
         /\ r.op = "unconsent" => r.user \in User /\ r.client \in Client
BY DEF Request, Idle

LEMMA DoneType ==
  ASSUME TypeOK, NEW p \in Worker, Done(p)
  PROVE  /\ req' \in [Worker -> Request]
         /\ \A q \in Worker : req'[q] = req[q] \/ req'[q] = Idle
BY DEF TypeOK, Done, Request

LEMMA ReadType ==
  ASSUME TypeOK, NEW p \in Worker, NEW r \in Request, Read(p, r)
  PROVE  /\ req' \in [Worker -> Request]
         /\ req'[p] = r
         /\ \A q \in Worker : q # p => req'[q] = req[q]
BY DEF TypeOK, Read

(* Requests in flight stay valid while rows are only inserted and updated. *)
LEMMA ReferencesKept ==
  ASSUME Consistent,
         DOMAIN sessions \subseteq DOMAIN sessions',
         \A s \in DOMAIN sessions : sessions'[s].user = sessions[s].user,
         DOMAIN tokens \subseteq DOMAIN tokens',
         \A t \in DOMAIN tokens' : tokens'[t].session \in DOMAIN sessions',
         \A a \in audit' : \/ a \in audit
                           \/ a.action = "consent.revoke"
                           \/ a.targets \subseteq DOMAIN sessions',
         \A q \in Worker : req'[q] = req[q] \/ req'[q] = Idle
  PROVE  References'
<1>1. \A a \in audit' :
        a.action # "consent.revoke" => a.targets \subseteq DOMAIN sessions'
  BY DEF Consistent, References
<1>2. ASSUME NEW q \in Worker
      PROVE  /\ req'[q].op \in {"refresh", "logout"} =>
                  req'[q].token \in DOMAIN tokens'
             /\ req'[q].op = "seed" => req'[q].seed \in DOMAIN sessions'
             /\ req'[q].op = "revoke" =>
                  \A s \in req'[q].targets :
                    /\ s \in DOMAIN sessions'
                    /\ sessions'[s].user = req'[q].user
  <2>1. CASE req'[q] = Idle
    BY <2>1 DEF Idle
  <2>2. CASE req'[q] = req[q]
    BY <2>2 DEF Consistent, References
  <2> QED  BY <2>1, <2>2
<1> QED  BY <1>1, <1>2 DEF References

(* A load that reads r leaves the tables alone. *)
LEMMA LoadConsistent ==
  ASSUME Consistent, NEW p \in Worker, NEW r \in Request, Read(p, r),
         UNCHANGED <<now, sessions, tokens, consents, audit>>,
         r.op \in {"refresh", "logout"} => r.token \in DOMAIN tokens,
         r.op = "seed" => r.seed \in DOMAIN sessions,
         r.op = "revoke" =>
           \A s \in r.targets :
             s \in DOMAIN sessions /\ sessions[s].user = r.user
  PROVE  Consistent'
<1>1. /\ req' \in [Worker -> Request]
      /\ req'[p] = r
      /\ \A q \in Worker : q # p => req'[q] = req[q]
  BY ReadType DEF Consistent
<1>2. TypeOK'
  BY <1>1 DEF Consistent, TypeOK
<1>3. References'
  BY <1>1 DEF Consistent, References
<1> QED  BY <1>2, <1>3 DEF Consistent

(* A step that opens a session and ends or does not touch the request. *)
LEMMA OpensConsistent ==
  ASSUME Consistent, NEW u \in User, NEW c \in Client \cup {NoClient},
         NEW n \in Name, NEW s \in Session, NEW t \in Token,
         IssueTokens(u, c, n, s, t), now' = now,
         consents' \in [User \X Client -> ConsentState],
         req' \in [Worker -> Request],
         \A q \in Worker : req'[q] = req[q] \/ req'[q] = Idle
  PROVE  Consistent'
<1>1. /\ Opens(u, c, s, t)
      /\ DOMAIN sessions' \subseteq Session
      /\ sessions' \in [DOMAIN sessions' -> SessionRow]
      /\ DOMAIN tokens' \subseteq Token
      /\ tokens' \in [DOMAIN tokens' -> TokenRow]
      /\ audit' \subseteq AuditRow
  BY IssueTokensOpens DEF Consistent
<1>2. TypeOK'
  BY <1>1 DEF Consistent, TypeOK
<1>3. \A x \in DOMAIN tokens' : tokens'[x].session \in DOMAIN sessions'
  BY <1>1 DEF Opens, Consistent, References
<1>4. \A a \in audit' : a \in audit \/ a.targets \subseteq DOMAIN sessions'
  BY <1>1 DEF Opens
<1>5. References'
  BY <1>1, <1>3, <1>4, ReferencesKept DEF Opens
<1> QED  BY <1>2, <1>5 DEF Consistent

(* A step that revokes sessions and ends the request. *)
LEMMA ClosesConsistent ==
  ASSUME Consistent, NEW S, CloseSessions(S), now' = now,
         consents' \in [User \X Client -> ConsentState],
         NEW row \in AuditRow, audit' = audit \cup {row},
         row.action = "consent.revoke" \/ row.targets \subseteq DOMAIN sessions,
         NEW p \in Worker, Done(p)
  PROVE  Consistent'
<1>1. Closes(S)
  BY CloseSessionsCloses DEF Consistent
<1>2. /\ req' \in [Worker -> Request]
      /\ \A q \in Worker : req'[q] = req[q] \/ req'[q] = Idle
  BY DoneType DEF Consistent
<1>3. TypeOK'
  <2>1. /\ sessions' \in [DOMAIN sessions' -> SessionRow]
        /\ tokens' \in [DOMAIN tokens' -> TokenRow]
    BY CloseSessionsType DEF Consistent
  <2> QED  BY <1>1, <1>2, <2>1 DEF Closes, Consistent, TypeOK
<1>4. \A x \in DOMAIN tokens' : tokens'[x].session \in DOMAIN sessions'
  BY <1>1 DEF Closes, Consistent, References
<1>5. References'
  BY <1>1, <1>2, <1>4, ReferencesKept DEF Closes
<1> QED  BY <1>3, <1>5 DEF Consistent

LEMMA RevokeTargetsConsistent ==
  ASSUME Consistent, NEW p \in Worker, RevokeTargets(p)
  PROVE  Consistent'
<1> DEFINE r == req[p]
           u == sessions[r.seed].user
           T == Targets(r)
           r2 == [op |-> "revoke", targets |-> T, user |-> u]
<1>1. /\ r.op = "seed"
      /\ UNCHANGED <<now, sessions, tokens, consents, audit>>
      /\ Done(p) \/ Read(p, r2)
  BY DEF RevokeTargets
<1>2. r.seed \in DOMAIN sessions
  BY <1>1 DEF Consistent, References
<1>3. CASE Done(p)
  <2>1. /\ req' \in [Worker -> Request]
        /\ \A q \in Worker : req'[q] = req[q] \/ req'[q] = Idle
    BY <1>3, DoneType DEF Consistent
  <2>2. TypeOK'
    BY <1>1, <2>1 DEF Consistent, TypeOK
  <2>3. References'
    BY <1>1, <2>1, ReferencesKept DEF Consistent, References
  <2> QED  BY <2>2, <2>3 DEF Consistent
<1>4. CASE Read(p, r2)
  <2>1. u \in User
    BY <1>2 DEF Consistent, TypeOK, SessionRow
  <2>2. \A s \in T : s \in DOMAIN sessions /\ sessions[s].user = u
    BY DEF Targets, ActiveSessions
  <2>3. T \in SUBSET Session
    BY <2>2 DEF Consistent, TypeOK
  <2>4. r2 \in Request
    BY <2>1, <2>3 DEF Request
  <2>5. /\ r2.op = "revoke" /\ r2.user = u /\ r2.targets = T
    OBVIOUS
  <2> HIDE DEF r2, T, u
  <2> QED  BY <1>1, <1>4, <2>2, <2>4, <2>5, LoadConsistent
<1> QED  BY <1>1, <1>3, <1>4

(* Consistent is inductive. *)
LEMMA ConsistentStep == Consistent /\ [Next]_vars => Consistent'
<1> SUFFICES ASSUME Consistent, [Next]_vars PROVE Consistent'
  OBVIOUS
<1> USE DEF ConsentState
<1>1. ASSUME NEW p \in Worker, NEW u \in User, NEW n \in Name,
             NEW s \in Session, NEW t \in Token, Login(p, u, n, s, t)
      PROVE  Consistent'
  <2>1. /\ IssueTokens(u, NoClient, n, s, t)
        /\ UNCHANGED <<now, consents, req>>
    BY <1>1 DEF Login
  <2> QED  BY <2>1, OpensConsistent DEF Consistent, TypeOK
<1>2. ASSUME NEW p \in Worker, NEW t \in Token, RefreshLoad(p, t)
      PROVE  Consistent'
  <2> DEFINE r == [op |-> "refresh", token |-> t]
  <2>1. r \in Request /\ r.op = "refresh" /\ r.token = t
    BY DEF Request
  <2>2. /\ Read(p, r)
        /\ t \in DOMAIN tokens
        /\ UNCHANGED <<now, sessions, tokens, consents, audit>>
    BY <1>2 DEF RefreshLoad, Usable
  <2> HIDE DEF r
  <2> QED  BY <2>1, <2>2, LoadConsistent
<1>3. ASSUME NEW p \in Worker, NEW n \in Name, NEW t2 \in Token,
             RefreshCommit(p, n, t2)
      PROVE  Consistent'
  <2>1. /\ Rotates(req[p].token, t2)
        /\ sessions' \in [DOMAIN sessions' -> SessionRow]
        /\ DOMAIN tokens' \subseteq Token
        /\ tokens' \in [DOMAIN tokens' -> TokenRow]
    BY <1>3, RefreshCommitRotates
  <2>2. Done(p)
    BY <1>3 DEF RefreshCommit
  <2>3. /\ req' \in [Worker -> Request]
        /\ \A q \in Worker : req'[q] = req[q] \/ req'[q] = Idle
    BY <2>2, DoneType DEF Consistent
  <2>4. TypeOK'
    BY <2>1, <2>3 DEF Rotates, Consistent, TypeOK
  <2>5. \A x \in DOMAIN tokens' : tokens'[x].session \in DOMAIN sessions'
    BY <2>1 DEF Rotates, Consistent, References
  <2>6. References'
    BY <2>1, <2>3, <2>5, ReferencesKept
       DEF Rotates, Consistent, References
  <2> QED  BY <2>4, <2>6 DEF Consistent
<1>4. ASSUME NEW p \in Worker, NEW t \in Token, LogoutLoad(p, t)
      PROVE  Consistent'
  <2> DEFINE r == [op |-> "logout", token |-> t]
  <2>1. r \in Request /\ r.op = "logout" /\ r.token = t
    BY DEF Request
  <2>2. /\ Read(p, r)
        /\ t \in DOMAIN tokens
        /\ UNCHANGED <<now, sessions, tokens, consents, audit>>
    BY <1>4 DEF LogoutLoad, Usable
  <2> HIDE DEF r
  <2> QED  BY <2>1, <2>2, LoadConsistent
<1>5. ASSUME NEW p \in Worker, LogoutCommit(p)
      PROVE  Consistent'
  <2> DEFINE s == tokens[req[p].token].session
             row == [action |-> "logout", user |-> sessions[s].user,
                     targets |-> {s}]
  <2>1. s \in DOMAIN sessions
    BY <1>5 DEF LogoutCommit, Consistent, References
  <2>2. s \in Session /\ sessions[s].user \in User
    BY <2>1 DEF Consistent, TypeOK, SessionRow
  <2>3. row \in AuditRow /\ row.targets \subseteq DOMAIN sessions
    BY <2>1, <2>2 DEF AuditRow
  <2>4. /\ CloseSessions({s}) /\ audit' = audit \cup {row}
        /\ Done(p) /\ UNCHANGED <<now, consents>>
    BY <1>5 DEF LogoutCommit, Audited
  <2> HIDE DEF row, s
  <2> QED  BY <2>3, <2>4, ClosesConsistent DEF Consistent, TypeOK
<1>6. ASSUME NEW p \in Worker, NEW seed \in Session, NEW current \in Session,
             RevokeSeed(p, seed, current)
      PROVE  Consistent'
  <2> DEFINE r == [op |-> "seed", seed |-> seed,
                   name |-> sessions[seed].name, current |-> current]
  <2>1. seed \in DOMAIN sessions
    BY <1>6 DEF RevokeSeed
  <2>2. sessions[seed].name \in Name
    BY <2>1 DEF Consistent, TypeOK, SessionRow
  <2>3. r \in Request /\ r.op = "seed" /\ r.seed = seed
    BY <2>2 DEF Request
  <2>4. /\ Read(p, r)
        /\ UNCHANGED <<now, sessions, tokens, consents, audit>>
    BY <1>6 DEF RevokeSeed
  <2> HIDE DEF r
  <2> QED  BY <2>1, <2>3, <2>4, LoadConsistent
<1>7. ASSUME NEW p \in Worker, RevokeTargets(p)
      PROVE  Consistent'
  BY <1>7, RevokeTargetsConsistent
<1>8. ASSUME NEW p \in Worker, RevokeCommit(p)
      PROVE  Consistent'
  <2> DEFINE row == [action |-> "session.revoke", user |-> req[p].user,
                     targets |-> req[p].targets]
  <2>1. req[p].op = "revoke" /\ req[p] \in Request
    BY <1>8 DEF RevokeCommit, Consistent, TypeOK
  <2>2. req[p].user \in User /\ req[p].targets \in SUBSET Session
    BY <2>1, RequestFields
  <2>3. req[p].targets \subseteq DOMAIN sessions
    BY <2>1 DEF Consistent, References
  <2>4. row \in AuditRow /\ row.targets \subseteq DOMAIN sessions
    BY <2>2, <2>3 DEF AuditRow
  <2>5. /\ CloseSessions(req[p].targets) /\ audit' = audit \cup {row}
        /\ Done(p) /\ UNCHANGED <<now, consents>>
    BY <1>8 DEF RevokeCommit, Audited
  <2> HIDE DEF row
  <2> QED  BY <2>4, <2>5, ClosesConsistent DEF Consistent, TypeOK
<1>9. ASSUME NEW p \in Worker, NEW u \in User, NEW c \in Client,
             ExchangeLoad(p, u, c)
      PROVE  Consistent'
  <2> DEFINE r == [op |-> "exchange", user |-> u, client |-> c,
                   seen |-> consents[<<u, c>>]]
  <2>1. consents[<<u, c>>] \in ConsentState
    BY DEF Consistent, TypeOK
  <2>2. r \in Request /\ r.op = "exchange"
    BY <2>1 DEF Request
  <2>3. /\ Read(p, r)
        /\ UNCHANGED <<now, sessions, tokens, consents, audit>>
    BY <1>9 DEF ExchangeLoad
  <2> HIDE DEF r
  <2> QED  BY <2>2, <2>3, LoadConsistent
<1>10. ASSUME NEW p \in Worker, NEW n \in Name, NEW s \in Session,
              NEW t \in Token, ExchangeCommit(p, n, s, t)
       PROVE  Consistent'
  <2> DEFINE u == req[p].user
             c == req[p].client
  <2>1. u \in User /\ c \in Client
    BY <1>10, RequestFields DEF ExchangeCommit, Consistent, TypeOK
  <2>2. /\ IssueTokens(u, c, n, s, t)
        /\ now' = now /\ Done(p)
    BY <1>10 DEF ExchangeCommit
  <2>3. consents' \in [User \X Client -> ConsentState]
    BY <1>10, <2>1 DEF ExchangeCommit, Upserted, Consistent, TypeOK
  <2>4. /\ req' \in [Worker -> Request]
        /\ \A q \in Worker : req'[q] = req[q] \/ req'[q] = Idle
    BY <2>2, DoneType DEF Consistent
  <2> QED  BY <2>1, <2>2, <2>3, <2>4, OpensConsistent
<1>11. ASSUME NEW p \in Worker, NEW u \in User, NEW c \in Client,
              UnconsentLoad(p, u, c)
       PROVE  Consistent'
  <2> DEFINE r == [op |-> "unconsent", user |-> u, client |-> c]
  <2>1. r \in Request /\ r.op = "unconsent"
    BY DEF Request
  <2>2. /\ Read(p, r)
        /\ UNCHANGED <<now, sessions, tokens, consents, audit>>
    BY <1>11 DEF UnconsentLoad
  <2> HIDE DEF r
  <2> QED  BY <2>1, <2>2, LoadConsistent
<1>12. ASSUME NEW p \in Worker, UnconsentCommit(p)
       PROVE  Consistent'
  <2> DEFINE u == req[p].user
             c == req[p].client
             row == [action |-> "consent.revoke", user |-> u, client |-> c]
  <2>1. u \in User /\ c \in Client
    BY <1>12, RequestFields DEF UnconsentCommit, Consistent, TypeOK
  <2>2. row \in AuditRow /\ row.action = "consent.revoke"
    BY <2>1 DEF AuditRow
  <2>3. consents' \in [User \X Client -> ConsentState]
    BY <1>12, <2>1 DEF UnconsentCommit, Consistent, TypeOK
  <2>4. /\ CloseSessions(AppSessions(u, c)) /\ audit' = audit \cup {row}
        /\ Done(p) /\ now' = now
    BY <1>12 DEF UnconsentCommit
  <2> HIDE DEF row
  <2> QED  BY <2>2, <2>3, <2>4, ClosesConsistent
<1>13. ASSUME NEW p \in Worker, Abort(p)
       PROVE  Consistent'
  <2>1. /\ Done(p)
        /\ UNCHANGED <<now, sessions, tokens, consents, audit>>
    BY <1>13 DEF Abort
  <2>2. /\ req' \in [Worker -> Request]
        /\ \A q \in Worker : req'[q] = req[q] \/ req'[q] = Idle
    BY <2>1, DoneType DEF Consistent
  <2>3. TypeOK'
    BY <2>1, <2>2 DEF Consistent, TypeOK
  <2>4. References'
    BY <2>1, <2>2, ReferencesKept DEF Consistent, References
  <2> QED  BY <2>3, <2>4 DEF Consistent
<1>14. CASE Tick
  BY <1>14 DEF Tick, Consistent, TypeOK, References
<1>15. CASE UNCHANGED vars
  BY <1>15 DEF vars, Consistent, TypeOK, References
<1> QED
  BY <1>1, <1>2, <1>3, <1>4, <1>5, <1>6, <1>7, <1>8, <1>9, <1>10, <1>11,
     <1>12, <1>13, <1>14, <1>15
  DEF Next

LEMMA InitConsistent == Init => Consistent
BY DEF Init, Consistent, TypeOK, References, Request, Idle, ConsentState

(* The tables and the requests in flight are well-typed and refer to rows  *)
(* that exist, in every reachable state of every instance.                 *)
THEOREM TypeCorrect == Spec => []TypeOK
<1>1. Consistent => TypeOK
  BY DEF Consistent
<1> QED  BY <1>1, InitConsistent, ConsistentStep, PTL DEF Spec

THEOREM ReferencesHold == Spec => []References
<1>1. Consistent => References
  BY DEF Consistent
<1> QED  BY <1>1, InitConsistent, ConsistentStep, PTL DEF Spec

(***************************************************************************)
(* Every step is of one of four kinds.                                     *)
(***************************************************************************)

\* The audit row of a step that closes the sessions in S.
ClosingAudited(S) ==
  \/ \E action \in {"logout", "session.revoke"}, u \in User :
       /\ audit' = audit \cup
            {[action |-> action, user |-> u, targets |-> S]}
       /\ \A s \in S : s \in DOMAIN sessions /\ sessions[s].user = u
  \/ \E u \in User, c \in Client :
       /\ audit' = audit \cup
            {[action |-> "consent.revoke", user |-> u, client |-> c]}
       /\ \A s \in S : /\ s \in DOMAIN sessions
                       /\ sessions[s].user = u /\ sessions[s].client = c

\* An exchange that saw a consent row can rely on there being one.
ExchangeSawRow ==
  \A p \in Worker :
    req[p].op = "exchange" /\ req[p].seen # "none" =>
      consents[<<req[p].user, req[p].client>>] # "none"

\* A consent row is never deleted.
ConsentsKept ==
  \A uc \in User \X Client : consents[uc] # "none" => consents'[uc] # "none"

ConsentOf(u, c) == c # NoClient => consents'[<<u, c>>] # "none"

LEMMA StepKinds ==
  ASSUME Consistent, ExchangeSawRow, [Next]_vars
  PROVE  /\ \/ Quiet
            \/ \E u \in User, c \in Client \cup {NoClient},
                  s \in Session, t \in Token :
                 Opens(u, c, s, t) /\ ConsentOf(u, c)
            \/ \E t, t2 \in Token : Rotates(t, t2)
            \/ \E S : Closes(S) /\ ClosingAudited(S)
         /\ ConsentsKept
<1> DEFINE Goal == /\ \/ Quiet
                      \/ \E u \in User, c \in Client \cup {NoClient},
                            s \in Session, t \in Token :
                           Opens(u, c, s, t) /\ ConsentOf(u, c)
                      \/ \E t, t2 \in Token : Rotates(t, t2)
                      \/ \E S : Closes(S) /\ ClosingAudited(S)
                   /\ ConsentsKept
<1>0. now \in Nat /\ TypeOK
  BY DEF Consistent, TypeOK
<1>1. ASSUME NEW p \in Worker, NEW u \in User, NEW n \in Name,
             NEW s \in Session, NEW t \in Token, Login(p, u, n, s, t)
      PROVE  Goal
  <2>1. IssueTokens(u, NoClient, n, s, t) /\ UNCHANGED <<now, consents>>
    BY <1>1 DEF Login
  <2>2. Opens(u, NoClient, s, t)
    BY <1>0, <2>1, IssueTokensOpens
  <2>3. ConsentOf(u, NoClient) /\ ConsentsKept
    BY <2>1 DEF ConsentOf, ConsentsKept
  <2> QED  BY <2>2, <2>3
<1>2. ASSUME UNCHANGED <<now, sessions, tokens, consents, audit>>
      PROVE  Goal
  BY <1>2 DEF Quiet, ConsentsKept
<1>3. ASSUME NEW p \in Worker, NEW n \in Name, NEW t2 \in Token,
             RefreshCommit(p, n, t2)
      PROVE  Goal
  <2>1. Rotates(req[p].token, t2)
    BY <1>3, RefreshCommitRotates
  <2>2. req[p].token \in Token
    BY <2>1 DEF Rotates, Consistent, TypeOK
  <2>3. ConsentsKept
    BY <2>1 DEF Rotates, ConsentsKept
  <2> QED  BY <2>1, <2>2, <2>3
<1>4. ASSUME NEW p \in Worker, LogoutCommit(p)
      PROVE  Goal
  <2> DEFINE s == tokens[req[p].token].session
             u == sessions[s].user
  <2>1. s \in DOMAIN sessions
    BY <1>4 DEF LogoutCommit, Consistent, References
  <2>2. u \in User
    BY <2>1 DEF Consistent, TypeOK, SessionRow
  <2>3. /\ CloseSessions({s}) /\ UNCHANGED <<now, consents>>
        /\ audit' = audit \cup
             {[action |-> "logout", user |-> u, targets |-> {s}]}
    BY <1>4 DEF LogoutCommit, Audited
  <2>4. Closes({s})
    BY <1>0, <2>3, CloseSessionsCloses
  <2>5. ClosingAudited({s})
    <3> HIDE DEF s
    <3> QED  BY <2>1, <2>2, <2>3 DEF ClosingAudited
  <2>6. ConsentsKept
    BY <2>3 DEF ConsentsKept
  <2> QED  BY <2>4, <2>5, <2>6
<1>5. ASSUME NEW p \in Worker, RevokeCommit(p)
      PROVE  Goal
  <2> DEFINE S == req[p].targets
             u == req[p].user
  <2>1. u \in User
    BY <1>5, RequestFields DEF RevokeCommit, Consistent, TypeOK
  <2>2. \A s \in S : s \in DOMAIN sessions /\ sessions[s].user = u
    BY <1>5 DEF RevokeCommit, Consistent, References
  <2>3. /\ CloseSessions(S) /\ UNCHANGED <<now, consents>>
        /\ audit' = audit \cup
             {[action |-> "session.revoke", user |-> u, targets |-> S]}
    BY <1>5 DEF RevokeCommit, Audited
  <2>4. Closes(S)
    BY <1>0, <2>3, CloseSessionsCloses
  <2>5. ClosingAudited(S)
    BY <2>1, <2>2, <2>3 DEF ClosingAudited
  <2>6. ConsentsKept
    BY <2>3 DEF ConsentsKept
  <2> QED  BY <2>4, <2>5, <2>6
<1>6. ASSUME NEW p \in Worker, NEW n \in Name, NEW s \in Session,
             NEW t \in Token, ExchangeCommit(p, n, s, t)
      PROVE  Goal
  <2> DEFINE u == req[p].user
             c == req[p].client
  <2>1. u \in User /\ c \in Client
    BY <1>6, RequestFields DEF ExchangeCommit, Consistent, TypeOK
  <2>2. /\ IssueTokens(u, c, n, s, t) /\ now' = now
        /\ consents' = [consents EXCEPT ![<<u, c>>] =
                          Upserted(req[p].seen, consents[<<u, c>>])]
        /\ req[p].op = "exchange"
    BY <1>6 DEF ExchangeCommit
  <2>3. Opens(u, c, s, t)
    BY <1>0, <2>1, <2>2, IssueTokensOpens
  <2>4. consents \in [User \X Client -> ConsentState]
    BY <1>0 DEF TypeOK
  <2>5. Upserted(req[p].seen, consents[<<u, c>>]) # "none"
    BY <2>2 DEF Upserted, ExchangeSawRow
  <2>6. ConsentOf(u, c) /\ ConsentsKept
    BY <2>1, <2>2, <2>4, <2>5 DEF ConsentOf, ConsentsKept
  <2> QED  BY <2>1, <2>3, <2>6
<1>7. ASSUME NEW p \in Worker, UnconsentCommit(p)
      PROVE  Goal
  <2> DEFINE u == req[p].user
             c == req[p].client
             S == AppSessions(u, c)
  <2>1. u \in User /\ c \in Client
    BY <1>7, RequestFields DEF UnconsentCommit, Consistent, TypeOK
  <2>2. \A s \in S : /\ s \in DOMAIN sessions
                     /\ sessions[s].user = u /\ sessions[s].client = c
    BY DEF AppSessions
  <2>3. /\ CloseSessions(S) /\ now' = now
        /\ consents' = [consents EXCEPT ![<<u, c>>] = "revoked"]
        /\ audit' = audit \cup
             {[action |-> "consent.revoke", user |-> u, client |-> c]}
    BY <1>7 DEF UnconsentCommit
  <2>4. Closes(S)
    BY <1>0, <2>3, CloseSessionsCloses
  <2>5. ClosingAudited(S)
    BY <2>1, <2>2, <2>3 DEF ClosingAudited
  <2>6. ConsentsKept
    BY <1>0, <2>1, <2>3 DEF TypeOK, ConsentsKept
  <2> QED  BY <2>4, <2>5, <2>6
<1>8. ASSUME Tick PROVE Goal
  BY <1>8 DEF Tick, Quiet, ConsentsKept
<1>9. ASSUME NEW p \in Worker
      PROVE  /\ \A t \in Token : RefreshLoad(p, t) => Goal
             /\ \A t \in Token : LogoutLoad(p, t) => Goal
             /\ \A seed, current \in Session :
                  RevokeSeed(p, seed, current) => Goal
             /\ RevokeTargets(p) => Goal
             /\ \A u \in User, c \in Client : ExchangeLoad(p, u, c) => Goal
             /\ \A u \in User, c \in Client : UnconsentLoad(p, u, c) => Goal
             /\ Abort(p) => Goal
  <2> HIDE DEF Goal
  <2> QED
    BY <1>2 DEF RefreshLoad, LogoutLoad, RevokeSeed, RevokeTargets, Abort,
                ExchangeLoad, UnconsentLoad
<1>10. ASSUME UNCHANGED vars PROVE Goal
  BY <1>2, <1>10 DEF vars
<1>11. Goal
  <2> HIDE DEF Goal
  <2> QED
    BY <1>1, <1>2, <1>3, <1>4, <1>5, <1>6, <1>7, <1>8, <1>9, <1>10 DEF Next
<1> QED  BY <1>11

(***************************************************************************)
(* The safety invariants.  Each is kept by every kind of step.             *)
(***************************************************************************)

\* Lineage and expiry need each other only through the clock: no token
\* outlives a token issued now.
ExpiryBounded == \A t \in DOMAIN tokens : tokens[t].exp <= now + TTL

LEMMA ExchangeSawRowStep ==
  ASSUME Consistent, ExchangeSawRow, [Next]_vars
  PROVE  ExchangeSawRow'
<1>1. ConsentsKept
  BY StepKinds
<1>2. \A q \in Worker :
        \/ req'[q] = req[q]
        \/ req'[q].op # "exchange"
        \/ req'[q].seen = consents[<<req'[q].user, req'[q].client>>]
           /\ UNCHANGED consents
  <2> USE DEF Consistent, TypeOK
  <2>1. ASSUME NEW p \in Worker, Done(p), NEW q \in Worker
        PROVE  req'[q] = req[q] \/ req'[q].op # "exchange"
    BY <2>1 DEF Done, Idle
  <2>2. ASSUME NEW p \in Worker, NEW r, Read(p, r), NEW q \in Worker
        PROVE  req'[q] = req[q] \/ req'[q] = r
    BY <2>2 DEF Read
  <2>3. ASSUME NEW p \in Worker, NEW t \in Token, NEW q \in Worker,
               RefreshLoad(p, t) \/ LogoutLoad(p, t)
        PROVE  req'[q] = req[q] \/ req'[q].op # "exchange"
    BY <2>2, <2>3 DEF RefreshLoad, LogoutLoad
  <2>4. ASSUME NEW p \in Worker, NEW q \in Worker,
               NEW seed \in Session, NEW current \in Session,
               RevokeSeed(p, seed, current)
        PROVE  req'[q] = req[q] \/ req'[q].op # "exchange"
    BY <2>2, <2>4 DEF RevokeSeed
  <2>5. ASSUME NEW p \in Worker, NEW q \in Worker, RevokeTargets(p)
        PROVE  req'[q] = req[q] \/ req'[q].op # "exchange"
    BY <2>1, <2>2, <2>5 DEF RevokeTargets
  <2>6. ASSUME NEW p \in Worker, NEW q \in Worker,
               NEW u \in User, NEW c \in Client, UnconsentLoad(p, u, c)
        PROVE  req'[q] = req[q] \/ req'[q].op # "exchange"
    BY <2>2, <2>6 DEF UnconsentLoad
  <2>7. ASSUME NEW p \in Worker, NEW q \in Worker,
               NEW u \in User, NEW c \in Client, ExchangeLoad(p, u, c)
        PROVE  \/ req'[q] = req[q]
               \/ req'[q].seen = consents[<<req'[q].user, req'[q].client>>]
                  /\ UNCHANGED consents
    BY <2>2, <2>7 DEF ExchangeLoad
  <2>8. ASSUME NEW p \in Worker, NEW q \in Worker,
               \/ \E n \in Name, t2 \in Token : RefreshCommit(p, n, t2)
               \/ LogoutCommit(p) \/ RevokeCommit(p) \/ UnconsentCommit(p)
               \/ \E n \in Name, s \in Session, t \in Token :
                    ExchangeCommit(p, n, s, t)
               \/ Abort(p)
        PROVE  req'[q] = req[q] \/ req'[q].op # "exchange"
    <3>1. Done(p)
      BY <2>8 DEF RefreshCommit, LogoutCommit, RevokeCommit,
                  UnconsentCommit, ExchangeCommit, Abort
    <3> QED  BY <2>1, <3>1
  <2>9. ASSUME NEW q \in Worker,
               \/ \E p \in Worker, u \in User, n \in Name, s \in Session,
                     t \in Token : Login(p, u, n, s, t)
               \/ Tick
               \/ UNCHANGED vars
        PROVE  req'[q] = req[q]
    BY <2>9 DEF Login, Tick, vars
  <2> QED
    BY <2>3, <2>4, <2>5, <2>6, <2>7, <2>8, <2>9 DEF Next
<1>3. ASSUME NEW q \in Worker,
             req'[q].op = "exchange", req'[q].seen # "none"
      PROVE  consents'[<<req'[q].user, req'[q].client>>] # "none"
  <2>1. CASE req'[q] = req[q]
    <3>1. <<req[q].user, req[q].client>> \in User \X Client
      BY <1>3, <2>1, RequestFields DEF Consistent, TypeOK
    <3> QED  BY <1>1, <1>3, <2>1, <3>1 DEF ExchangeSawRow, ConsentsKept
  <2>2. CASE req'[q] # req[q]
    BY <1>2, <1>3, <2>2
  <2> QED  BY <2>1, <2>2
<1> QED  BY <1>3 DEF ExchangeSawRow

LEMMA TableTypes ==
  ASSUME Consistent
  PROVE  /\ now \in Nat
         /\ \A s \in DOMAIN sessions :
              /\ sessions[s].exp \in Nat /\ sessions[s].revoked \in BOOLEAN
              /\ sessions[s].user \in User
              /\ sessions[s].client \in Client \cup {NoClient}
         /\ \A t \in DOMAIN tokens :
              /\ t \in Token /\ t # NoToken
              /\ tokens[t].exp \in Nat /\ tokens[t].revoked \in BOOLEAN
              /\ tokens[t].session \in DOMAIN sessions
              /\ tokens[t].session \in Session
BY DEF Consistent, TypeOK, References, SessionRow, TokenRow

LEMMA ExpiryStep ==
  ASSUME Consistent, ExchangeSawRow, ExpiryBounded, SessionOutlivesTokens,
         [Next]_vars
  PROVE  ExpiryBounded' /\ SessionOutlivesTokens'
<1> USE TableTypes
<1>1. CASE Quiet
  BY <1>1 DEF Quiet, ExpiryBounded, SessionOutlivesTokens
<1>2. ASSUME NEW u \in User, NEW c \in Client \cup {NoClient},
             NEW s \in Session, NEW t \in Token, Opens(u, c, s, t)
      PROVE  ExpiryBounded' /\ SessionOutlivesTokens'
  BY <1>2 DEF Opens, ExpiryBounded, SessionOutlivesTokens
<1>3. ASSUME NEW t \in Token, NEW t2 \in Token, Rotates(t, t2)
      PROVE  ExpiryBounded' /\ SessionOutlivesTokens'
  <2>1. ASSUME NEW x \in DOMAIN tokens'
        PROVE  /\ tokens'[x].exp <= now + TTL
               /\ tokens'[x].exp <= sessions'[tokens'[x].session].exp
    BY <1>3, <2>1 DEF Rotates, ExpiryBounded, SessionOutlivesTokens
  <2> QED
    BY <1>3, <2>1 DEF Rotates, ExpiryBounded, SessionOutlivesTokens
<1>4. ASSUME NEW S, Closes(S)
      PROVE  ExpiryBounded' /\ SessionOutlivesTokens'
  BY <1>4 DEF Closes, ExpiryBounded, SessionOutlivesTokens
<1> QED  BY <1>1, <1>2, <1>3, <1>4, StepKinds

LEMMA LineageStep ==
  ASSUME Consistent, ExchangeSawRow, ExpiryBounded, RotationLineage,
         [Next]_vars
  PROVE  RotationLineage'
<1> USE TableTypes
<1>1. CASE Quiet
  BY <1>1 DEF Quiet, RotationLineage
<1>2. ASSUME NEW u \in User, NEW c \in Client \cup {NoClient},
             NEW s \in Session, NEW t \in Token, Opens(u, c, s, t)
      PROVE  RotationLineage'
  BY <1>2 DEF Opens, RotationLineage
<1>3. ASSUME NEW t \in Token, NEW t2 \in Token, Rotates(t, t2)
      PROVE  RotationLineage'
  <2>1. ASSUME NEW x \in DOMAIN tokens, tokens'[x].parent # NoToken
        PROVE  LET parent == tokens'[x].parent
               IN  /\ parent \in DOMAIN tokens'
                   /\ tokens'[parent].session = tokens'[x].session
                   /\ tokens'[parent].revoked
                   /\ tokens'[parent].exp <= tokens'[x].exp
    BY <1>3, <2>1 DEF Rotates, RotationLineage
  <2>2. /\ tokens'[t2].parent = t /\ t \in DOMAIN tokens'
        /\ tokens'[t].session = tokens'[t2].session
        /\ tokens'[t].revoked
        /\ tokens'[t].exp = tokens[t].exp /\ t \in DOMAIN tokens
        /\ tokens'[t2].exp = now + TTL
    BY <1>3 DEF Rotates
  <2>3. tokens'[t].exp <= tokens'[t2].exp
    BY <2>2 DEF ExpiryBounded
  <2>4. DOMAIN tokens' = DOMAIN tokens \cup {t2}
    BY <1>3 DEF Rotates
  <2> QED  BY <2>1, <2>2, <2>3, <2>4 DEF RotationLineage
<1>4. ASSUME NEW S, Closes(S)
      PROVE  RotationLineage'
  BY <1>4 DEF Closes, RotationLineage
<1> QED  BY <1>1, <1>2, <1>3, <1>4, StepKinds

\* A session is opened with exactly one token that is not a rotation.
OneRoot ==
  \A s \in DOMAIN sessions :
    \E t \in DOMAIN tokens :
      \A x \in DOMAIN tokens :
        (tokens[x].session = s /\ tokens[x].parent = NoToken) <=> x = t

\* The same of session y and any table T.
HasRoot(T, y) ==
  \E r \in DOMAIN T :
    \A x \in DOMAIN T : (T[x].session = y /\ T[x].parent = NoToken) <=> x = r

\* A root is still the only one when tokens are added that are not roots of
\* its session.
LEMMA RootKept ==
  ASSUME NEW T, NEW U, NEW y, HasRoot(T, y),
         DOMAIN T \subseteq DOMAIN U,
         \A x \in DOMAIN T : /\ U[x].session = T[x].session
                            /\ U[x].parent = T[x].parent,
         \A x \in DOMAIN U \ DOMAIN T :
           U[x].session # y \/ U[x].parent # NoToken
  PROVE  HasRoot(U, y)
<1>1. PICK r \in DOMAIN T : \A x \in DOMAIN T :
        (T[x].session = y /\ T[x].parent = NoToken) <=> x = r
  BY DEF HasRoot
<1>2. ASSUME NEW x \in DOMAIN U
      PROVE  (U[x].session = y /\ U[x].parent = NoToken) <=> x = r
  BY <1>1
<1>3. r \in DOMAIN U
  OBVIOUS
<1> QED  BY <1>2, <1>3 DEF HasRoot

LEMMA OneRootStep ==
  ASSUME Consistent, ExchangeSawRow, OneRoot, [Next]_vars
  PROVE  OneRoot'
<1> USE TableTypes
<1>0. \A y \in DOMAIN sessions : HasRoot(tokens, y)
  BY DEF OneRoot, HasRoot
<1> SUFFICES \A y \in DOMAIN sessions' : HasRoot(tokens', y)
  BY DEF OneRoot, HasRoot
<1>1. CASE Quiet
  BY <1>0, <1>1 DEF Quiet
<1>2. ASSUME NEW u \in User, NEW c \in Client \cup {NoClient},
             NEW s \in Session, NEW t \in Token, Opens(u, c, s, t),
             NEW y \in DOMAIN sessions'
      PROVE  HasRoot(tokens', y)
  <2>1. CASE y = s
    <3>1. ASSUME NEW x \in DOMAIN tokens'
          PROVE  (tokens'[x].session = s /\ tokens'[x].parent = NoToken)
                   <=> x = t
      BY <1>2 DEF Opens
    <3>2. t \in DOMAIN tokens'
      BY <1>2 DEF Opens
    <3> QED  BY <2>1, <3>1, <3>2 DEF HasRoot
  <2>2. CASE y # s
    <3>1. y \in DOMAIN sessions
      BY <1>2, <2>2 DEF Opens
    <3>2. /\ DOMAIN tokens \subseteq DOMAIN tokens'
          /\ \A x \in DOMAIN tokens : tokens'[x] = tokens[x]
          /\ \A x \in DOMAIN tokens' \ DOMAIN tokens : tokens'[x].session = s
      BY <1>2 DEF Opens
    <3> QED  BY <1>0, <2>2, <3>1, <3>2, RootKept
  <2> QED  BY <2>1, <2>2
<1>3. ASSUME NEW t \in Token, NEW t2 \in Token, Rotates(t, t2),
             NEW y \in DOMAIN sessions'
      PROVE  HasRoot(tokens', y)
  <2>1. /\ y \in DOMAIN sessions
        /\ DOMAIN tokens \subseteq DOMAIN tokens'
        /\ \A x \in DOMAIN tokens : /\ tokens'[x].session = tokens[x].session
                                    /\ tokens'[x].parent = tokens[x].parent
        /\ \A x \in DOMAIN tokens' \ DOMAIN tokens :
             tokens'[x].parent # NoToken
    BY <1>3 DEF Rotates
  <2> QED  BY <1>0, <2>1, RootKept
<1>4. ASSUME NEW S, Closes(S), NEW y \in DOMAIN sessions'
      PROVE  HasRoot(tokens', y)
  <2>1. /\ y \in DOMAIN sessions
        /\ DOMAIN tokens = DOMAIN tokens'
        /\ \A x \in DOMAIN tokens : /\ tokens'[x].session = tokens[x].session
                                    /\ tokens'[x].parent = tokens[x].parent
    BY <1>4 DEF Closes
  <2> QED  BY <1>0, <2>1, RootKept
<1> QED  BY <1>1, <1>2, <1>3, <1>4, StepKinds

\* A step of any kind keeps the users and clients of sessions, and the
\* revoked mark of a session is never cleared.
SessionsKept ==
  /\ DOMAIN sessions \subseteq DOMAIN sessions'
  /\ audit \subseteq audit'
  /\ \A s \in DOMAIN sessions :
       /\ sessions'[s].user = sessions[s].user
       /\ sessions'[s].client = sessions[s].client
       /\ sessions[s].revoked => sessions'[s].revoked

LEMMA SessionsKeptStep ==
  ASSUME Consistent, ExchangeSawRow, [Next]_vars
  PROVE  SessionsKept
<1> USE TableTypes
<1>1. CASE Quiet
  BY <1>1 DEF Quiet, SessionsKept
<1>2. ASSUME NEW u \in User, NEW c \in Client \cup {NoClient},
             NEW s \in Session, NEW t \in Token, Opens(u, c, s, t)
      PROVE  SessionsKept
  BY <1>2 DEF Opens, SessionsKept
<1>3. ASSUME NEW t \in Token, NEW t2 \in Token, Rotates(t, t2)
      PROVE  SessionsKept
  BY <1>3 DEF Rotates, SessionsKept
<1>4. ASSUME NEW S, Closes(S), ClosingAudited(S)
      PROVE  SessionsKept
  <2>1. audit \subseteq audit'
    BY <1>4 DEF ClosingAudited
  <2> QED  BY <1>4, <2>1 DEF Closes, SessionsKept
<1> QED  BY <1>1, <1>2, <1>3, <1>4, StepKinds

\* The rows of log A that explain why session s of u exists ...
LoginRow(A, u, s) ==
  \E a \in A : a.action = "login" /\ a.user = u /\ s \in a.targets

\* ... and why it is revoked.
RevocationRow(A, u, c, s) ==
  \E a \in A :
    \/ /\ a.action \in {"logout", "session.revoke"}
       /\ a.user = u /\ s \in a.targets
    \/ a.action = "consent.revoke" /\ a.user = u /\ a.client = c

LEMMA ClosingRow ==
  ASSUME NEW S, ClosingAudited(S), NEW s \in S
  PROVE  RevocationRow(audit', sessions[s].user, sessions[s].client, s)
<1>1. ASSUME NEW action \in {"logout", "session.revoke"}, NEW u \in User,
             audit' = audit \cup
               {[action |-> action, user |-> u, targets |-> S]},
             \A x \in S : x \in DOMAIN sessions /\ sessions[x].user = u
      PROVE  RevocationRow(audit', sessions[s].user, sessions[s].client, s)
  <2> DEFINE a == [action |-> action, user |-> u, targets |-> S]
  <2>1. a.action = action /\ a.user = sessions[s].user /\ s \in a.targets
    BY <1>1
  <2>2. a \in audit'
    BY <1>1
  <2> HIDE DEF a
  <2> QED  BY <2>1, <2>2 DEF RevocationRow
<1>2. ASSUME NEW u \in User, NEW c \in Client,
             audit' = audit \cup
               {[action |-> "consent.revoke", user |-> u, client |-> c]},
             \A x \in S : /\ x \in DOMAIN sessions
                         /\ sessions[x].user = u /\ sessions[x].client = c
      PROVE  RevocationRow(audit', sessions[s].user, sessions[s].client, s)
  <2> DEFINE a == [action |-> "consent.revoke", user |-> u, client |-> c]
  <2>1. /\ a.action = "consent.revoke"
        /\ a.user = sessions[s].user /\ a.client = sessions[s].client
    BY <1>2
  <2>2. a \in audit'
    BY <1>2
  <2> HIDE DEF a
  <2> QED  BY <2>1, <2>2 DEF RevocationRow
<1> QED  BY <1>1, <1>2 DEF ClosingAudited

LEMMA AuditCoversStep ==
  ASSUME Consistent, ExchangeSawRow, AuditCoversRevocation, [Next]_vars
  PROVE  AuditCoversRevocation'
<1> DEFINE Covered(A, tab, y) ==
             /\ LoginRow(A, tab[y].user, y)
             /\ tab[y].revoked =>
                  RevocationRow(A, tab[y].user, tab[y].client, y)
<1>0. \A y \in DOMAIN sessions : Covered(audit, sessions, y)
  BY DEF AuditCoversRevocation, LoginRow, RevocationRow
<1> SUFFICES ASSUME NEW y \in DOMAIN sessions'
             PROVE  Covered(audit', sessions', y)
  BY DEF AuditCoversRevocation, LoginRow, RevocationRow
<1>1. SessionsKept
  BY SessionsKeptStep
<1>2. ASSUME y \in DOMAIN sessions
      PROVE  LoginRow(audit', sessions'[y].user, y)
  BY <1>0, <1>1, <1>2 DEF SessionsKept, LoginRow
<1>3. ASSUME y \in DOMAIN sessions, sessions[y].revoked
      PROVE  RevocationRow(audit', sessions'[y].user, sessions'[y].client, y)
  <2>1. RevocationRow(audit, sessions[y].user, sessions[y].client, y)
    BY <1>0, <1>3
  <2>2. /\ sessions'[y].user = sessions[y].user
        /\ sessions'[y].client = sessions[y].client
        /\ audit \subseteq audit'
    BY <1>1, <1>3 DEF SessionsKept
  <2> QED  BY <2>1, <2>2 DEF RevocationRow
<1>4. CASE Quiet
  BY <1>0, <1>4 DEF Quiet
<1>5. ASSUME NEW u \in User, NEW c \in Client \cup {NoClient},
             NEW s \in Session, NEW t \in Token, Opens(u, c, s, t)
      PROVE  Covered(audit', sessions', y)
  <2>1. CASE y = s
    <3> DEFINE a == [action |-> "login", user |-> u, targets |-> {s}]
    <3>1. a.action = "login" /\ a.user = u /\ s \in a.targets
      OBVIOUS
    <3>2. a \in audit' /\ sessions'[s].user = u /\ ~sessions'[s].revoked
      BY <1>5 DEF Opens
    <3> HIDE DEF a
    <3> QED  BY <2>1, <3>1, <3>2 DEF LoginRow
  <2>2. CASE y # s
    <3>1. y \in DOMAIN sessions /\ sessions'[y] = sessions[y]
      BY <1>5, <2>2 DEF Opens
    <3> QED  BY <1>2, <1>3, <3>1
  <2> QED  BY <2>1, <2>2
<1>6. ASSUME NEW t \in Token, NEW t2 \in Token, Rotates(t, t2)
      PROVE  Covered(audit', sessions', y)
  <2>1. y \in DOMAIN sessions /\ sessions'[y].revoked = sessions[y].revoked
    BY <1>6 DEF Rotates
  <2> QED  BY <1>2, <1>3, <2>1
<1>7. ASSUME NEW S, Closes(S), ClosingAudited(S)
      PROVE  Covered(audit', sessions', y)
  <2>1. /\ y \in DOMAIN sessions
        /\ sessions'[y].revoked = (sessions[y].revoked \/ y \in S)
        /\ sessions'[y].user = sessions[y].user
        /\ sessions'[y].client = sessions[y].client
    BY <1>7 DEF Closes
  <2>2. y \in S =>
          RevocationRow(audit', sessions'[y].user, sessions'[y].client, y)
    BY <1>7, <2>1, ClosingRow
  <2> HIDE DEF Covered
  <2>3. sessions'[y].revoked =>
          RevocationRow(audit', sessions'[y].user, sessions'[y].client, y)
    BY <1>3, <2>1, <2>2
  <2> QED  BY <1>2, <2>1, <2>3 DEF Covered
<1> HIDE DEF Covered
<1> QED  BY <1>4, <1>5, <1>6, <1>7, StepKinds

LEMMA AuditTruthStep ==
  ASSUME Consistent, ExchangeSawRow, AuditIsTruthful, [Next]_vars
  PROVE  AuditIsTruthful'
<1> SUFFICES ASSUME NEW a \in audit',
                    a.action \in {"logout", "session.revoke"},
                    NEW s \in a.targets
             PROVE  sessions'[s].user = a.user /\ sessions'[s].revoked
  BY DEF AuditIsTruthful
<1>1. ASSUME a \in audit
      PROVE  sessions'[s].user = a.user /\ sessions'[s].revoked
  <2>1. s \in DOMAIN sessions
    BY <1>1 DEF Consistent, References
  <2> QED  BY <1>1, <2>1, SessionsKeptStep DEF SessionsKept, AuditIsTruthful
<1>2. CASE Quiet
  BY <1>1, <1>2 DEF Quiet
<1>3. ASSUME NEW u \in User, NEW c \in Client \cup {NoClient},
             NEW x \in Session, NEW t \in Token, Opens(u, c, x, t)
      PROVE  a \in audit
  BY <1>3 DEF Opens
<1>4. ASSUME NEW t \in Token, NEW t2 \in Token, Rotates(t, t2)
      PROVE  a \in audit
  BY <1>4 DEF Rotates
<1>5. ASSUME NEW S, Closes(S), ClosingAudited(S), a \notin audit
      PROVE  sessions'[s].user = a.user /\ sessions'[s].revoked
  <2>1. PICK u \in User :
          /\ a.targets = S /\ a.user = u
          /\ \A x \in S : x \in DOMAIN sessions /\ sessions[x].user = u
    BY <1>5 DEF ClosingAudited
  <2>2. s \in S /\ s \in DOMAIN sessions /\ sessions[s].user = a.user
    BY <2>1
  <2>3. /\ sessions'[s].user = sessions[s].user
        /\ sessions'[s].revoked = (sessions[s].revoked \/ s \in S)
    BY <1>5, <2>2 DEF Closes
  <2> QED  BY <2>2, <2>3
<1> QED  BY <1>1, <1>2, <1>3, <1>4, <1>5, StepKinds

LEMMA AppConsentStep ==
  ASSUME Consistent, ExchangeSawRow, AppSessionHasConsent, [Next]_vars
  PROVE  AppSessionHasConsent'
<1> USE TableTypes
<1> SUFFICES ASSUME NEW y \in DOMAIN sessions',
                    sessions'[y].client # NoClient
             PROVE  consents'[<<sessions'[y].user, sessions'[y].client>>]
                      # "none"
  BY DEF AppSessionHasConsent
<1>1. ASSUME y \in DOMAIN sessions
      PROVE  consents'[<<sessions'[y].user, sessions'[y].client>>] # "none"
  <2>1. /\ sessions'[y].user = sessions[y].user
        /\ sessions'[y].client = sessions[y].client
    BY <1>1, SessionsKeptStep DEF SessionsKept
  <2>2. <<sessions[y].user, sessions[y].client>> \in User \X Client
    BY <1>1, <2>1
  <2> QED
    BY <1>1, <2>1, <2>2, StepKinds DEF ConsentsKept, AppSessionHasConsent
<1>2. ASSUME NEW u \in User, NEW c \in Client \cup {NoClient},
             NEW s \in Session, NEW t \in Token,
             Opens(u, c, s, t), ConsentOf(u, c), y \notin DOMAIN sessions
      PROVE  consents'[<<sessions'[y].user, sessions'[y].client>>] # "none"
  BY <1>2 DEF Opens, ConsentOf
<1>3. ASSUME NEW t \in Token, NEW t2 \in Token, Rotates(t, t2)
      PROVE  y \in DOMAIN sessions
  BY <1>3 DEF Rotates
<1>4. ASSUME NEW S, Closes(S)
      PROVE  y \in DOMAIN sessions
  BY <1>4 DEF Closes
<1>5. CASE Quiet
  BY <1>1, <1>5 DEF Quiet
<1> QED  BY <1>1, <1>2, <1>3, <1>4, <1>5, StepKinds

(***************************************************************************)
(* The inductive invariant and the theorems.                               *)
(***************************************************************************)

IInv ==
  /\ Consistent
  /\ ExchangeSawRow
  /\ ExpiryBounded
  /\ SessionOutlivesTokens
  /\ RotationLineage
  /\ OneRoot
  /\ AuditCoversRevocation
  /\ AuditIsTruthful
  /\ AppSessionHasConsent

LEMMA InitIInv == Init => IInv
<1> SUFFICES ASSUME Init PROVE IInv
  OBVIOUS
<1>1. Consistent
  BY InitConsistent
<1>2. /\ DOMAIN sessions = {} /\ DOMAIN tokens = {} /\ audit = {}
      /\ \A p \in Worker : req[p].op = "idle"
  BY DEF Init, Idle
<1>3. ExchangeSawRow
  BY <1>2 DEF ExchangeSawRow
<1>4. ExpiryBounded /\ SessionOutlivesTokens /\ RotationLineage
  BY <1>2 DEF ExpiryBounded, SessionOutlivesTokens, RotationLineage
<1>5. OneRoot /\ AppSessionHasConsent
  BY <1>2 DEF OneRoot, AppSessionHasConsent
<1>6. AuditCoversRevocation /\ AuditIsTruthful
  BY <1>2 DEF AuditCoversRevocation, AuditIsTruthful
<1> QED  BY <1>1, <1>3, <1>4, <1>5, <1>6 DEF IInv

LEMMA StepIInv == IInv /\ [Next]_vars => IInv'
BY ConsistentStep, ExchangeSawRowStep, ExpiryStep, LineageStep, OneRootStep,
   AuditCoversStep, AuditTruthStep, AppConsentStep DEF IInv

LEMMA Inductive == Spec => []IInv
BY InitIInv, StepIInv, PTL DEF Spec

(* Chains of rotations stay inside a session, and every link but the last  *)
(* is revoked, however the refreshes of any number of requests interleave  *)
(* (auth_service.issue_tokens_with_rotation).                              *)
THEOREM LineageHolds == Spec => []RotationLineage
<1>1. IInv => RotationLineage
  BY DEF IInv
<1> QED  BY <1>1, Inductive, PTL

(* A session's sliding expiry covers all of its tokens.                    *)
THEOREM ExpiryHolds == Spec => []SessionOutlivesTokens
<1>1. IInv => SessionOutlivesTokens
  BY DEF IInv
<1> QED  BY <1>1, Inductive, PTL

(* The audit log explains every session and makes no false claim.          *)
THEOREM AuditAgreesHolds == Spec => []AuditAgrees
<1>1. IInv => AuditAgrees
  BY DEF IInv, AuditAgrees
<1> QED  BY <1>1, Inductive, PTL

(* No session of an application without a consent row.                     *)
THEOREM AppConsentHolds == Spec => []AppSessionHasConsent
<1>1. IInv => AppSessionHasConsent
  BY DEF IInv
<1> QED  BY <1>1, Inductive, PTL

(***************************************************************************)
(* Spendable tokens.                                                       *)
(***************************************************************************)

\* Token x is known and not revoked, and neither it nor its session lapsed.
LEMMA QuietUsable ==
  ASSUME IInv, Quiet, NEW x \in DOMAIN tokens, Usable(x)'
  PROVE  Usable(x)
<1> USE TableTypes
<1>1. now' >= now /\ now' \in Nat
  BY DEF Quiet, IInv
<1> QED  BY <1>1 DEF Quiet, IInv, Usable, Open

LEMMA OpensUsable ==
  ASSUME IInv, NEW u, NEW c, NEW s, NEW t, Opens(u, c, s, t)
  PROVE  /\ Usable(t)'
         /\ \A x \in DOMAIN tokens : Usable(x)' <=> Usable(x)
<1> USE TableTypes DEF IInv
<1>1. now' = now /\ now + TTL > now
  BY DEF Opens
<1>2. Usable(t)'
  BY <1>1 DEF Opens, Usable, Open
<1>3. ASSUME NEW x \in DOMAIN tokens
      PROVE  Usable(x)' <=> Usable(x)
  <2>1. /\ x \in DOMAIN tokens' /\ tokens'[x] = tokens[x]
        /\ sessions'[tokens[x].session] = sessions[tokens[x].session]
    BY DEF Opens
  <2> QED  BY <1>1, <2>1 DEF Usable, Open
<1> QED  BY <1>2, <1>3

LEMMA RotatesUsable ==
  ASSUME IInv, NEW t, NEW t2, Rotates(t, t2)
  PROVE  /\ Usable(t2)' <=> ~sessions[tokens[t].session].revoked
         /\ ~Usable(t)'
         /\ \A x \in DOMAIN tokens \ {t} : Usable(x)' <=> Usable(x)
<1> USE TableTypes DEF IInv
<1>1. now' = now /\ now + TTL > now
  BY DEF Rotates
<1>2. /\ tokens[t].session \in DOMAIN sessions
      /\ sessions'[tokens[t].session].exp = now + TTL
      /\ sessions'[tokens[t].session].revoked
           = sessions[tokens[t].session].revoked
      /\ t2 \in DOMAIN tokens'
      /\ tokens'[t2].session = tokens[t].session
      /\ ~tokens'[t2].revoked /\ tokens'[t2].exp = now + TTL
  BY DEF Rotates
<1>3. Usable(t2)' <=> ~sessions[tokens[t].session].revoked
  BY <1>1, <1>2 DEF Usable, Open
<1>4. ~Usable(t)'
  BY DEF Rotates, Usable
<1>5. ASSUME NEW x \in DOMAIN tokens \ {t}
      PROVE  Usable(x)' <=> Usable(x)
  <2> DEFINE s == tokens[x].session
  <2>1. /\ x \in DOMAIN tokens' /\ tokens'[x].session = s
        /\ tokens'[x].exp = tokens[x].exp
        /\ tokens'[x].revoked = tokens[x].revoked
        /\ s \in DOMAIN sessions
        /\ sessions'[s].revoked = sessions[s].revoked
    BY DEF Rotates
  <2>2. CASE s = tokens[t].session
    <3>1. tokens[x].exp <= sessions[s].exp
      BY DEF SessionOutlivesTokens
    <3>2. tokens[x].exp > now => sessions[s].exp > now
      BY <3>1
    <3> QED  BY <1>1, <1>2, <2>1, <2>2, <3>2 DEF Usable, Open
  <2>3. CASE s # tokens[t].session
    <3>1. sessions'[s] = sessions[s]
      BY <2>1, <2>3 DEF Rotates
    <3> QED  BY <1>1, <2>1, <3>1 DEF Usable, Open
  <2> QED  BY <2>2, <2>3
<1> QED  BY <1>3, <1>4, <1>5

LEMMA ClosesUsable ==
  ASSUME IInv, NEW S, Closes(S), NEW x \in DOMAIN tokens
  PROVE  Usable(x)' <=> Usable(x) /\ tokens[x].session \notin S
<1> USE TableTypes DEF IInv
<1> DEFINE s == tokens[x].session
<1>1. /\ now' = now
      /\ x \in DOMAIN tokens' /\ tokens'[x].session = s
      /\ tokens'[x].exp = tokens[x].exp
      /\ tokens'[x].revoked = (tokens[x].revoked \/ s \in S)
      /\ s \in DOMAIN sessions
      /\ sessions'[s].exp = sessions[s].exp
      /\ sessions'[s].revoked = (sessions[s].revoked \/ s \in S)
  BY DEF Closes
<1>2. CASE s \in S
  <2>1. tokens'[x].revoked
    BY <1>1, <1>2
  <2> QED  BY <1>2, <2>1 DEF Usable
<1>3. CASE s \notin S
  <2>1. /\ tokens'[x].revoked = tokens[x].revoked
        /\ sessions'[s].revoked = sessions[s].revoked
    BY <1>1, <1>3
  <2> QED  BY <1>1, <1>3, <2>1 DEF Usable, Open
<1> QED  BY <1>2, <1>3

(* A refresh token that /refresh and /logout would refuse stays refused,   *)
(* whatever requests in flight still do to its session.                    *)
THEOREM DeadStaysDead ==
  Spec => [][\A t \in DOMAIN tokens : Usable(t)' => Usable(t)]_vars
<1>1. ASSUME IInv, [Next]_vars
      PROVE  \A t \in DOMAIN tokens : Usable(t)' => Usable(t)
  <2> SUFFICES ASSUME NEW x \in DOMAIN tokens, Usable(x)'
               PROVE  Usable(x)
    OBVIOUS
  <2>1. CASE Quiet
    BY <1>1, <2>1, QuietUsable
  <2>2. ASSUME NEW u \in User, NEW c \in Client \cup {NoClient},
               NEW s \in Session, NEW t \in Token, Opens(u, c, s, t)
        PROVE  Usable(x)
    BY <1>1, <2>2, OpensUsable
  <2>3. ASSUME NEW t \in Token, NEW t2 \in Token, Rotates(t, t2)
        PROVE  Usable(x)
    BY <1>1, <2>3, RotatesUsable
  <2>4. ASSUME NEW S, Closes(S)
        PROVE  Usable(x)
    BY <1>1, <2>4, ClosesUsable
  <2>5. Consistent /\ ExchangeSawRow
    BY <1>1 DEF IInv
  <2> QED  BY <1>1, <2>1, <2>2, <2>3, <2>4, <2>5, StepKinds
<1>2. IInv /\ [Next]_vars =>
        [\A t \in DOMAIN tokens : Usable(t)' => Usable(t)]_vars
  BY <1>1
<1> QED  BY <1>2, Inductive, PTL DEF Spec

(***************************************************************************)
(* Rotation makes one tree of a session's tokens, as wide as the overlap.  *)
(***************************************************************************)

\* A request is as it was, over, or has just read the tables.
LEMMA RequestMoves ==
  ASSUME TypeOK, NEW p \in Worker, Next
  PROVE  \/ req'[p] = req[p]
         \/ req'[p] = Idle
         \/ \E t \in Token : RefreshLoad(p, t) \/ LogoutLoad(p, t)
         \/ \E seed, current \in Session : RevokeSeed(p, seed, current)
         \/ RevokeTargets(p) /\ Targets(req[p]) # {}
         \/ \E u \in User, c \in Client : ExchangeLoad(p, u, c) \/ UnconsentLoad(p, u, c)
<1> DEFINE Moved(q) ==
      \/ req'[q] = req[q]
      \/ req'[q] = Idle
      \/ \E t \in Token : RefreshLoad(q, t) \/ LogoutLoad(q, t)
      \/ \E seed, current \in Session : RevokeSeed(q, seed, current)
      \/ RevokeTargets(q) /\ Targets(req[q]) # {}
      \/ \E u \in User, c \in Client : ExchangeLoad(q, u, c) \/ UnconsentLoad(q, u, c)
<1>1. ASSUME NEW q \in Worker, Done(q)
      PROVE  req'[p] = req[p] \/ req'[p] = Idle
  BY <1>1, DoneType
<1>2. ASSUME NEW q \in Worker, NEW r, Read(q, r), q # p
      PROVE  req'[p] = req[p]
  BY <1>2 DEF Read, TypeOK
<1>3. ASSUME req' = req
      PROVE  Moved(p)
  BY <1>3
<1>4. ASSUME NEW q \in Worker, Done(q)
      PROVE  Moved(p)
  BY <1>1, <1>4
<1>5. ASSUME NEW q \in Worker, NEW t \in Token, RefreshLoad(q, t) \/ LogoutLoad(q, t)
      PROVE  Moved(p)
  <2>1. CASE q = p
    BY <1>5, <2>1
  <2>2. CASE q # p
    BY <1>2, <1>5, <2>2 DEF RefreshLoad, LogoutLoad
  <2> QED  BY <2>1, <2>2
<1>6. ASSUME NEW q \in Worker, NEW seed \in Session, NEW current \in Session,
             RevokeSeed(q, seed, current)
      PROVE  Moved(p)
  <2>1. CASE q = p
    BY <1>6, <2>1
  <2>2. CASE q # p
    BY <1>2, <1>6, <2>2 DEF RevokeSeed
  <2> QED  BY <2>1, <2>2
<1>7. ASSUME NEW q \in Worker, RevokeTargets(q)
      PROVE  Moved(p)
  <2>1. CASE Targets(req[q]) = {}
    BY <1>4, <1>7, <2>1 DEF RevokeTargets
  <2>2. CASE Targets(req[q]) # {} /\ q = p
    BY <1>7, <2>2
  <2>3. CASE Targets(req[q]) # {} /\ q # p
    BY <1>2, <1>7, <2>3 DEF RevokeTargets
  <2> QED  BY <2>1, <2>2, <2>3
<1>8. ASSUME NEW q \in Worker, NEW u \in User, NEW c \in Client,
             ExchangeLoad(q, u, c) \/ UnconsentLoad(q, u, c)
      PROVE  Moved(p)
  <2>1. CASE q = p
    BY <1>8, <2>1
  <2>2. CASE q # p
    BY <1>2, <1>8, <2>2 DEF ExchangeLoad, UnconsentLoad
  <2> QED  BY <2>1, <2>2
<1>9. (\E q \in Worker, u \in User, n \in Name, s \in Session, t \in Token :
         Login(q, u, n, s, t)) \/ Tick
      => req' = req
  BY DEF Login, Tick
<1>10. \A q \in Worker :
         \/ \E n \in Name, t2 \in Token : RefreshCommit(q, n, t2)
         \/ LogoutCommit(q) \/ RevokeCommit(q) \/ UnconsentCommit(q) \/ Abort(q)
         \/ \E n \in Name, s \in Session, t \in Token : ExchangeCommit(q, n, s, t)
         => Done(q)
  BY DEF RefreshCommit, LogoutCommit, RevokeCommit, UnconsentCommit, Abort,
         ExchangeCommit
<1> HIDE DEF Moved
<1>11. Moved(p)
  BY <1>3, <1>4, <1>5, <1>6, <1>7, <1>8, <1>9, <1>10 DEF Next
<1> QED  BY <1>11 DEF Moved

LEMMA TableMoves ==
  ASSUME Next
  PROVE  \/ \E p \in Worker, n \in Name, t2 \in Token : RefreshCommit(p, n, t2)
         \/ \E u \in User, n \in Name, s \in Session, t \in Token :
              /\ IssueTokens(u, NoClient, n, s, t)
              /\ UNCHANGED <<now, consents>>
         \/ \E p \in Worker, n \in Name, s \in Session, t \in Token :
              ExchangeCommit(p, n, s, t)
         \/ \E S : CloseSessions(S) /\ UNCHANGED <<now, consents>>
         \/ \E p \in Worker : UnconsentCommit(p)
         \/ UNCHANGED <<sessions, tokens, consents>>
BY DEF Next, Login, RefreshLoad, LogoutLoad, LogoutCommit, RevokeSeed, RevokeTargets,
       RevokeCommit, ExchangeLoad, UnconsentLoad, Abort, Tick

\* A refresh makes a successor; no other step changes who descends from whom.
LEMMA OnlyRefreshRotates ==
  ASSUME Consistent, [Next]_vars
  PROVE  \/ \E p \in Worker, n \in Name, t2 \in Token : RefreshCommit(p, n, t2)
         \/ /\ DOMAIN tokens \subseteq DOMAIN tokens'
            /\ \A x \in DOMAIN tokens : tokens'[x].parent = tokens[x].parent
            /\ \A x \in DOMAIN tokens' \ DOMAIN tokens :
                 tokens'[x].parent = NoToken
<1> DEFINE Kept == /\ DOMAIN tokens \subseteq DOMAIN tokens'
                   /\ \A x \in DOMAIN tokens : tokens'[x].parent = tokens[x].parent
                   /\ \A x \in DOMAIN tokens' \ DOMAIN tokens :
                        tokens'[x].parent = NoToken
<1>1. TypeOK
  BY DEF Consistent
<1>2. ASSUME NEW u \in User, NEW c \in Client \cup {NoClient}, NEW n \in Name,
             NEW s \in Session, NEW t \in Token, IssueTokens(u, c, n, s, t), now' = now
      PROVE  Kept
  <2>1. Opens(u, c, s, t)
    BY <1>1, <1>2, IssueTokensOpens
  <2> QED  BY <2>1 DEF Opens
<1>3. ASSUME NEW p \in Worker, NEW n \in Name, NEW s \in Session, NEW t \in Token,
             ExchangeCommit(p, n, s, t)
      PROVE  Kept
  <2>1. req[p].user \in User /\ req[p].client \in Client
    BY <1>1, <1>3, RequestFields DEF ExchangeCommit, TypeOK
  <2> QED  BY <1>2, <1>3, <2>1 DEF ExchangeCommit
<1>4. ASSUME NEW S, CloseSessions(S)
      PROVE  Kept
  BY <1>1, <1>4, CloseSessionsType
<1>5. ASSUME tokens' = tokens
      PROVE  Kept
  BY <1>5
<1> HIDE DEF Kept
<1>6. (\E p \in Worker, n \in Name, t2 \in Token : RefreshCommit(p, n, t2)) \/ Kept
  BY <1>2, <1>3, <1>4, <1>5, TableMoves DEF UnconsentCommit, vars
<1> QED  BY <1>6 DEF Kept

\* Every set of tokens has a member whose parent is outside: no circle.
Grounded ==
  \A S \in SUBSET DOMAIN tokens : S # {} => \E t \in S : tokens[t].parent \notin S

LEMMA GroundedStep ==
  ASSUME IInv, Grounded, [Next]_vars
  PROVE  Grounded'
<1> SUFFICES ASSUME NEW S \in SUBSET DOMAIN tokens', S # {}
             PROVE  \E x \in S : tokens'[x].parent \notin S
  BY DEF Grounded
<1>1. Consistent /\ RotationLineage /\ \A x \in DOMAIN tokens : x # NoToken
  BY TableTypes DEF IInv
<1>2. CASE /\ DOMAIN tokens \subseteq DOMAIN tokens'
           /\ \A x \in DOMAIN tokens : tokens'[x].parent = tokens[x].parent
           /\ \A x \in DOMAIN tokens' \ DOMAIN tokens : tokens'[x].parent = NoToken
  <2>1. CASE S \subseteq DOMAIN tokens
    BY <1>2, <2>1 DEF Grounded
  <2>2. ASSUME NEW x \in S, x \notin DOMAIN tokens
        PROVE  \E y \in S : tokens'[y].parent \notin S
    <3>1. tokens'[x].parent = NoToken
      BY <1>2, <2>2
    <3>2. NoToken \notin S
      BY <1>1, ConsistentStep DEF Consistent, TypeOK
    <3> QED  BY <3>1, <3>2
  <2> QED  BY <2>1, <2>2
<1>3. ASSUME NEW p \in Worker, NEW n \in Name, NEW t2 \in Token,
             RefreshCommit(p, n, t2)
      PROVE  \E x \in S : tokens'[x].parent \notin S
  <2> DEFINE t == req[p].token
             R == S \ {t2}
  <2>1. /\ t \in DOMAIN tokens /\ t2 \notin DOMAIN tokens
        /\ DOMAIN tokens' = DOMAIN tokens \cup {t2}
        /\ \A x \in DOMAIN tokens : tokens'[x].parent = tokens[x].parent
        /\ tokens'[t2].parent = t
    BY <1>1, <1>3, RefreshCommitRotates DEF Rotates
  <2>2. CASE R = {}
    BY <2>1, <2>2
  <2>3. CASE R # {}
    <3>1. PICK x \in R : tokens[x].parent \notin R
      BY <2>1, <2>3 DEF Grounded
    <3>2. tokens[x].parent # t2
      BY <1>1, <2>1, <3>1 DEF RotationLineage
    <3> QED  BY <2>1, <3>1, <3>2
  <2> QED  BY <2>2, <2>3
<1> QED  BY <1>1, <1>2, <1>3, OnlyRefreshRotates

LEMMA GroundedTree == IInv /\ Grounded => RotationTree
<1> SUFFICES ASSUME IInv, Grounded, NEW s \in DOMAIN sessions
             PROVE  \E root \in TokensOf(s) :
                      /\ tokens[root].parent = NoToken
                      /\ \A S \in SUBSET TokensOf(s) :
                           /\ root \in S
                           /\ \A t \in TokensOf(s) : tokens[t].parent \in S => t \in S
                           => S = TokensOf(s)
  BY DEF RotationTree
<1>1. PICK root \in DOMAIN tokens :
        \A x \in DOMAIN tokens :
          (tokens[x].session = s /\ tokens[x].parent = NoToken) <=> x = root
  BY DEF IInv, OneRoot
<1>2. root \in TokensOf(s) /\ tokens[root].parent = NoToken
  BY <1>1 DEF TokensOf
<1>3. ASSUME NEW S \in SUBSET TokensOf(s), root \in S,
             \A t \in TokensOf(s) : tokens[t].parent \in S => t \in S,
             S # TokensOf(s)
      PROVE  FALSE
  <2>1. PICK x \in TokensOf(s) \ S : tokens[x].parent \notin TokensOf(s) \ S
    <3>1. TokensOf(s) \ S \in SUBSET DOMAIN tokens /\ TokensOf(s) \ S # {}
      BY <1>3 DEF TokensOf
    <3> QED  BY <3>1 DEF Grounded
  <2>2. x \in DOMAIN tokens /\ tokens[x].session = s /\ x # root
    BY <1>3, <2>1 DEF TokensOf
  <2>3. tokens[x].parent # NoToken
    BY <1>1, <2>2
  <2>4. tokens[x].parent \in TokensOf(s)
    BY <2>2, <2>3 DEF IInv, RotationLineage, TokensOf
  <2> QED  BY <1>3, <2>1, <2>4
<1> QED  BY <1>2, <1>3

(* However refreshes overlap, the tokens of a session are those rotation   *)
(* makes of the one it was opened with.                                    *)
THEOREM TreeHolds == Spec => []RotationTree
<1>1. Init => Grounded
  BY DEF Init, Grounded
<1>2. IInv /\ Grounded /\ [Next]_vars => Grounded'
  BY GroundedStep
<1> QED  BY <1>1, <1>2, GroundedTree, Inductive, PTL DEF Spec

\* The refreshes that have loaded t and not yet rotated it.
Loading(t) == {p \in Worker : req[p].op = "refresh" /\ req[p].token = t}

(* Once t has a successor it is revoked and no refresh loads it again, so  *)
(* every further successor uses up one that holds it.                      *)
SuccessorsFromLoads ==
  \A t \in DOMAIN tokens :
    /\ IsFiniteSet(Successors(t))
    /\ Successors(t) # {} =>
         Cardinality(Successors(t)) + Cardinality(Loading(t)) <= Cardinality(Worker)

LEMMA LoadingFinite ==
  /\ Cardinality(Worker) \in Nat
  /\ \A t : /\ IsFiniteSet(Loading(t)) /\ Cardinality(Loading(t)) \in Nat
            /\ Cardinality(Loading(t)) <= Cardinality(Worker)
<1>1. \A S \in SUBSET Worker :
        IsFiniteSet(S) /\ Cardinality(S) <= Cardinality(Worker)
  BY WorkerAssumption, FS_Subset
<1>2. \A S \in SUBSET Worker : Cardinality(S) \in Nat
  BY <1>1, FS_CardinalityType
<1>3. Cardinality(Worker) \in Nat
  BY WorkerAssumption, FS_CardinalityType
<1>4. \A t : Loading(t) \in SUBSET Worker
  BY DEF Loading
<1> QED  BY <1>1, <1>2, <1>3, <1>4

LEMMA LoadingShrinks ==
  ASSUME TypeOK, NEW t, tokens[t].revoked, [Next]_vars
  PROVE  Loading(t)' \subseteq Loading(t)
<1> SUFFICES ASSUME NEW p \in Worker, req'[p].op = "refresh", req'[p].token = t
             PROVE  req'[p] = req[p]
  BY DEF Loading
<1>1. CASE UNCHANGED vars
  BY <1>1 DEF vars
<1>2. CASE Next
  <2>1. req'[p] # Idle
    BY DEF Idle
  <2>2. ASSUME NEW r, Read(p, r) PROVE req'[p] = r
    BY <2>2 DEF Read, TypeOK
  <2>3. ASSUME NEW x \in Token, RefreshLoad(p, x)
        PROVE  FALSE
    <3>1. Usable(x) /\ req'[p] = [op |-> "refresh", token |-> x]
      BY <2>2, <2>3 DEF RefreshLoad
    <3> QED  BY <3>1 DEF Usable
  <2>4. ASSUME NEW x \in Token, LogoutLoad(p, x)
        PROVE  FALSE
    BY <2>2, <2>4 DEF LogoutLoad
  <2>5. ASSUME NEW seed \in Session, NEW current \in Session,
               RevokeSeed(p, seed, current)
        PROVE  FALSE
    BY <2>2, <2>5 DEF RevokeSeed
  <2>6. ASSUME RevokeTargets(p), Targets(req[p]) # {}
        PROVE  FALSE
    BY <2>2, <2>6 DEF RevokeTargets
  <2>7. ASSUME NEW u \in User, NEW c \in Client,
               ExchangeLoad(p, u, c) \/ UnconsentLoad(p, u, c)
        PROVE  FALSE
    BY <2>2, <2>7 DEF ExchangeLoad, UnconsentLoad
  <2> QED  BY <1>2, <2>1, <2>3, <2>4, <2>5, <2>6, <2>7, RequestMoves
<1> QED  BY <1>1, <1>2

\* A step that gives t no successor keeps the bound.
LEMMA BoundKept ==
  ASSUME IInv, SuccessorsFromLoads, [Next]_vars, NEW t \in DOMAIN tokens,
         Successors(t)' = Successors(t)
  PROVE  /\ IsFiniteSet(Successors(t)')
         /\ Successors(t)' # {} =>
              Cardinality(Successors(t)') + Cardinality(Loading(t)') <= Cardinality(Worker)
<1>1. IsFiniteSet(Successors(t)) /\ Cardinality(Successors(t)) \in Nat
  BY FS_CardinalityType DEF SuccessorsFromLoads
<1>2. CASE Successors(t) # {}
  <2>1. tokens[t].revoked
    BY <1>2, TableTypes DEF IInv, RotationLineage, Successors
  <2>2. Loading(t)' \subseteq Loading(t)
    BY <2>1, LoadingShrinks DEF IInv, Consistent
  <2>3. /\ Cardinality(Loading(t)') <= Cardinality(Loading(t))
        /\ Cardinality(Loading(t)') \in Nat
    BY <2>2, LoadingFinite, FS_Subset, FS_CardinalityType
  <2>4. Cardinality(Successors(t)) + Cardinality(Loading(t)) <= Cardinality(Worker)
    BY <1>2 DEF SuccessorsFromLoads
  <2> QED  BY <1>1, <2>3, <2>4, LoadingFinite
<1> QED  BY <1>1, <1>2

LEMMA SuccessorsStep ==
  ASSUME IInv, SuccessorsFromLoads, [Next]_vars
  PROVE  SuccessorsFromLoads'
<1> SUFFICES ASSUME NEW x \in DOMAIN tokens'
             PROVE  /\ IsFiniteSet(Successors(x)')
                    /\ Successors(x)' # {} =>
                         Cardinality(Successors(x)') + Cardinality(Loading(x)')
                           <= Cardinality(Worker)
  BY DEF SuccessorsFromLoads
<1>1. Consistent /\ RotationLineage /\ \A y \in DOMAIN tokens : y # NoToken
  BY TableTypes DEF IInv
<1>2. x # NoToken
  BY <1>1, ConsistentStep DEF Consistent, TypeOK
\* A token that was just issued has no successor yet.
<1>3. ASSUME x \notin DOMAIN tokens, Successors(x)' = {}
      PROVE  IsFiniteSet(Successors(x)')
  BY <1>3, FS_EmptySet
<1>4. CASE /\ DOMAIN tokens \subseteq DOMAIN tokens'
           /\ \A y \in DOMAIN tokens : tokens'[y].parent = tokens[y].parent
           /\ \A y \in DOMAIN tokens' \ DOMAIN tokens : tokens'[y].parent = NoToken
  <2>1. Successors(x)' = Successors(x)
    BY <1>2, <1>4 DEF Successors
  <2>2. CASE x \in DOMAIN tokens
    BY <2>1, <2>2, BoundKept
  <2>3. CASE x \notin DOMAIN tokens
    <3>1. Successors(x)' = {}
      BY <1>1, <1>2, <2>1, <2>3 DEF RotationLineage, Successors
    <3> QED  BY <1>3, <2>3, <3>1
  <2> QED  BY <2>2, <2>3
<1>5. ASSUME NEW p \in Worker, NEW n \in Name, NEW t2 \in Token,
             RefreshCommit(p, n, t2)
      PROVE  /\ IsFiniteSet(Successors(x)')
             /\ Successors(x)' # {} =>
                  Cardinality(Successors(x)') + Cardinality(Loading(x)')
                    <= Cardinality(Worker)
  <2> DEFINE t == req[p].token
  <2>1. /\ t \in DOMAIN tokens /\ t2 \notin DOMAIN tokens
        /\ DOMAIN tokens' = DOMAIN tokens \cup {t2}
        /\ \A y \in DOMAIN tokens : tokens'[y].parent = tokens[y].parent
        /\ tokens'[t2].parent = t
    <3>1. Rotates(t, t2)
      BY <1>1, <1>5, RefreshCommitRotates
    <3> QED  BY <3>1 DEF Rotates
  <2>2. CASE x = t
    <3>1. Successors(x)' = Successors(x) \cup {t2} /\ t2 \notin Successors(x)
      BY <2>1, <2>2 DEF Successors
    <3>2. p \in Loading(x) /\ Loading(x)' = Loading(x) \ {p}
      BY <1>1, <1>5, <2>2 DEF Loading, RefreshCommit, Done, Idle, Consistent, TypeOK
    <3>3. IsFiniteSet(Successors(x)) /\ Cardinality(Successors(x)) \in Nat
      BY <2>1, <2>2, FS_CardinalityType DEF SuccessorsFromLoads
    <3>4. /\ IsFiniteSet(Successors(x)')
          /\ Cardinality(Successors(x)') = Cardinality(Successors(x)) + 1
      BY <3>1, <3>3, FS_AddElement
    <3>5. Cardinality(Loading(x)') = Cardinality(Loading(x)) - 1
      BY <3>2, LoadingFinite, FS_RemoveElement
    <3>6. CASE Successors(x) = {}
      <4>1. Cardinality(Successors(x)) = 0
        BY <3>6, FS_EmptySet
      <4> QED  BY <3>4, <3>5, <4>1, LoadingFinite
    <3>7. CASE Successors(x) # {}
      <4>1. Cardinality(Successors(x)) + Cardinality(Loading(x)) <= Cardinality(Worker)
        BY <2>1, <2>2, <3>7 DEF SuccessorsFromLoads
      <4> QED  BY <3>3, <3>4, <3>5, <4>1, LoadingFinite
    <3> QED  BY <3>6, <3>7
  <2>3. CASE x # t /\ x # t2
    <3>1. x \in DOMAIN tokens /\ Successors(x)' = Successors(x)
      BY <2>1, <2>3 DEF Successors
    <3> QED  BY <3>1, BoundKept
  <2>4. CASE x = t2
    <3>1. Successors(x)' = {}
      BY <1>1, <1>2, <2>1, <2>4 DEF RotationLineage, Successors
    <3> QED  BY <1>3, <2>1, <2>4, <3>1
  <2> QED  BY <2>2, <2>3, <2>4
<1> QED  BY <1>1, <1>4, <1>5, OnlyRefreshRotates

(* A token is exchanged for at most as many successors as there are        *)
(* requests in flight at once.                                             *)
THEOREM SuccessorsAreBounded == Spec => []SuccessorsBounded
<1>1. Init => SuccessorsFromLoads
  BY DEF Init, SuccessorsFromLoads
<1>2. IInv /\ SuccessorsFromLoads /\ [Next]_vars => SuccessorsFromLoads'
  BY SuccessorsStep
<1>3. ASSUME SuccessorsFromLoads PROVE SuccessorsBounded
  <2> SUFFICES ASSUME NEW t \in DOMAIN tokens
               PROVE  Cardinality(Successors(t)) <= Cardinality(Worker)
    BY DEF SuccessorsBounded
  <2>1. IsFiniteSet(Successors(t)) /\ Cardinality(Successors(t)) \in Nat
    BY <1>3, FS_CardinalityType DEF SuccessorsFromLoads
  <2>2. CASE Successors(t) = {}
    BY <2>2, LoadingFinite, FS_EmptySet
  <2>3. CASE Successors(t) # {}
    BY <1>3, <2>1, <2>3, LoadingFinite DEF SuccessorsFromLoads
  <2> QED  BY <2>2, <2>3
<1> QED  BY <1>1, <1>2, <1>3, Inductive, PTL DEF Spec

(* Where requests do not overlap no token is exchanged twice: only two     *)
(* refreshes in flight can break RotatedOnce.                              *)
THEOREM SerialRotatedOnce ==
  ASSUME NEW p \in Worker, Worker = {p}
  PROVE  Spec => []RotatedOnce
<1>1. ASSUME IInv, SuccessorsFromLoads PROVE RotatedOnce
  <2> SUFFICES ASSUME NEW t1 \in DOMAIN tokens, NEW t2 \in DOMAIN tokens,
                      tokens[t1].parent = tokens[t2].parent,
                      tokens[t1].parent # NoToken
               PROVE  t1 = t2
    BY DEF RotatedOnce
  <2> DEFINE t == tokens[t1].parent
  <2>1. t \in DOMAIN tokens
    BY <1>1 DEF IInv, RotationLineage
  <2>2. t1 \in Successors(t) /\ t2 \in Successors(t)
    BY DEF Successors
  <2>3. IsFiniteSet(Successors(t)) /\ Cardinality(Successors(t)) \in Nat
    BY <1>1, <2>1, FS_CardinalityType DEF SuccessorsFromLoads
  <2>4. Cardinality(Successors(t)) + Cardinality(Loading(t)) <= 1
    BY <1>1, <2>1, <2>2, FS_Singleton DEF SuccessorsFromLoads
  <2>5. Cardinality(Successors(t)) # 0
    BY <2>2, <2>3, FS_EmptySet
  <2>6. Cardinality(Successors(t)) = 1
    BY <2>3, <2>4, <2>5, LoadingFinite
  <2>7. PICK x : Successors(t) = {x}
    BY <2>3, <2>6, FS_Singleton
  <2> QED  BY <2>2, <2>7
<1>2. Init => SuccessorsFromLoads
  BY DEF Init, SuccessorsFromLoads
<1>3. IInv /\ SuccessorsFromLoads /\ [Next]_vars => SuccessorsFromLoads'
  BY SuccessorsStep
<1> QED  BY <1>1, <1>2, <1>3, Inductive, PTL DEF Spec

(***************************************************************************)
(* How large a batch can get.                                              *)
(***************************************************************************)

FiniteSessions == IsFiniteSet(DOMAIN sessions)

LEMMA FiniteStep ==
  ASSUME IInv, FiniteSessions, [Next]_vars
  PROVE  FiniteSessions'
<1>1. ASSUME NEW u, NEW c, NEW s, NEW t, Opens(u, c, s, t)
      PROVE  FiniteSessions'
  BY <1>1, FS_AddElement DEF Opens, FiniteSessions
<1>2. CASE \/ Quiet
           \/ \E t, t2 \in Token : Rotates(t, t2)
           \/ \E S : Closes(S)
  <2>1. DOMAIN sessions' = DOMAIN sessions
    BY <1>2 DEF Quiet, Rotates, Closes
  <2> QED  BY <2>1 DEF FiniteSessions
<1>3. Consistent /\ ExchangeSawRow
  BY DEF IInv
<1> QED  BY <1>1, <1>2, <1>3, StepKinds

\* The targets of a batch are chosen among one user's open sessions.
LEMMA ChosenBatchFits ==
  ASSUME IInv, FiniteSessions, NEW k \in Nat, 37 * k - 1 <= TargetIdWidth,
         \A u \in User : Cardinality(ActiveSessions(u)) <= k,
         NEW p \in Worker, req[p].op = "seed"
  PROVE  FitsTargetId(Targets(req[p]))
<1> DEFINE u == sessions[req[p].seed].user
<1>1. u \in User
  BY TableTypes DEF IInv, Consistent, References
<1>2. IsFiniteSet(ActiveSessions(u)) /\ Cardinality(ActiveSessions(u)) \in Nat
  <2>1. ActiveSessions(u) \in SUBSET DOMAIN sessions
    BY DEF ActiveSessions
  <2> QED  BY <2>1, FS_Subset, FS_CardinalityType DEF FiniteSessions
<1>3. Targets(req[p]) \in SUBSET ActiveSessions(u)
  BY DEF Targets
<1>4. /\ Cardinality(Targets(req[p])) <= Cardinality(ActiveSessions(u))
      /\ Cardinality(Targets(req[p])) \in Nat
  BY <1>2, <1>3, FS_Subset, FS_CardinalityType
<1>5. Cardinality(Targets(req[p])) <= k
  BY <1>1, <1>2, <1>4
<1> QED  BY <1>4, <1>5, WidthAssumption DEF FitsTargetId

(* While no user has more open sessions at once than have their ids fit    *)
(* the column, every batch can be recorded: BatchIsRecordable fails only   *)
(* for a user who is signed in on more devices than that.                  *)
THEOREM SmallBatchesFit ==
  ASSUME NEW k \in Nat, 37 * k - 1 <= TargetIdWidth
  PROVE  Spec /\ [](\A u \in User : Cardinality(ActiveSessions(u)) <= k)
           => []BatchIsRecordable
<1> DEFINE Few == \A u \in User : Cardinality(ActiveSessions(u)) <= k
<1>1. Init => FiniteSessions /\ BatchIsRecordable
  BY FS_EmptySet DEF Init, FiniteSessions, BatchIsRecordable, Idle
<1>2. IInv /\ FiniteSessions /\ [Next]_vars => FiniteSessions'
  BY FiniteStep
<1>3. ASSUME IInv, FiniteSessions, Few, BatchIsRecordable, [Next]_vars
      PROVE  BatchIsRecordable'
  <2> SUFFICES ASSUME NEW p \in Worker, req'[p].op = "revoke"
               PROVE  FitsTargetId(req'[p].targets)
    BY DEF BatchIsRecordable, FitsTargetId
  <2>1. CASE req'[p] = req[p]
    BY <1>3, <2>1 DEF BatchIsRecordable
  <2>2. CASE RevokeTargets(p) /\ Targets(req[p]) # {}
    <3>1. req[p].op = "seed" /\ req'[p].targets = Targets(req[p])
      BY <1>3, <2>2 DEF RevokeTargets, Read, IInv, Consistent, TypeOK
    <3> QED  BY <1>3, <3>1, ChosenBatchFits
  <2>3. TypeOK
    BY <1>3 DEF IInv, Consistent
  <2>4. ASSUME NEW r, Read(p, r) PROVE req'[p] = r
    BY <2>3, <2>4 DEF Read, TypeOK
  <2>5. req'[p] # Idle
    BY DEF Idle
  <2>6. ASSUME NEW x \in Token, RefreshLoad(p, x) \/ LogoutLoad(p, x)
        PROVE  FALSE
    BY <2>4, <2>6 DEF RefreshLoad, LogoutLoad
  <2>7. ASSUME NEW seed \in Session, NEW current \in Session,
               RevokeSeed(p, seed, current)
        PROVE  FALSE
    BY <2>4, <2>7 DEF RevokeSeed
  <2>8. ASSUME NEW u \in User, NEW c \in Client,
               ExchangeLoad(p, u, c) \/ UnconsentLoad(p, u, c)
        PROVE  FALSE
    BY <2>4, <2>8 DEF ExchangeLoad, UnconsentLoad
  <2>9. CASE UNCHANGED vars
    BY <2>1, <2>9 DEF vars
  <2> QED
    BY <1>3, <2>1, <2>2, <2>3, <2>5, <2>6, <2>7, <2>8, <2>9, RequestMoves
<1> QED
  <2> HIDE DEF Few
  <2>1. Spec /\ []Few => []BatchIsRecordable
    BY <1>1, <1>2, <1>3, Inductive, PTL DEF Spec
  <2> QED  BY <2>1 DEF Few

(***************************************************************************)
(* Refinement: the tables implement the token ledger.                      *)
(***************************************************************************)

\* The ledger the tables stand for.
Owner == [t \in DOMAIN tokens |-> tokens[t].session]
Spendable == {t \in DOMAIN tokens : Usable(t)}
Closed == {s \in DOMAIN sessions : sessions[s].revoked}

LEMMA QuietLapses ==
  ASSUME IInv, Quiet
  PROVE  \E T \in SUBSET Token : Ledger!Lapse(T)
<1> DEFINE T == Spendable \ Spendable'
<1>1. T \in SUBSET Token
  BY DEF IInv, Consistent, TypeOK, Spendable
<1>2. Spendable' \subseteq Spendable
  BY QuietUsable DEF Spendable, Quiet
<1>3. Spendable' = Spendable \ T
  BY <1>2
<1>4. Owner' = Owner /\ Closed' = Closed
  BY DEF Owner, Closed, Quiet
<1>5. Ledger!Lapse(T)
  BY <1>3, <1>4 DEF Ledger!Lapse, Owner, Closed, Spendable
<1> QED  BY <1>1, <1>5

LEMMA OpensGrants ==
  ASSUME IInv, NEW u, NEW c, NEW s, NEW t, Opens(u, c, s, t)
  PROVE  Ledger!Grant(s, t)
<1> USE TableTypes DEF IInv
<1>1. s \notin Closed /\ t \notin DOMAIN Owner
  BY DEF Opens, Closed, Owner
<1>2. \A x \in DOMAIN Owner : Owner[x] # s
  BY DEF Opens, Owner
<1>3. Owner' = [x \in DOMAIN Owner \cup {t} |-> IF x = t THEN s ELSE Owner[x]]
  BY DEF Opens, Owner
<1>4. Spendable' = Spendable \cup {t}
  BY OpensUsable DEF Opens, Spendable
<1>5. Closed' = Closed
  BY DEF Opens, Closed
<1> QED
  BY <1>1, <1>2, <1>3, <1>4, <1>5
  DEF Ledger!Grant, Ledger!Issued, Owner, Spendable, Closed

LEMMA RotatesRotate ==
  ASSUME IInv, NEW t, NEW t2, Rotates(t, t2)
  PROVE  Ledger!Rotate(t, t2)
<1> USE TableTypes DEF IInv
<1>1. t \in DOMAIN Owner /\ t2 \notin DOMAIN Owner
  BY DEF Rotates, Owner
<1>2. Owner' = [x \in DOMAIN Owner \cup {t2} |->
                  IF x = t2 THEN Owner[t] ELSE Owner[x]]
  BY DEF Rotates, Owner
<1>3. tokens[t].session \in DOMAIN sessions /\ Owner[t] = tokens[t].session
  BY DEF Rotates, Owner
<1>4. Owner[t] \in Closed <=> sessions[tokens[t].session].revoked
  BY <1>3 DEF Closed
<1>5. Spendable' = (Spendable \ {t}) \cup
                   (IF Owner[t] \in Closed THEN {} ELSE {t2})
  <2>1. DOMAIN tokens' = DOMAIN tokens \cup {t2} /\ t2 \notin DOMAIN tokens
    BY DEF Rotates
  <2> QED  BY <1>4, <2>1, RotatesUsable DEF Spendable
<1>6. Closed' = Closed
  BY DEF Rotates, Closed
<1> QED
  BY <1>1, <1>2, <1>5, <1>6
  DEF Ledger!Rotate, Ledger!Issued, Owner, Spendable, Closed

LEMMA ClosesClose ==
  ASSUME IInv, NEW S, Closes(S)
  PROVE  \E C \in SUBSET Session : Ledger!Close(C)
<1>1. PICK C \in SUBSET Session : C = S \cap DOMAIN sessions
  BY DEF IInv, Consistent, TypeOK
<1>2. Owner' = Owner
  BY DEF Closes, Owner
<1>3. Closed' = Closed \cup C
  <2>1. /\ DOMAIN sessions' = DOMAIN sessions
        /\ \A x \in DOMAIN sessions :
             sessions'[x].revoked = (sessions[x].revoked \/ x \in S)
    BY DEF Closes
  <2> QED  BY <1>1, <2>1 DEF Closed
<1>4. Spendable' = {x \in Spendable : Owner[x] \notin C}
  <2>1. DOMAIN tokens' = DOMAIN tokens
    BY DEF Closes
  <2>2. \A x \in DOMAIN tokens :
          Usable(x)' <=> Usable(x) /\ tokens[x].session \notin S
    BY ClosesUsable
  <2>3. \A x \in DOMAIN tokens :
          Owner[x] = tokens[x].session /\ tokens[x].session \in DOMAIN sessions
    BY TableTypes DEF Owner, IInv
  <2> QED  BY <1>1, <2>1, <2>2, <2>3 DEF Spendable
<1>5. Ledger!Close(C)
  BY <1>2, <1>3, <1>4 DEF Ledger!Close, Owner, Spendable, Closed
<1> QED  BY <1>5

(* Every step of the tables is a step of the ledger or leaves it alone: a  *)
(* token is owned by one session for good and spendable without a gap.     *)
THEOREM LedgerImplemented == Spec => ImplementsLedger
<1>1. Init => Ledger!LedgerInit
  <2> SUFFICES ASSUME Init PROVE Ledger!LedgerInit
    OBVIOUS
  <2>1. DOMAIN sessions = {} /\ DOMAIN tokens = {}
    BY DEF Init
  <2> QED  BY <2>1 DEF Ledger!LedgerInit
<1>2. ASSUME IInv, [Next]_vars
      PROVE  Ledger!LedgerNext
  <2>1. CASE Quiet
    BY <1>2, <2>1, QuietLapses DEF Ledger!LedgerNext
  <2>2. ASSUME NEW u \in User, NEW c \in Client \cup {NoClient},
               NEW s \in Session, NEW t \in Token, Opens(u, c, s, t)
        PROVE  Ledger!LedgerNext
    BY <1>2, <2>2, OpensGrants DEF Ledger!LedgerNext
  <2>3. ASSUME NEW t \in Token, NEW t2 \in Token, Rotates(t, t2)
        PROVE  Ledger!LedgerNext
    BY <1>2, <2>3, RotatesRotate DEF Ledger!LedgerNext
  <2>4. ASSUME NEW S, Closes(S)
        PROVE  Ledger!LedgerNext
    BY <1>2, <2>4, ClosesClose DEF Ledger!LedgerNext
  <2>5. Consistent /\ ExchangeSawRow
    BY <1>2 DEF IInv
  <2> QED  BY <1>2, <2>1, <2>2, <2>3, <2>4, <2>5, StepKinds
<1>3. IInv /\ [Next]_vars => [Ledger!LedgerNext]_(Ledger!ledgerVars)
  BY <1>2
<1> QED
  BY <1>1, <1>3, Inductive, PTL DEF Spec, ImplementsLedger, Ledger!LedgerSpec
===============================================================================
