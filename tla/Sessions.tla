------------------------------- MODULE Sessions -------------------------------
(***************************************************************************)
(* Sessions, refresh tokens and OAuth consents of mini-auth: the rows of   *)
(* auth_sessions, refresh_tokens, oauth_consents and audit_logs, and every *)
(* request that writes them (app/services/auth_service.py,                 *)
(* consent_service.py, security_service.py, oidc_service.py).              *)
(*                                                                         *)
(* A request runs in one READ COMMITTED transaction.  It first SELECTs     *)
(* what it decides on, without a row lock, and later UPDATEs, INSERTs and  *)
(* commits.  Every `await` between the two lets other requests in, so each *)
(* handler is a load step, which keeps what was read in req[p], and a      *)
(* commit step, which acts on that possibly stale copy.  The writes of one *)
(* transaction are a single step: each writer of a session's tokens first  *)
(* updates the session's row, and each issuer for an application first     *)
(* writes the consent's row, so the row locks serialise them up to the     *)
(* commit.                                                                 *)
(***************************************************************************)
EXTENDS Naturals, FiniteSets

CONSTANTS
  Session,    \* ids of auth_sessions rows
  Token,      \* ids of refresh_tokens rows
  User,       \* users.id
  Client,     \* client ids of OAuth applications
  Name,       \* display names a session can have on the security page
  Worker,     \* requests in flight at the same time
  NoToken,    \* rotated_from_id IS NULL
  NoClient,   \* client_id IS NULL: a first-party login
  TTL,        \* settings.jwt_refresh_expire_days, in ticks
  TargetIdWidth,  \* width of the column audit_logs.target_id
  Horizon     \* bound on the clock

ASSUME TTLAssumption == TTL \in Nat \ {0}
ASSUME WidthAssumption == TargetIdWidth \in Nat
ASSUME HorizonAssumption == Horizon \in Nat
ASSUME NoTokenAssumption == NoToken \notin Token
ASSUME NoClientAssumption == NoClient \notin Client
ASSUME WorkerAssumption == IsFiniteSet(Worker)

VARIABLES
  now,        \* the clock every request reads
  sessions,   \* auth_sessions: id -> row, defined on the ids inserted so far
  tokens,     \* refresh_tokens: id -> row, likewise
  consents,   \* oauth_consents: (user, client) -> state of the row
  audit,      \* audit_logs: the rows about sessions and consents
  req         \* what each worker's request has read and not yet acted upon

vars == <<now, sessions, tokens, consents, audit, req>>

SessionRow == [user : User, client : Client \cup {NoClient}, name : Name,
               revoked : BOOLEAN, exp : Nat]

TokenRow == [session : Session, parent : Token \cup {NoToken},
             revoked : BOOLEAN, exp : Nat]

ConsentState == {"none", "active", "revoked"}

AuditRow ==
  [action : {"login", "logout", "session.revoke"}, user : User,
   targets : SUBSET Session]
  \cup [action : {"consent.revoke"}, user : User, client : Client]

Idle == [op |-> "idle"]

Request ==
  {Idle}
  \cup [op : {"refresh", "logout"}, token : Token]
  \cup [op : {"seed"}, seed : Session, name : Name, current : Session]
  \cup [op : {"revoke"}, user : User, targets : SUBSET Session]
  \cup [op : {"exchange"}, user : User, client : Client, seen : ConsentState]
  \cup [op : {"unconsent"}, user : User, client : Client]

(* TypeOK: the tables hold rows of their schema under inserted ids, and    *)
(* every worker is idle or holds what one handler reads (models/user.py).  *)
TypeOK ==
  /\ now \in Nat
  /\ DOMAIN sessions \subseteq Session
  /\ sessions \in [DOMAIN sessions -> SessionRow]
  /\ DOMAIN tokens \subseteq Token
  /\ tokens \in [DOMAIN tokens -> TokenRow]
  /\ consents \in [User \X Client -> ConsentState]
  /\ audit \subseteq AuditRow
  /\ req \in [Worker -> Request]

Init ==
  /\ now = 0
  /\ sessions = [s \in {} |-> 0]
  /\ tokens = [t \in {} |-> 0]
  /\ consents = [uc \in User \X Client |-> "none"]
  /\ audit = {}
  /\ req = [p \in Worker |-> Idle]

-----------------------------------------------------------------------------
(* Reading the tables.                                                     *)

Insert(table, id, row) ==
  [x \in DOMAIN table \cup {id} |-> IF x = id THEN row ELSE table[x]]

Fresh(table, id) == id \notin DOMAIN table

\* auth_sessions.revoked_at IS NULL AND expires_at > now
Open(s) == ~sessions[s].revoked /\ sessions[s].exp > now

\* _load_refresh_bundle finds the token's row and its session's.
Usable(t) ==
  /\ t \in DOMAIN tokens
  /\ ~tokens[t].revoked
  /\ tokens[t].exp > now
  /\ Open(tokens[t].session)

\* _load_active_sessions
ActiveSessions(u) == {s \in DOMAIN sessions : sessions[s].user = u /\ Open(s)}

\* Variant of AppSessions: skips the expired ones, as ActiveSessions does.
OpenAppSessions(u, c) ==
  {s \in ActiveSessions(u) : sessions[s].client = c}

\* The unrevoked sessions of one application, expired or not.
AppSessions(u, c) ==
  {s \in DOMAIN sessions :
     sessions[s].user = u /\ sessions[s].client = c /\ ~sessions[s].revoked}

(* Writing the tables.                                                     *)

\* Revoke the sessions in S and every token of theirs.
CloseSessions(S) ==
  /\ sessions' = [s \in DOMAIN sessions |->
                    IF s \in S THEN [sessions[s] EXCEPT !.revoked = TRUE]
                    ELSE sessions[s]]
  /\ tokens' = [t \in DOMAIN tokens |->
                  IF tokens[t].session \in S
                  THEN [tokens[t] EXCEPT !.revoked = TRUE] ELSE tokens[t]]

\* Variant of TouchSession: the session keeps the expiry of its login.
TouchSessionKeepingExpiry(s, n) ==
  sessions' = [sessions EXCEPT ![s].name = n]

\* Variant of TouchSession: the whole row is written back, revoked_at too.
TouchSessionReviving(s, n) ==
  sessions' = [sessions EXCEPT ![s].name = n, ![s].exp = now + TTL,
                               ![s].revoked = FALSE]

\* The session slides with its newest token, under its new display name.
TouchSession(s, n) ==
  sessions' = [sessions EXCEPT ![s].name = n, ![s].exp = now + TTL]

Successor(t) ==
  [session |-> tokens[t].session, parent |-> t, revoked |-> FALSE,
   exp |-> now + TTL]

\* Variant of RotateToken: the stored token is left unrevoked.
RotateTokenKeepingOld(t, t2) == tokens' = Insert(tokens, t2, Successor(t))

\* Variant of RotateToken: rotated_from_id keeps its default.
RotateTokenWithoutParent(t, t2) ==
  tokens' = Insert([tokens EXCEPT ![t].revoked = TRUE], t2,
                   [Successor(t) EXCEPT !.parent = NoToken])

\* The stored token is revoked and t2 issued in its place.
RotateToken(t, t2) ==
  tokens' = Insert([tokens EXCEPT ![t].revoked = TRUE], t2, Successor(t))

\* Variant of Audited: the row of a batch names none of its sessions.
AuditedWithoutTargets(action, u, S) ==
  audit' = audit \cup {[action |-> action, user |-> u, targets |->
                          IF action = "session.revoke" THEN {} ELSE S]}

\* record_audit with the sessions' ids as target_id.
Audited(action, u, S) ==
  audit' = audit \cup {[action |-> action, user |-> u, targets |-> S]}

\* ",".join of the UUIDs in S, 36 characters each, fits the column.
FitsTargetId(S) == 37 * Cardinality(S) - 1 <= TargetIdWidth

\* A new session with its first refresh token, and the login's audit row.
IssueTokens(u, c, n, s, t) ==
  /\ Fresh(sessions, s)
  /\ Fresh(tokens, t)
  /\ sessions' = Insert(sessions, s,
       [user |-> u, client |-> c, name |-> n, revoked |-> FALSE,
        exp |-> now + TTL])
  /\ tokens' = Insert(tokens, t,
       [session |-> s, parent |-> NoToken, revoked |-> FALSE,
        exp |-> now + TTL])
  /\ Audited("login", u, {s})

Read(p, r) == req' = [req EXCEPT ![p] = r]
Done(p) == req' = [req EXCEPT ![p] = Idle]

-----------------------------------------------------------------------------
(* First-party logins (register, password, demo, e-mail code, GitHub,      *)
(* Google): each ends in issue_tokens without a client.                    *)

\* The whole request is one step: nothing it reads can go stale.
Login(p, u, n, s, t) ==
  /\ req[p] = Idle
  /\ IssueTokens(u, NoClient, n, s, t)
  /\ UNCHANGED <<now, consents, req>>

(* POST /api/v1/auth/refresh.                                              *)

RefreshLoad(p, t) ==
  /\ req[p] = Idle
  /\ Usable(t)
  /\ Read(p, [op |-> "refresh", token |-> t])
  /\ UNCHANGED <<now, sessions, tokens, consents, audit>>

\* The stored token is revoked and its successor inserted whatever has been
\* committed since the load.  The device label and the user agent of this
\* request may rename the session.
RefreshCommit(p, n, t2) ==
  /\ req[p].op = "refresh"
  /\ Fresh(tokens, t2)
  /\ LET t == req[p].token
         s == tokens[t].session
     IN  TouchSession(s, n) /\ RotateToken(t, t2)
  /\ Done(p)
  /\ UNCHANGED <<now, consents, audit>>

(* POST /api/v1/auth/logout.  A token whose bundle is not found is         *)
(* answered 204 as well, and nothing changes.                              *)

\* Variant of LogoutLoad: keeps the wrong half of the bundle.
LogoutLoadKeepingSession(p, t) ==
  /\ req[p] = Idle
  /\ Usable(t)
  /\ Read(p, [op |-> "logout", token |-> tokens[t].session])
  /\ UNCHANGED <<now, sessions, tokens, consents, audit>>

LogoutLoad(p, t) ==
  /\ req[p] = Idle
  /\ Usable(t)
  /\ Read(p, [op |-> "logout", token |-> t])
  /\ UNCHANGED <<now, sessions, tokens, consents, audit>>

LogoutCommit(p) ==
  /\ req[p].op = "logout"
  /\ LET s == tokens[req[p].token].session
     IN  /\ CloseSessions({s})
         /\ Audited("logout", sessions[s].user, {s})
  /\ Done(p)
  /\ UNCHANGED <<now, consents>>

-----------------------------------------------------------------------------
(* DELETE /api/v1/security/sessions/{id}: revoke every session that looks  *)
(* like the same device, except the one that asks.  The caller's access    *)
(* token is a stateless JWT: its session may be revoked by now.            *)

RevokeSeed(p, seed, current) ==
  /\ req[p] = Idle
  /\ seed \in DOMAIN sessions
  /\ current \in DOMAIN sessions \ {seed}
  /\ sessions[seed].user = sessions[current].user
  /\ ~sessions[seed].revoked
  /\ Read(p, [op |-> "seed", seed |-> seed, name |-> sessions[seed].name,
              current |-> current])
  /\ UNCHANGED <<now, sessions, tokens, consents, audit>>

\* Variant of Targets: matches on the seed's id instead of its name.
TargetsById(r) == {s \in ActiveSessions(sessions[r.seed].user) : s = r.seed}

\* The seed's row is already in the session's identity map, so its name is
\* the one first read; the other rows are read now.
Targets(r) ==
  {s \in ActiveSessions(sessions[r.seed].user) :
     /\ s # r.current
     /\ s = r.seed \/ sessions[s].name = r.name}

RevokeTargets(p) ==
  /\ req[p].op = "seed"
  /\ LET T == Targets(req[p])
     IN  IF T = {} THEN Done(p)
         ELSE Read(p, [op |-> "revoke", targets |-> T,
                       user |-> sessions[req[p].seed].user])
  /\ UNCHANGED <<now, sessions, tokens, consents, audit>>

RevokeCommit(p) ==
  /\ req[p].op = "revoke"
  /\ CloseSessions(req[p].targets)
  /\ FitsTargetId(req[p].targets)
  /\ Audited("session.revoke", req[p].user, req[p].targets)
  /\ Done(p)
  /\ UNCHANGED <<now, consents>>

-----------------------------------------------------------------------------
(* The token endpoint, for an authorization code or an approved device     *)
(* code: the consent is selected, then written, and the tokens issued.     *)

ExchangeLoad(p, u, c) ==
  /\ req[p] = Idle
  /\ Read(p, [op |-> "exchange", user |-> u, client |-> c,
              seen |-> consents[<<u, c>>]])
  /\ UNCHANGED <<now, sessions, tokens, consents, audit>>

\* A row seen revoked is reactivated and a row not seen is inserted; a row
\* seen active keeps whatever revoked_at it has when it is updated.
Upserted(seen, stored) == IF seen = "active" THEN stored ELSE "active"

\* Variant of ExchangeCommit: an insert that loses (ON CONFLICT DO NOTHING)
\* leaves the other's row and goes on to issue the tokens.
ExchangeCommitDespiteConflict(p, n, s, t) ==
  /\ req[p].op = "exchange"
  /\ LET u == req[p].user
         c == req[p].client
     IN  /\ consents' = [consents EXCEPT ![<<u, c>>] =
                           IF req[p].seen = "none" /\ @ # "none" THEN @
                           ELSE Upserted(req[p].seen, @)]
         /\ IssueTokens(u, c, n, s, t)
  /\ Done(p)
  /\ UNCHANGED now

ExchangeCommit(p, n, s, t) ==
  /\ req[p].op = "exchange"
  /\ LET u == req[p].user
         c == req[p].client
     IN  /\ req[p].seen = "none" => consents[<<u, c>>] = "none"
         /\ consents' = [consents EXCEPT ![<<u, c>>] =
                           Upserted(req[p].seen, @)]
         /\ IssueTokens(u, c, n, s, t)
  /\ Done(p)
  /\ UNCHANGED now

(* DELETE /api/v1/security/applications/{client_id}.                       *)

UnconsentLoad(p, u, c) ==
  /\ req[p] = Idle
  /\ consents[<<u, c>>] = "active"
  /\ Read(p, [op |-> "unconsent", user |-> u, client |-> c])
  /\ UNCHANGED <<now, sessions, tokens, consents, audit>>

UnconsentCommit(p) ==
  /\ req[p].op = "unconsent"
  /\ LET u == req[p].user
         c == req[p].client
     IN  /\ consents' = [consents EXCEPT ![<<u, c>>] = "revoked"]
         /\ CloseSessions(AppSessions(u, c))
         /\ audit' = audit \cup
              {[action |-> "consent.revoke", user |-> u, client |-> c]}
  /\ Done(p)
  /\ UNCHANGED now

-----------------------------------------------------------------------------
\* The transaction is rolled back: the process dies, the connection is
\* lost, the database breaks a deadlock, the consent's insert meets
\* uq_oauth_consents_user_client or the batch's ids overflow target_id.
Abort(p) ==
  /\ req[p] # Idle
  /\ Done(p)
  /\ UNCHANGED <<now, sessions, tokens, consents, audit>>

Tick ==
  /\ now < Horizon
  /\ now' = now + 1
  /\ UNCHANGED <<sessions, tokens, consents, audit, req>>

Next ==
  \/ \E p \in Worker, u \in User, n \in Name, s \in Session, t \in Token :
       Login(p, u, n, s, t)
  \/ \E p \in Worker, t \in Token : RefreshLoad(p, t)
  \/ \E p \in Worker, n \in Name, t2 \in Token : RefreshCommit(p, n, t2)
  \/ \E p \in Worker, t \in Token : LogoutLoad(p, t)
  \/ \E p \in Worker : LogoutCommit(p)
  \/ \E p \in Worker, seed, current \in Session : RevokeSeed(p, seed, current)
  \/ \E p \in Worker : RevokeTargets(p)
  \/ \E p \in Worker : RevokeCommit(p)
  \/ \E p \in Worker, u \in User, c \in Client : ExchangeLoad(p, u, c)
  \/ \E p \in Worker, n \in Name, s \in Session, t \in Token :
       ExchangeCommit(p, n, s, t)
  \/ \E p \in Worker, u \in User, c \in Client : UnconsentLoad(p, u, c)
  \/ \E p \in Worker : UnconsentCommit(p)
  \/ \E p \in Worker : Abort(p)
  \/ Tick

Spec == Init /\ [][Next]_vars

-----------------------------------------------------------------------------
(* Properties.                                                             *)

(* References: the rows a token, an audit row or a request in flight refers *)
(* to are in the tables, and a batch was chosen among its user's sessions, *)
(* however many requests committed since it was read.                      *)
References ==
  /\ \A t \in DOMAIN tokens : tokens[t].session \in DOMAIN sessions
  /\ \A a \in audit :
       a.action # "consent.revoke" => a.targets \subseteq DOMAIN sessions
  /\ \A p \in Worker :
       /\ req[p].op \in {"refresh", "logout"} => req[p].token \in DOMAIN tokens
       /\ req[p].op = "seed" => req[p].seed \in DOMAIN sessions
       /\ req[p].op = "revoke" =>
            \A s \in req[p].targets :
              s \in DOMAIN sessions /\ sessions[s].user = req[p].user

(* RotationLineage: a rotated token's parent is a revoked token of the     *)
(* same session that expires no later (issue_tokens_with_rotation), so a   *)
(* chain of rotations never crosses sessions and never has two live links. *)
RotationLineage ==
  \A t \in DOMAIN tokens :
    LET parent == tokens[t].parent
    IN  parent # NoToken =>
          /\ parent \in DOMAIN tokens
          /\ tokens[parent].session = tokens[t].session
          /\ tokens[parent].revoked
          /\ tokens[parent].exp <= tokens[t].exp

(* RotationTree: the tokens of a session are exactly those that rotation    *)
(* makes of the one it was opened with, link by link: no second root, no   *)
(* orphan and no circle (rotated_from_id, issue_tokens_with_rotation).     *)
TokensOf(s) == {t \in DOMAIN tokens : tokens[t].session = s}

RotationTree ==
  \A s \in DOMAIN sessions :
    \E root \in TokensOf(s) :
      /\ tokens[root].parent = NoToken
      /\ \A S \in SUBSET TokensOf(s) :
           /\ root \in S
           /\ \A t \in TokensOf(s) : tokens[t].parent \in S => t \in S
           => S = TokensOf(s)

(* SessionOutlivesTokens: the session's expiry covers every token's, so    *)
(* the session check of _load_refresh_bundle never cuts a token's life.    *)
SessionOutlivesTokens ==
  \A t \in DOMAIN tokens : tokens[t].exp <= sessions[tokens[t].session].exp

(* AuditCoversRevocation: the audit log explains every session: a login    *)
(* row for its start, and for a revoked one a logout or session.revoke row *)
(* that names it, or a consent.revoke row for its user and application.    *)
AuditCoversRevocation ==
  \A s \in DOMAIN sessions :
    LET u == sessions[s].user
        Names(a) == a.user = u /\ s \in a.targets
    IN  /\ \E a \in audit : a.action = "login" /\ Names(a)
        /\ sessions[s].revoked =>
             \E a \in audit :
               \/ a.action \in {"logout", "session.revoke"} /\ Names(a)
               \/ /\ a.action = "consent.revoke"
                  /\ a.user = u /\ a.client = sessions[s].client

(* AuditIsTruthful: a logout or session.revoke row names only sessions of  *)
(* the acting user, and each of them is revoked.                           *)
AuditIsTruthful ==
  \A a \in audit :
    a.action \in {"logout", "session.revoke"} =>
      \A s \in a.targets : sessions[s].user = a.user /\ sessions[s].revoked

(* AuditAgrees: the log explains how every session began and ended, and    *)
(* claims nothing of a session that is not so (record_audit is called      *)
(* before the commit of the change it describes).                          *)
AuditAgrees == AuditCoversRevocation /\ AuditIsTruthful

(* AppSessionHasConsent: an application's session is never in the tables   *)
(* without the consent's row, whichever of the concurrent exchanges wins   *)
(* the insert: upsert_oauth_consent and issue_tokens commit together.      *)
AppSessionHasConsent ==
  \A s \in DOMAIN sessions :
    sessions[s].client # NoClient =>
      consents[<<sessions[s].user, sessions[s].client>>] # "none"

(* RotatedOnce: no token is exchanged for two successors.                  *)
RotatedOnce ==
  \A t1, t2 \in DOMAIN tokens :
    tokens[t1].parent = tokens[t2].parent /\ tokens[t1].parent # NoToken
      => t1 = t2

(* SuccessorsBounded: a token is exchanged for no more successors than     *)
(* there are requests in flight at once: each needs a refresh that had     *)
(* loaded the token before the first one rotated it                        *)
(* (_load_refresh_bundle, issue_tokens_with_rotation).                     *)
Successors(t) == {x \in DOMAIN tokens : tokens[x].parent = t}

SuccessorsBounded ==
  \A t \in DOMAIN tokens : Cardinality(Successors(t)) <= Cardinality(Worker)

(* BatchIsRecordable: a batch whose targets have been chosen can be        *)
(* written to the audit log, so the request that revokes a device's        *)
(* sessions is able to commit (security_service.revoke_security_session).  *)
BatchIsRecordable ==
  \A p \in Worker : req[p].op = "revoke" => FitsTargetId(req[p].targets)

(* ImplementsLedger: the tables implement the ledger, a token being        *)
(* spendable when its refresh bundle is found.                             *)
Ledger == INSTANCE TokenLedger WITH
  owner <- [t \in DOMAIN tokens |-> tokens[t].session],
  spendable <- {t \in DOMAIN tokens : Usable(t)},
  closed <- {s \in DOMAIN sessions : sessions[s].revoked}

ImplementsLedger == Ledger!LedgerSpec
===============================================================================
