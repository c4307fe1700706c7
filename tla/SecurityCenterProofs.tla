------------------------- MODULE SecurityCenterProofs -------------------------
(***************************************************************************)
(* Proofs about SecurityCenter, for any number of sessions, tokens, users, *)
(* applications, display names and requests in flight.                     *)
(*                                                                         *)
(* Everything rests on Current: what a request has read is still true of   *)
(* the tables unless another request has overtaken it.  The rest is the    *)
(* invariant of SessionsProofs.                                            *)
(***************************************************************************)
EXTENDS SecurityCenter, SessionsProofs

\* What p has read is as it was, and its revocation takes every device that
\* the page would show under the name.
StillTrue(p) ==
  /\ req[p].op = "refresh" => ~tokens[req[p].token].revoked
  /\ req[p].op = "exchange" =>
       req[p].seen = consents[<<req[p].user, req[p].client>>]
  /\ req[p].op = "seed" =>
       /\ sessions[req[p].seed].name = req[p].name
       /\ caller[p] = {req[p].current}
  /\ req[p].op = "revoke" =>
       \A s \in req[p].targets, x \in ActiveSessions(req[p].user), cur \in caller[p] :
         sessions[x].name = sessions[s].name => x \in req[p].targets \cup {cur}

Current == \A p \in Worker \ overtaken : StillTrue(p)

-----------------------------------------------------------------------------
(* Requests and what they read.                                            *)

\* A request that goes on without being overtaken read what is still there.
LEMMA NotOvertaken ==
  ASSUME Records, NEW p \in Worker \ overtaken', req'[p] # Idle
  PROVE  /\ p \notin overtaken
         /\ req'[p] = req[p] => UNCHANGED <<sessions, tokens, consents>>
         /\ req'[p].op = "seed" => caller'[p] = {req'[p].current}
         /\ req'[p].op = "revoke" => caller'[p] = caller[p]
BY DEF Records, TablesChange

\* Time only closes sessions.
LEMMA ActiveShrink ==
  ASSUME Consistent, sessions' = sessions, now' \in {now, now + 1}, NEW u
  PROVE  ActiveSessions(u)' \subseteq ActiveSessions(u)
BY TableTypes DEF ActiveSessions, Open

LEMMA CurrentStep ==
  ASSUME IInv, Current, SecurityNext
  PROVE  Current'
<1>0. ASSUME NEW p \in Worker, req'[p] = Idle
      PROVE  StillTrue(p)'
  <2>1. req'[p].op = "idle"
    BY <1>0 DEF Idle
  <2> QED  BY <2>1 DEF StillTrue
<1> SUFFICES ASSUME NEW p \in Worker \ overtaken', req'[p] # Idle
             PROVE  StillTrue(p)'
  BY <1>0 DEF Current
<1> USE DEF IInv
<1>1. /\ Next /\ Records
      /\ TypeOK /\ req \in [Worker -> Request]
  BY DEF SecurityNext, Consistent, TypeOK
<1>2. StillTrue(p) /\ p \notin overtaken
  BY <1>1, NotOvertaken DEF Current
<1>3. ASSUME req'[p] = req[p]
      PROVE  StillTrue(p)'
  <2>1. UNCHANGED <<sessions, tokens, consents>>
    BY <1>1, <1>3, NotOvertaken
  <2>2. now' \in {now, now + 1}
    BY <1>1, StepKinds DEF Quiet, Opens, Rotates, Closes
  <2>3. \A u : ActiveSessions(u)' \subseteq ActiveSessions(u)
    BY <2>1, <2>2, ActiveShrink
  <2>4. /\ req[p].op = "seed" => caller'[p] = {req[p].current}
        /\ req[p].op = "revoke" => caller'[p] = caller[p]
    BY <1>1, <1>3, NotOvertaken
  <2> QED  BY <1>2, <1>3, <2>1, <2>3, <2>4 DEF StillTrue
<1>4. ASSUME NEW r, req' = [req EXCEPT ![p] = r]
      PROVE  req'[p] = r
  BY <1>1, <1>4
<1>5. ASSUME NEW t \in Token, RefreshLoad(p, t)
      PROVE  StillTrue(p)'
  <2> DEFINE r == [op |-> "refresh", token |-> t]
  <2>1. req'[p] = r /\ tokens' = tokens /\ ~tokens[t].revoked
    BY <1>4, <1>5 DEF RefreshLoad, Read, Usable
  <2> QED  BY <2>1 DEF StillTrue
<1>6. ASSUME NEW t \in Token, LogoutLoad(p, t)
      PROVE  StillTrue(p)'
  <2>1. req'[p] = [op |-> "logout", token |-> t]
    BY <1>4, <1>6 DEF LogoutLoad, Read
  <2> QED  BY <2>1 DEF StillTrue
<1>7. ASSUME NEW seed \in Session, NEW current \in Session, RevokeSeed(p, seed, current)
      PROVE  StillTrue(p)'
  <2>1. /\ req'[p] = [op |-> "seed", seed |-> seed, name |-> sessions[seed].name,
                      current |-> current]
        /\ sessions' = sessions
    BY <1>4, <1>7 DEF RevokeSeed, Read
  <2>2. caller'[p] = {req'[p].current}
    BY <1>1, <2>1, NotOvertaken
  <2> QED  BY <2>1, <2>2 DEF StillTrue
<1>8. ASSUME RevokeTargets(p), Targets(req[p]) # {}
      PROVE  StillTrue(p)'
  <2> DEFINE T == Targets(req[p])
  <2> DEFINE u == sessions[req[p].seed].user
  <2>1. /\ req'[p] = [op |-> "revoke", targets |-> T, user |-> u]
        /\ UNCHANGED <<now, sessions>>
        /\ req[p].op = "seed"
    BY <1>4, <1>8 DEF RevokeTargets, Read
  <2>2. /\ caller'[p] = {req[p].current}
        /\ sessions[req[p].seed].name = req[p].name
    BY <1>1, <1>2, <2>1, NotOvertaken DEF StillTrue
  <2>3. ASSUME NEW s \in T, NEW x \in ActiveSessions(u),
               sessions[x].name = sessions[s].name
        PROVE  x \in T \cup {req[p].current}
    BY <2>2, <2>3 DEF Targets
  <2>4. \A y : ActiveSessions(y)' \subseteq ActiveSessions(y)
    BY <2>1, ActiveShrink
  <2>5. req'[p].op = "revoke" /\ req'[p].targets = T /\ req'[p].user = u
    BY <2>1
  <2> HIDE DEF T, u
  <2> QED  BY <2>1, <2>2, <2>3, <2>4, <2>5 DEF StillTrue
<1>9. ASSUME NEW u \in User, NEW c \in Client, ExchangeLoad(p, u, c)
      PROVE  StillTrue(p)'
  <2>1. /\ req'[p] = [op |-> "exchange", user |-> u, client |-> c,
                      seen |-> consents[<<u, c>>]]
        /\ consents' = consents
    BY <1>4, <1>9 DEF ExchangeLoad, Read
  <2> QED  BY <2>1 DEF StillTrue
<1>10. ASSUME NEW u \in User, NEW c \in Client, UnconsentLoad(p, u, c)
       PROVE  StillTrue(p)'
  <2>1. req'[p] = [op |-> "unconsent", user |-> u, client |-> c]
    BY <1>4, <1>10 DEF UnconsentLoad, Read
  <2> QED  BY <2>1 DEF StillTrue
<1> QED
  BY <1>1, <1>3, <1>5, <1>6, <1>7, <1>8, <1>9, <1>10, RequestMoves

-----------------------------------------------------------------------------
(* Commits.                                                                *)

\* What a late request inserts is recorded as late.
LEMMA LateInserts ==
  ASSUME Records, NEW p \in overtaken, Ends(p)
  PROVE  Inserted \subseteq late'
BY DEF Records

LEMMA LateGrows == Records => late \subseteq late' /\ survivors \subseteq survivors'
BY DEF Records

\* What an exchange opens under a consent that went meanwhile is recorded.
LEMMA SurvivorOpens ==
  ASSUME Records, NEW p \in Worker, Ends(p), Undercut(p)
  PROVE  Opened \subseteq survivors'
BY DEF Records

LEMMA SuccessorStep ==
  ASSUME IInv, Current, SecondSuccessorIsLate, SecurityNext
  PROVE  SecondSuccessorIsLate'
<1>1. Next /\ Records /\ late \subseteq late'
  BY LateGrows DEF SecurityNext
<1>2. Consistent /\ ExchangeSawRow /\ RotationLineage
  BY DEF IInv
\* Only a refresh makes successors.
<1>3. ASSUME \A x \in DOMAIN tokens' \ DOMAIN tokens : tokens'[x].parent = NoToken,
             \A x \in DOMAIN tokens' \cap DOMAIN tokens :
               tokens'[x].parent = tokens[x].parent
      PROVE  SecondSuccessorIsLate'
  BY <1>1, <1>3 DEF SecondSuccessorIsLate
<1>4. ASSUME NEW p \in Worker, NEW n \in Name, NEW t2 \in Token, RefreshCommit(p, n, t2)
      PROVE  SecondSuccessorIsLate'
  <2> DEFINE t == req[p].token
  <2>1. Rotates(t, t2)
    BY <1>2, <1>4, RefreshCommitRotates
  <2>2. /\ DOMAIN tokens' = DOMAIN tokens \cup {t2} /\ t2 \notin DOMAIN tokens
        /\ \A x \in DOMAIN tokens : tokens'[x].parent = tokens[x].parent
        /\ tokens'[t2].parent = t
    BY <2>1 DEF Rotates
  <2>3. CASE p \in overtaken
    <3>1. Ends(p)
      BY <1>2, <1>4, DoneType DEF RefreshCommit, Ends, Done, Idle, Consistent, TypeOK
    <3>2. t2 \in late'
      BY <1>1, <2>2, <2>3, <3>1, LateInserts DEF Inserted
    <3> HIDE DEF t
    <3> QED  BY <1>1, <2>2, <3>2 DEF SecondSuccessorIsLate
  <2>4. CASE p \notin overtaken
    <3>1. ~tokens[t].revoked
      BY <1>4, <2>4 DEF Current, StillTrue, RefreshCommit
    <3>2. \A x \in DOMAIN tokens : tokens[x].parent # NoToken => tokens[x].parent # t
      BY <1>2, <3>1 DEF RotationLineage
    <3> HIDE DEF t
    <3> QED  BY <1>1, <2>2, <3>2 DEF SecondSuccessorIsLate
  <2> QED  BY <2>3, <2>4
<1> QED  BY <1>1, <1>2, <1>3, <1>4, OnlyRefreshRotates

LEMMA ListedStep ==
  ASSUME IInv, IInv', ApplicationIsListed, SecurityNext
  PROVE  ApplicationIsListed'
<1>1. Next /\ Records /\ survivors \subseteq survivors'
  BY LateGrows DEF SecurityNext
<1>2. Consistent /\ ExchangeSawRow /\ TypeOK
  BY DEF IInv, Consistent
<1>3. ASSUME \A y \in DOMAIN sessions' :
               /\ sessions'[y].client # NoClient /\ ~sessions'[y].revoked
               /\ y \notin DOMAIN sessions
               => consents'[<<sessions'[y].user, sessions'[y].client>>] = "active",
             \A y \in DOMAIN sessions' \cap DOMAIN sessions :
               /\ sessions'[y].user = sessions[y].user
               /\ sessions'[y].client = sessions[y].client
               /\ ~sessions'[y].revoked => ~sessions[y].revoked,
             consents' = consents
      PROVE  ApplicationIsListed'
  <2> SUFFICES ASSUME NEW y \in DOMAIN sessions', sessions'[y].client # NoClient,
                      ~sessions'[y].revoked
               PROVE  LET x == sessions'[y].user
                          k == sessions'[y].client
                      IN  \/ k \in Client /\ consents'[<<x, k>>] = "active"
                          \/ y \in survivors' /\ consents'[<<x, k>>] = "revoked"
    BY DEF ApplicationIsListed, Applications
  <2>1. CASE y \in DOMAIN sessions
    BY <1>1, <1>3, <2>1 DEF ApplicationIsListed, Applications
  <2>2. CASE y \notin DOMAIN sessions
    <3>1. sessions'[y].client \in Client
      <4>1. Consistent'
        BY DEF IInv
      <4> QED  BY <4>1 DEF Consistent, TypeOK, SessionRow
    <3> QED  BY <1>3, <2>2, <3>1
  <2> QED  BY <2>1, <2>2
<1>4. ASSUME NEW p \in Worker, NEW n \in Name, NEW t2 \in Token, RefreshCommit(p, n, t2)
      PROVE  ApplicationIsListed'
  <2>1. Rotates(req[p].token, t2)
    BY <1>2, <1>4, RefreshCommitRotates
  <2> QED  BY <1>3, <2>1 DEF Rotates
<1>5. ASSUME NEW u \in User, NEW n \in Name, NEW s \in Session, NEW t \in Token,
             IssueTokens(u, NoClient, n, s, t), UNCHANGED <<now, consents>>
      PROVE  ApplicationIsListed'
  <2>1. Opens(u, NoClient, s, t)
    BY <1>2, <1>5, IssueTokensOpens
  <2> QED  BY <1>3, <1>5, <2>1 DEF Opens
<1>6. ASSUME NEW S, CloseSessions(S), consents' = consents
      PROVE  ApplicationIsListed'
  BY <1>2, <1>3, <1>6, CloseSessionsType
<1>7. ASSUME UNCHANGED <<sessions, consents>>
      PROVE  ApplicationIsListed'
  BY <1>3, <1>7
\* An exchange leaves the consent active unless it had read it so.
<1>8. ASSUME NEW p \in Worker, NEW n \in Name, NEW s \in Session, NEW t \in Token,
             ExchangeCommit(p, n, s, t)
      PROVE  ApplicationIsListed'
  <2> DEFINE u == req[p].user
             c == req[p].client
  <2>1. u \in User /\ c \in Client
    BY <1>2, <1>8, RequestFields DEF ExchangeCommit, TypeOK
  <2>2. Opens(u, c, s, t)
    BY <1>2, <1>8, <2>1, IssueTokensOpens DEF ExchangeCommit
  <2>3. /\ consents \in [User \X Client -> ConsentState]
        /\ consents' = [consents EXCEPT ![<<u, c>>] =
                          Upserted(req[p].seen, consents[<<u, c>>])]
    BY <1>2, <1>8 DEF ExchangeCommit, TypeOK
  <2>4. /\ \A x \in User, y \in Client :
             consents'[<<x, y>>] = consents[<<x, y>>] \/ consents'[<<x, y>>] = "active"
        /\ consents'[<<u, c>>] = Upserted(req[p].seen, consents[<<u, c>>])
    BY <2>1, <2>3 DEF Upserted
  <2> SUFFICES ASSUME NEW y \in DOMAIN sessions', sessions'[y].client # NoClient,
                      ~sessions'[y].revoked
               PROVE  LET x == sessions'[y].user
                          k == sessions'[y].client
                      IN  \/ k \in Client /\ consents'[<<x, k>>] = "active"
                          \/ y \in survivors' /\ consents'[<<x, k>>] = "revoked"
    BY DEF ApplicationIsListed, Applications
  <2>5. CASE y \in DOMAIN sessions
    <3>1. sessions'[y] = sessions[y]
      BY <2>2, <2>5 DEF Opens
    <3>2. sessions[y].user \in User /\ sessions[y].client \in Client
      BY <1>2, <2>5, <3>1, TableTypes
    <3> HIDE DEF u, c
    <3> QED  BY <1>1, <2>4, <2>5, <3>1, <3>2 DEF ApplicationIsListed, Applications
  <2>6. CASE y \notin DOMAIN sessions
    <3>1. y = s /\ sessions'[y].user = u /\ sessions'[y].client = c
      BY <2>2, <2>6 DEF Opens
    <3>2. CASE req[p].seen = "active" /\ consents[<<u, c>>] # "active"
      <4>1. Ends(p)
        BY <1>2, <1>8, DoneType DEF ExchangeCommit, Ends, Done, Idle, TypeOK
      <4>2. Undercut(p)
        BY <1>8, <3>2 DEF Undercut, ExchangeCommit
      <4>3. y \in survivors'
        BY <1>1, <2>6, <4>1, <4>2, SurvivorOpens DEF Opened
      <4>4. consents[<<u, c>>] # "none"
        BY <1>2, <1>8, <3>2 DEF ExchangeSawRow, ExchangeCommit
      <4>5. consents'[<<u, c>>] = "revoked"
        BY <2>1, <2>3, <2>4, <3>2, <4>4 DEF Upserted, ConsentState
      <4> QED  BY <3>1, <4>3, <4>5
    <3>3. CASE ~(req[p].seen = "active" /\ consents[<<u, c>>] # "active")
      BY <2>1, <2>4, <3>1, <3>3 DEF Upserted
    <3> QED  BY <3>2, <3>3
  <2> QED  BY <2>5, <2>6
\* A revocation ends every session that would be left without its consent.
<1>9. ASSUME NEW p \in Worker, UnconsentCommit(p)
      PROVE  ApplicationIsListed'
  <2> DEFINE u == req[p].user
             c == req[p].client
  <2>1. /\ CloseSessions(AppSessions(u, c))
        /\ consents' = [consents EXCEPT ![<<u, c>>] = "revoked"]
        /\ consents \in [User \X Client -> ConsentState]
    BY <1>2, <1>9 DEF UnconsentCommit, TypeOK
  <2> HIDE DEF u, c
  <2> SUFFICES ASSUME NEW y \in DOMAIN sessions', sessions'[y].client # NoClient,
                      ~sessions'[y].revoked
               PROVE  LET x == sessions'[y].user
                          k == sessions'[y].client
                      IN  \/ k \in Client /\ consents'[<<x, k>>] = "active"
                          \/ y \in survivors' /\ consents'[<<x, k>>] = "revoked"
    BY DEF ApplicationIsListed, Applications
  <2>2. /\ y \in DOMAIN sessions
        /\ sessions'[y].user = sessions[y].user
        /\ sessions'[y].client = sessions[y].client
        /\ ~sessions[y].revoked /\ y \notin AppSessions(u, c)
    BY <1>2, <2>1, CloseSessionsType
  <2>3. /\ sessions[y].user \in User /\ sessions[y].client \in Client
        /\ ~(sessions[y].user = u /\ sessions[y].client = c)
    BY <1>2, <2>2, TableTypes DEF AppSessions
  <2>4. consents'[<<sessions[y].user, sessions[y].client>>]
          = consents[<<sessions[y].user, sessions[y].client>>]
    BY <2>1, <2>3
  <2> QED  BY <1>1, <2>2, <2>3, <2>4 DEF ApplicationIsListed, Applications
<1> QED
  BY <1>1, <1>4, <1>5, <1>6, <1>7, <1>8, <1>9, TableMoves

\* A revocation that was not overtaken leaves nothing by the name but the
\* caller's own session.
LEMMA RevokeEmptiesName ==
  ASSUME IInv, Current, NEW p \in Worker \ overtaken, RevokeCommit(p),
         NEW u \in User, u = req[p].user,
         NEW n, NEW s \in req[p].targets, sessions[s].name = n,
         NEW current \in caller[p],
         NEW x, x \in ActiveSessions(u)', sessions'[x].name = n
  PROVE  x = current
<1> DEFINE S == req[p].targets
<1>1. Consistent /\ TypeOK
  BY DEF IInv, Consistent
<1>2. CloseSessions(S) /\ now' = now /\ req[p].op = "revoke"
  BY DEF RevokeCommit
<1>3. \A y \in ActiveSessions(u), cur \in caller[p] :
        sessions[y].name = sessions[s].name => y \in S \cup {cur}
  BY <1>2 DEF Current, StillTrue
<1> HIDE DEF S
<1>4. /\ DOMAIN sessions' = DOMAIN sessions
      /\ \A y \in DOMAIN sessions :
           sessions'[y].revoked = (sessions[y].revoked \/ y \in S)
  BY <1>1, <1>2, CloseSessionsType
<1>5. /\ x \in DOMAIN sessions' /\ sessions'[x].user = u
      /\ ~sessions'[x].revoked /\ sessions'[x].exp > now'
  BY DEF ActiveSessions, Open
<1>6. x \in DOMAIN sessions /\ x \notin S /\ ~sessions[x].revoked
  BY <1>4, <1>5
<1>7. sessions'[x] = sessions[x]
  BY <1>2, <1>6 DEF CloseSessions
<1>8. x \in ActiveSessions(u)
  BY <1>2, <1>5, <1>6, <1>7 DEF ActiveSessions, Open
<1> QED  BY <1>3, <1>6, <1>7, <1>8

-----------------------------------------------------------------------------
(* The inductive invariant and the theorems.                               *)

SecurityInv == IInv /\ Current /\ ApplicationIsListed /\ SecondSuccessorIsLate

\* The page and the history change nothing of the tables' specification.
LEMMA SecurityIsSessions == SecuritySpec => []IInv
<1>1. SecurityInit => Init
  BY DEF SecurityInit
<1>2. [SecurityNext]_securityVars => [Next]_vars
  BY DEF SecurityNext, securityVars
<1>3. SecuritySpec => Spec
  BY <1>1, <1>2, PTL DEF SecuritySpec, Spec
<1> QED  BY <1>3, Inductive

LEMMA InitSecurity == SecurityInit => SecurityInv
<1> SUFFICES ASSUME SecurityInit PROVE SecurityInv
  OBVIOUS
<1>1. Init
  BY DEF SecurityInit
<1>2. IInv
  BY <1>1, InitIInv
<1>3. \A p \in Worker : req[p].op = "idle"
  BY <1>1 DEF Init, Idle
<1>4. Current
  BY <1>3 DEF Current, StillTrue
<1>5. DOMAIN sessions = {} /\ DOMAIN tokens = {}
  BY <1>1 DEF Init
<1>6. ApplicationIsListed /\ SecondSuccessorIsLate
  BY <1>5 DEF ApplicationIsListed, SecondSuccessorIsLate
<1> QED  BY <1>2, <1>4, <1>6 DEF SecurityInv

\* A step that changes nothing makes nothing stale.
LEMMA SecurityStutter ==
  ASSUME Current, ApplicationIsListed, SecondSuccessorIsLate,
         UNCHANGED securityVars
  PROVE  Current' /\ ApplicationIsListed' /\ SecondSuccessorIsLate'
<1>1. UNCHANGED <<now, sessions, tokens, consents, req, caller, overtaken, late,
                 survivors>>
  BY DEF securityVars, vars
<1>2. \A u : ActiveSessions(u)' = ActiveSessions(u)
  BY <1>1 DEF ActiveSessions, Open
<1>3. Current'
  <2> SUFFICES ASSUME NEW p \in Worker \ overtaken'
               PROVE  StillTrue(p)'
    BY DEF Current
  <2>1. StillTrue(p)
    BY <1>1 DEF Current
  <2> QED  BY <1>1, <1>2, <2>1 DEF StillTrue
<1>4. ApplicationIsListed'
  BY <1>1 DEF ApplicationIsListed, Applications
<1>5. SecondSuccessorIsLate'
  BY <1>1 DEF SecondSuccessorIsLate
<1> QED  BY <1>3, <1>4, <1>5

LEMMA SecurityInductive == SecuritySpec => []SecurityInv
<1>1. SecurityInit => SecurityInv
  BY InitSecurity
<1>2. IInv /\ IInv' /\ SecurityInv /\ [SecurityNext]_securityVars => SecurityInv'
  BY CurrentStep, SuccessorStep, ListedStep, SecurityStutter DEF SecurityInv
<1> QED  BY <1>1, <1>2, SecurityIsSessions, PTL DEF SecuritySpec

(* Of two tokens that one token was exchanged for, all but the first were  *)
(* inserted by refreshes during which another request changed the tables   *)
(* (auth_service.issue_tokens_with_rotation).                              *)
THEOREM SuccessorsAreLate == SecuritySpec => []SecondSuccessorIsLate
<1>1. SecurityInv => SecondSuccessorIsLate
  BY DEF SecurityInv
<1> QED  BY <1>1, SecurityInductive, PTL

(* An application with an unrevoked session is on its user's list, unless  *)
(* the session was opened by an exchange that had read the consent active  *)
(* and the consent was revoked before it committed (consent_service).      *)
THEOREM ApplicationsListed == SecuritySpec => []ApplicationIsListed
<1>1. SecurityInv => ApplicationIsListed
  BY DEF SecurityInv
<1> QED  BY <1>1, SecurityInductive, PTL

(* The audit log agrees with the tables on the page too.                   *)
THEOREM PageAuditAgrees == SecuritySpec => []AuditAgrees
<1>1. IInv => AuditAgrees
  BY DEF IInv, AuditAgrees
<1> QED  BY <1>1, SecurityIsSessions, PTL

(* A revocation that no other request overtook leaves the page with no     *)
(* device by the revoked name but the caller's own                         *)
(* (security_service.revoke_security_session).                             *)
THEOREM RevokedDeviceLeaves == SecuritySpec => RevokedDeviceLeavesPage
<1> DEFINE Leaves ==
      \A p \in Worker \ overtaken, u \in User, n \in Name :
        /\ RevokeCommit(p)
        /\ u = req[p].user
        /\ \E s \in req[p].targets : sessions[s].name = n
        => \A current \in caller[p] : Snapshot(u, current)'[n] \subseteq {current}
<1>1. ASSUME SecurityInv PROVE Leaves
  <2> SUFFICES ASSUME NEW p \in Worker \ overtaken, NEW u \in User, NEW n \in Name,
                      RevokeCommit(p), u = req[p].user,
                      NEW s \in req[p].targets, sessions[s].name = n,
                      NEW current \in caller[p]
               PROVE  Snapshot(u, current)'[n] \subseteq {current}
    OBVIOUS
  <2>1. \A x \in ActiveSessions(u)' : sessions'[x].name = n => x = current
    BY <1>1, RevokeEmptiesName DEF SecurityInv
  <2>2. Snapshot(u, current)'[n] = Deduped(ActiveSessions(u), current, n)'
    BY DEF Snapshot
  <2> QED  BY <2>1, <2>2 DEF Deduped
<1>2. SecurityInv => [Leaves]_securityVars
  BY <1>1
<1> QED  BY <1>2, SecurityInductive, PTL DEF RevokedDeviceLeavesPage
===============================================================================
