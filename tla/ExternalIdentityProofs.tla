------------------------- MODULE ExternalIdentityProofs -------------------------
(***************************************************************************)
(* Theorems about ExternalIdentity, for any number of identities, e-mails  *)
(* and callbacks.  An identity is bound once and never again, and accounts *)
(* are never deleted, so what a callback holds about either stays true     *)
(* while it waits.                                                         *)
(***************************************************************************)
EXTENDS ExternalIdentity, TLAPS

\* A callback about to link found its account, and accounts are not deleted.
LinkTargetExists ==
  \A p \in Worker : req[p].op = "link" => req[p].email \in users

\* Logins, and logins about to be made, are into the account of the subject.
LoginsFollowIdentity ==
  /\ \A l \in logins : Known(l[1]) /\ identities[l[1]] = l[2]
  /\ \A p \in Worker :
       req[p].op = "issue" =>
         Known(req[p].subject) /\ identities[req[p].subject] = req[p].user

\* Bindings, and bindings about to be made, have the provider's word.
LinkedByProof ==
  /\ \A s \in DOMAIN identities : <<s, identities[s]>> \in proven
  /\ \A p \in Worker :
       req[p].op \notin {"idle", "issue"} =>
         <<req[p].subject, req[p].email>> \in proven

IInv ==
  /\ TypeOK
  /\ LinkTargetExists
  /\ LoginsFollowIdentity
  /\ LinkedByProof
  /\ NoOrphanAccount

\* What the type of a request says of its fields.
LEMMA RequestFields ==
  ASSUME NEW r \in Request
  PROVE  /\ r.op \in {"answered", "unknown", "link", "create"} =>
              r.subject \in Subject /\ r.email \in Email
         /\ r.op = "issue" => r.subject \in Subject /\ r.user \in Email
         /\ r.op = "idle" <=> r = Idle
  BY DEF Request, Idle

\* A callback moves on to a well-formed request.
LEMMA GotoType ==
  ASSUME TypeOK, NEW p \in Worker, NEW r \in Request, Goto(p, r)
  PROVE  /\ req' \in [Worker -> Request]
         /\ req'[p] = r
         /\ \A q \in Worker \ {p} : req'[q] = req[q]
  BY DEF TypeOK, Goto

\* Binding a free identity keeps all others and adds one.
LEMMA BindAdds ==
  ASSUME NEW s, NEW u, Bind(s, u), ~Known(s)
  PROVE  /\ DOMAIN identities' = DOMAIN identities \cup {s}
         /\ identities'[s] = u
         /\ \A x \in DOMAIN identities : identities'[x] = identities[x]
  BY DEF Bind, Known

\* A request for the second transaction is well-formed.
LEMMA IssueRequest ==
  ASSUME NEW s \in Subject, NEW u \in Email
  PROVE  [op |-> "issue", subject |-> s, user |-> u] \in Request
  BY DEF Request

\* So is a request that has moved on, with the same subject and e-mail.
LEMMA MovedRequest ==
  ASSUME NEW r \in Request, r.op \in {"answered", "unknown", "link", "create"},
         NEW o \in {"answered", "unknown", "link", "create"}
  PROVE  /\ [r EXCEPT !.op = o] \in Request
         /\ [r EXCEPT !.op = o].op = o
         /\ [r EXCEPT !.op = o].subject = r.subject
         /\ [r EXCEPT !.op = o].email = r.email
  <1>1. r \in [op : {"answered", "unknown", "link", "create"},
               subject : Subject, email : Email]
    BY DEF Request, Idle
  <1>2. QED
    BY <1>1 DEF Request

-----------------------------------------------------------------------------
LEMMA InitIInv == Init => IInv
  BY DEF Init, IInv, TypeOK, LoginsFollowIdentity, LinkedByProof,
         NoOrphanAccount, LinkTargetExists, Request, Idle, Known

\* A step that changes no table and no history keeps the invariant if the
\* request it moves to is idle, signs in where the identity belongs, or
\* carries an e-mail that was vouched for.
LEMMA MoveStep ==
  ASSUME IInv, NEW p \in Worker, NEW r \in Request, Goto(p, r),
         UNCHANGED <<tables, claims, history>>,
         r.op = "issue" => Known(r.subject) /\ identities[r.subject] = r.user,
         r.op \notin {"idle", "issue"} => <<r.subject, r.email>> \in proven,
         r.op = "link" => r.email \in users
  PROVE  IInv'
  <1>1. TypeOK'
    BY GotoType DEF IInv, TypeOK, tables, history
  <1>2. /\ \A q \in Worker \ {p} : req'[q] = req[q]
        /\ req'[p] = r
    BY GotoType DEF IInv
  <1>3. LoginsFollowIdentity'
    BY <1>2 DEF IInv, LoginsFollowIdentity, tables, history, Known
  <1>4. LinkedByProof'
    BY <1>2 DEF IInv, LinkedByProof, tables, history
  <1>5. NoOrphanAccount'
    BY DEF IInv, NoOrphanAccount, tables, history
  <1>6. LinkTargetExists'
    BY <1>2 DEF IInv, LinkTargetExists, tables
  <1>7. QED
    BY <1>1, <1>3, <1>4, <1>5, <1>6 DEF IInv

\* Signing in where the identity belongs.
LEMMA SignInStep ==
  ASSUME IInv, NEW p \in Worker, NEW s \in Subject, Known(s),
         SignIn(p, s, identities[s]), UNCHANGED <<tables, claims, history>>
  PROVE  IInv'
  <1> DEFINE r == [op |-> "issue", subject |-> s, user |-> identities[s]]
  <1>1. r \in Request
    BY IssueRequest DEF IInv, TypeOK, Known
  <1>2. Goto(p, r)
    BY DEF SignIn
  <1>3. /\ r.op = "issue" => Known(r.subject) /\ identities[r.subject] = r.user
        /\ r.op \notin {"idle", "issue"} => <<r.subject, r.email>> \in proven
        /\ r.op = "link" => r.email \in users
    OBVIOUS
  <1>4. QED
    BY <1>1, <1>2, <1>3, MoveStep

\* Binding a free identity to an account its provider vouched for, which is
\* there or made in the same step, and going on to sign in.
LEMMA BindStep ==
  ASSUME IInv, NEW p \in Worker, NEW s \in Subject, NEW u \in Email,
         ~Known(s), Bind(s, u), SignIn(p, s, u),
         users' = users \cup {u}, <<s, u>> \in proven,
         UNCHANGED <<claims, history>>
  PROVE  IInv'
  <1> DEFINE r == [op |-> "issue", subject |-> s, user |-> u]
  <1>1. r \in Request
    BY IssueRequest
  <1>2. /\ req' \in [Worker -> Request]
        /\ req'[p] = r
        /\ \A q \in Worker \ {p} : req'[q] = req[q]
    BY <1>1, GotoType DEF IInv, SignIn
  <1>3. /\ DOMAIN identities' = DOMAIN identities \cup {s}
        /\ identities'[s] = u
        /\ \A x \in DOMAIN identities : identities'[x] = identities[x]
    BY BindAdds
  <1>4. TypeOK'
    BY <1>2, <1>3 DEF IInv, TypeOK, history
  <1>5. LoginsFollowIdentity'
    BY <1>2, <1>3 DEF IInv, LoginsFollowIdentity, Known, history
  <1>6. LinkedByProof'
    BY <1>2, <1>3 DEF IInv, LinkedByProof, history
  <1>7. NoOrphanAccount'
    BY <1>3 DEF IInv, NoOrphanAccount, history
  <1>8. LinkTargetExists'
    BY <1>2 DEF IInv, LinkTargetExists
  <1>9. QED
    BY <1>4, <1>5, <1>6, <1>7, <1>8 DEF IInv

LEMMA StepIInv == IInv /\ [Next]_vars => IInv'
  <1> SUFFICES ASSUME IInv, [Next]_vars PROVE IInv'
    OBVIOUS
  <1> USE DEF IInv
  <1>a. \A p \in Worker : req[p] \in Request
    BY DEF TypeOK
  <1>b. Idle \in Request /\ Idle.op = "idle"
    BY DEF Request, Idle
  <1>1. ASSUME NEW p \in Worker, NEW s \in Subject, Exchange(p, s)
        PROVE  IInv'
    <2> DEFINE r == [op |-> "answered", subject |-> s, email |-> claims[s].email]
    <2>1. r \in Request /\ claims[s].email \in Email
      BY DEF Request, TypeOK
    <2>2. /\ req' \in [Worker -> Request]
          /\ req'[p] = r
          /\ \A q \in Worker \ {p} : req'[q] = req[q]
      BY <1>1, <2>1, GotoType DEF Exchange
    <2>3. proven' = proven \cup {<<s, claims[s].email>>}
      BY <1>1 DEF Exchange
    <2>4. TypeOK'
      BY <1>1, <2>1, <2>2, <2>3 DEF Exchange, TypeOK, tables
    <2>5. LoginsFollowIdentity'
      BY <1>1, <2>2 DEF Exchange, LoginsFollowIdentity, tables, Known
    <2>6. LinkedByProof'
      BY <1>1, <2>2, <2>3 DEF Exchange, LinkedByProof, tables
    <2>7. NoOrphanAccount'
      BY <1>1 DEF Exchange, NoOrphanAccount, tables
    <2>8. LinkTargetExists'
      BY <1>1, <2>2 DEF Exchange, LinkTargetExists, tables
    <2>9. QED
      BY <2>4, <2>5, <2>6, <2>7, <2>8
  <1>2. ASSUME NEW p \in Worker, LookUp(p) PROVE IInv'
    <2> DEFINE s == req[p].subject
    <2>1. s \in Subject
      BY <1>a, <1>2, RequestFields DEF LookUp
    <2>2. CASE Known(s) /\ SignIn(p, s, identities[s])
      BY <1>2, <2>1, <2>2, SignInStep DEF LookUp
    <2>3. CASE Goto(p, [req[p] EXCEPT !.op = "unknown"])
      <3>1. <<req[p].subject, req[p].email>> \in proven
        BY <1>2 DEF LookUp, LinkedByProof
      <3>2. QED
        BY <1>a, <1>2, <2>3, <3>1, MovedRequest, MoveStep DEF LookUp
    <2>4. QED
      BY <1>2, <2>2, <2>3 DEF LookUp
  <1>3. ASSUME NEW p \in Worker, FindUser(p) PROVE IInv'
    <2>1. PICK o \in {"link", "create"} : Goto(p, [req[p] EXCEPT !.op = o])
      BY <1>3 DEF FindUser
    <2>2. req[p] \in Request /\ req[p].op = "unknown"
      BY <1>a, <1>3 DEF FindUser
    <2>3. <<req[p].subject, req[p].email>> \in proven
      BY <2>2 DEF LinkedByProof
    <2>4. QED
      BY <1>3, <2>1, <2>2, <2>3, MovedRequest, MoveStep DEF FindUser
  <1>4. ASSUME NEW p \in Worker, LinkCommit(p) PROVE IInv'
    <2> DEFINE s == req[p].subject
               u == req[p].email
    <2>1. s \in Subject /\ u \in Email /\ <<s, u>> \in proven
      BY <1>a, <1>4, RequestFields DEF LinkCommit, LinkedByProof
    <2>2. CASE ~Known(s) /\ Bind(s, u) /\ SignIn(p, s, u)
      <3>1. u \in users
        BY <1>4 DEF LinkCommit, LinkTargetExists
      <3>2. QED
        BY <1>4, <2>1, <2>2, <3>1, BindStep DEF LinkCommit
    <2>3. CASE Known(s) /\ SignIn(p, s, identities[s]) /\ UNCHANGED identities
      BY <1>4, <2>1, <2>3, SignInStep DEF LinkCommit, tables
    <2>4. QED
      BY <1>4, <2>2, <2>3 DEF LinkCommit
  <1>5. ASSUME NEW p \in Worker, CreateCommit(p) PROVE IInv'
    <2> DEFINE s == req[p].subject
               e == req[p].email
    <2>1. s \in Subject /\ e \in Email /\ <<s, e>> \in proven
      BY <1>a, <1>5, RequestFields DEF CreateCommit, LinkedByProof
    <2>2. CASE ~Known(s) /\ users' = users \cup {e} /\ Bind(s, e) /\ SignIn(p, s, e)
      BY <1>5, <2>1, <2>2, BindStep DEF CreateCommit
    <2>3. CASE Known(s) /\ SignIn(p, s, identities[s]) /\ UNCHANGED tables
      BY <1>5, <2>1, <2>3, SignInStep DEF CreateCommit
    <2>4. QED
      BY <1>5, <2>2, <2>3 DEF CreateCommit
  <1>6. ASSUME NEW p \in Worker, CreateConflict(p) PROVE IInv'
    <2>1. req[p].subject \in Subject
      BY <1>a, <1>6, RequestFields DEF CreateConflict
    <2>2. /\ req' \in [Worker -> Request]
          /\ req'[p] = Idle
          /\ \A q \in Worker \ {p} : req'[q] = req[q]
      BY <1>6, <1>b, GotoType DEF CreateConflict
    <2>3. QED
      BY <1>6, <1>b, <2>1, <2>2
      DEF CreateConflict, tables, TypeOK, LoginsFollowIdentity, LinkedByProof,
          NoOrphanAccount, LinkTargetExists, Known
  <1>7. ASSUME NEW p \in Worker, Issue(p) PROVE IInv'
    <2>1. req[p].subject \in Subject /\ req[p].user \in Email
      BY <1>a, <1>7, RequestFields DEF Issue
    <2>2. /\ req' \in [Worker -> Request]
          /\ req'[p] = Idle
          /\ \A q \in Worker \ {p} : req'[q] = req[q]
      BY <1>7, <1>b, GotoType DEF Issue
    <2>3. LoginsFollowIdentity'
      BY <1>7, <1>b, <2>1, <2>2 DEF Issue, tables, LoginsFollowIdentity, Known
    <2>4. QED
      BY <1>7, <1>b, <2>1, <2>2, <2>3
      DEF Issue, tables, TypeOK, LinkedByProof, NoOrphanAccount, LinkTargetExists
  <1>8. ASSUME NEW p \in Worker, Abort(p) PROVE IInv'
    BY <1>8, <1>b, MoveStep DEF Abort
  <1>9. ASSUME NEW e \in Email, Register(e) PROVE IInv'
    BY <1>9 DEF Register, TypeOK, LoginsFollowIdentity, LinkedByProof,
                NoOrphanAccount, LinkTargetExists, Known
  <1>10. ASSUME NEW s \in Subject, NEW e \in Email, NEW v \in BOOLEAN,
                ClaimChanges(s, e, v)
         PROVE  IInv'
    BY <1>10 DEF ClaimChanges, tables, history, TypeOK, LoginsFollowIdentity,
                 LinkedByProof, NoOrphanAccount, LinkTargetExists, Known
  <1>11. CASE UNCHANGED vars
    BY <1>11 DEF vars, TypeOK, LoginsFollowIdentity, LinkedByProof,
                 NoOrphanAccount, LinkTargetExists, Known
  <1>12. QED
    BY <1>1, <1>2, <1>3, <1>4, <1>5, <1>6, <1>7, <1>8, <1>9, <1>10, <1>11
    DEF Next, Step

LEMMA Inductive == Spec => []IInv
  <1>1. IInv /\ [Next]_vars => IInv'
    BY StepIInv
  <1>2. QED
    BY InitIInv, <1>1, PTL DEF Spec

-----------------------------------------------------------------------------
(* TypeCorrect: tables and requests stay well-formed, and no identity      *)
(* refers to an account that does not exist.                               *)
THEOREM TypeCorrect == Spec => []TypeOK
  <1>1. IInv => TypeOK
    BY DEF IInv
  <1>2. QED
    BY Inductive, <1>1, PTL

(* NoOrphans: a callback that loses a race leaves no account behind.       *)
THEOREM NoOrphans == Spec => []NoOrphanAccount
  <1>1. IInv => NoOrphanAccount
    BY DEF IInv
  <1>2. QED
    BY Inductive, <1>1, PTL

(* IdentityForGood: once bound, an identity belongs to its account for     *)
(* good; no callback, conflict or change at the provider moves it.         *)
IdentityForGood ==
  [][\A s \in DOMAIN identities :
       Known(s)' /\ identities'[s] = identities[s]]_vars

THEOREM BoundForGood == Spec => IdentityForGood
  <1> DEFINE Kept == \A s \in DOMAIN identities :
                       Known(s)' /\ identities'[s] = identities[s]
  <1>1. ASSUME Next PROVE Kept
    <2>1. ASSUME NEW s, NEW u, Bind(s, u), ~Known(s) PROVE Kept
      BY <2>1, BindAdds DEF Known
    <2>2. CASE UNCHANGED identities
      BY <2>2 DEF Known
    <2>3. QED
      BY <1>1, <2>1, <2>2
      DEF Next, Step, Exchange, LookUp, FindUser, LinkCommit, CreateCommit,
          CreateConflict, Issue, Abort, Register, ClaimChanges, tables
  <1>2. [Next]_vars => [Kept]_vars
    BY <1>1
  <1>3. QED
    BY <1>2, PTL DEF Spec, IdentityForGood

-----------------------------------------------------------------------------
(* Refinement: the callbacks implement the identity directory.             *)

\* A step that binds a free subject the provider has vouched for.
LEMMA BindsBind ==
  ASSUME NEW s \in Subject, NEW e \in Email, ~Known(s), Bind(s, e),
         <<s, e>> \in proven, users' = users \cup {e},
         UNCHANGED <<proven, logins>>
  PROVE  Directory!DirectoryNext
  <1>1. Directory!Bind(s, e)
    BY DEF Directory!Bind, Known, Bind
  <1>2. QED
    BY <1>1 DEF Directory!DirectoryNext

LEMMA StepDirectory ==
  ASSUME IInv, [Next]_vars
  PROVE  [Directory!DirectoryNext]_(Directory!directoryVars)
  <1>a. \A p \in Worker : req[p] \in Request
    BY DEF IInv, TypeOK
  <1>1. ASSUME NEW p \in Worker, NEW s \in Subject, Exchange(p, s)
        PROVE  Directory!DirectoryNext
    <2>1. claims[s].email \in Email
      BY DEF IInv, TypeOK
    <2>2. Directory!Vouch(s, claims[s].email)
      BY <1>1 DEF Exchange, Directory!Vouch, tables
    <2>3. QED
      BY <2>1, <2>2 DEF Directory!DirectoryNext
  <1>2. ASSUME UNCHANGED <<users, proven, identities, logins>>
        PROVE  UNCHANGED Directory!directoryVars
    BY <1>2 DEF Directory!directoryVars
  <1>3. ASSUME NEW p \in Worker, LinkCommit(p), identities' # identities
        PROVE  Directory!DirectoryNext
    <2> DEFINE s == req[p].subject
               u == req[p].email
    <2>1. /\ s \in Subject /\ u \in Email /\ <<s, u>> \in proven /\ u \in users
      BY <1>a, <1>3, RequestFields
      DEF LinkCommit, IInv, LinkedByProof, LinkTargetExists
    <2>2. /\ ~Known(s) /\ Bind(s, u)
          /\ users' = users \cup {u} /\ UNCHANGED <<proven, logins>>
      BY <1>3, <2>1 DEF LinkCommit, history
    <2> HIDE DEF s, u
    <2>3. QED
      BY <2>1, <2>2, BindsBind
  <1>4. ASSUME NEW p \in Worker, LinkCommit(p), identities' = identities
        PROVE  UNCHANGED Directory!directoryVars
    BY <1>2, <1>4 DEF LinkCommit, history
  <1>5. ASSUME NEW p \in Worker, CreateCommit(p), UNCHANGED tables
        PROVE  UNCHANGED Directory!directoryVars
    BY <1>2, <1>5 DEF CreateCommit, history, tables
  <1>6. ASSUME NEW p \in Worker, CreateCommit(p), ~UNCHANGED tables
        PROVE  Directory!DirectoryNext
    <2> DEFINE s == req[p].subject
               u == req[p].email
    <2>1. /\ s \in Subject /\ u \in Email /\ <<s, u>> \in proven
      BY <1>a, <1>6, RequestFields DEF CreateCommit, IInv, LinkedByProof
    <2>2. /\ ~Known(s) /\ Bind(s, u)
          /\ users' = users \cup {u} /\ UNCHANGED <<proven, logins>>
      BY <1>6, <2>1 DEF CreateCommit, history
    <2> HIDE DEF s, u
    <2>3. QED
      BY <2>1, <2>2, BindsBind
  <1>7. ASSUME NEW p \in Worker, Issue(p)
        PROVE  Directory!DirectoryNext
    <2>1. req[p].subject \in Subject
      BY <1>a, <1>7, RequestFields DEF Issue
    <2>2. /\ req[p].subject \in DOMAIN identities
          /\ identities[req[p].subject] = req[p].user
      BY <1>7 DEF Issue, IInv, LoginsFollowIdentity, Known
    <2>3. Directory!SignIn(req[p].subject)
      BY <1>7, <2>2 DEF Issue, Directory!SignIn, tables
    <2>4. QED
      BY <2>1, <2>3 DEF Directory!DirectoryNext
  <1>8. ASSUME NEW e \in Email, Register(e)
        PROVE  Directory!DirectoryNext
    <2>1. Directory!Join(e)
      BY <1>8 DEF Register, Directory!Join
    <2>2. QED
      BY <2>1 DEF Directory!DirectoryNext
  <1>9. ASSUME \/ \E p \in Worker : \/ LookUp(p) \/ FindUser(p)
                                    \/ CreateConflict(p) \/ Abort(p)
               \/ \E s \in Subject, e \in Email, v \in BOOLEAN : ClaimChanges(s, e, v)
               \/ UNCHANGED vars
        PROVE  UNCHANGED Directory!directoryVars
    BY <1>2, <1>9 DEF LookUp, FindUser, CreateConflict, Abort, ClaimChanges, vars,
                      tables, history
  <1>10. QED
    BY <1>1, <1>3, <1>4, <1>5, <1>6, <1>7, <1>8, <1>9 DEF Next, Step

(* DirectoryImplemented: every step of the callbacks binds a subject,      *)
(* signs it in where it belongs or leaves the directory alone.             *)
THEOREM DirectoryImplemented == Spec => ImplementsDirectory
  <1>1. Init => Directory!DirectoryInit
    BY DEF Init, Directory!DirectoryInit
  <1>2. IInv /\ [Next]_vars => [Directory!DirectoryNext]_(Directory!directoryVars)
    BY StepDirectory
  <1>3. QED
    BY <1>1, <1>2, Inductive, PTL
    DEF Spec, ImplementsDirectory, Directory!DirectorySpec
===============================================================================
