--------------------------- MODULE ExternalIdentity ----------------------------
(***************************************************************************)
(* Login through GitHub or Google: from the provider's answer to a callback *)
(* to the account it signs in (external_identity_service.py,               *)
(* external_auth_flow_service.py), while other callbacks of the same or of *)
(* another identity and registrations by e-mail go on.                     *)
(*                                                                         *)
(* An account is named by its e-mail: the column is unique and nothing     *)
(* updates it.  Each SELECT is a step of its own.  The inserts of a        *)
(* transaction are one step with its commit: an insert that meets an       *)
(* uncommitted row with the same key waits for it.                         *)
(***************************************************************************)
EXTENDS Naturals

CONSTANTS
  Subject,    \* (provider, provider_subject): somebody's GitHub or Google account
  Email,
  Worker      \* callbacks in flight at the same time

VARIABLES
  users,      \* the accounts, by e-mail
  identities, \* user_identities: subject -> the account it belongs to
  claims,     \* what the provider says of each subject at the moment
  req,        \* what each callback knows so far
  registered, \* history: accounts not made by a callback
  proven,     \* history: <<subject, e-mail>> a provider vouched for
  logins,     \* history: <<subject, account>> for every login by callback
  crashes     \* history: subjects whose callback died of a constraint although
              \* their identity was there to be found

vars == <<users, identities, claims, req, registered, proven, logins, crashes>>

tables == <<users, identities>>
history == <<registered, proven, logins, crashes>>

Idle == [op |-> "idle"]

Request ==
  {Idle}
  \cup [op : {"answered", "unknown", "link", "create"},
        subject : Subject, email : Email]
  \cup [op : {"issue"}, subject : Subject, user : Email]

(* TypeOK: the tables and requests are well-formed, and an identity always *)
(* belongs to an account that exists.                                      *)
TypeOK ==
  /\ users \subseteq Email
  /\ DOMAIN identities \subseteq Subject
  /\ \A s \in DOMAIN identities : identities[s] \in users
  /\ claims \in [Subject -> [email : Email, verified : BOOLEAN]]
  /\ req \in [Worker -> Request]
  /\ registered \subseteq users
  /\ proven \subseteq Subject \X Email
  /\ logins \subseteq Subject \X Email
  /\ crashes \subseteq Subject

Init ==
  /\ users = {}
  /\ identities = [s \in {} |-> {}]
  /\ claims \in [Subject -> [email : Email, verified : BOOLEAN]]
  /\ req = [p \in Worker |-> Idle]
  /\ registered = {} /\ proven = {} /\ logins = {} /\ crashes = {}

Goto(p, r) == req' = [req EXCEPT ![p] = r]
Known(s) == s \in DOMAIN identities
Bind(s, u) ==
  identities' = [x \in DOMAIN identities \cup {s} |->
                   IF x = s THEN u ELSE identities[x]]
SignIn(p, s, u) == Goto(p, [op |-> "issue", subject |-> s, user |-> u])

-----------------------------------------------------------------------------
\* The provider answers the callback; both adapters, and the resolution
\* again, refuse an identity without a verified e-mail.
Exchange(p, s) ==
  /\ req[p] = Idle
  /\ claims[s].verified
  /\ Goto(p, [op |-> "answered", subject |-> s, email |-> claims[s].email])
  /\ proven' = proven \cup {<<s, claims[s].email>>}
  /\ UNCHANGED <<tables, claims, registered, logins, crashes>>

\* A known identity signs in to its account, whatever e-mail the provider
\* reports now; its snapshot of e-mail, name and picture is updated.
LookUp(p) ==
  /\ req[p].op = "answered"
  /\ LET s == req[p].subject
     IN  \/ Known(s) /\ SignIn(p, s, identities[s])
         \/ ~Known(s) /\ Goto(p, [req[p] EXCEPT !.op = "unknown"])
  /\ UNCHANGED <<tables, claims, history>>

\* Variant of FindUser: the account is never found, as if the e-mail were
\* looked up in another spelling than the one stored.
FindUserNever(p) ==
  /\ req[p].op = "unknown"
  /\ Goto(p, [req[p] EXCEPT !.op = "create"])
  /\ UNCHANGED <<tables, claims, history>>

FindUser(p) ==
  /\ req[p].op = "unknown"
  /\ Goto(p, [req[p] EXCEPT
                !.op = IF req[p].email \in users THEN "link" ELSE "create"])
  /\ UNCHANGED <<tables, claims, history>>

\* Variant of LinkCommit: after a conflict the user found by e-mail signs in.
LinkCommitLoser(p) ==
  /\ req[p].op = "link"
  /\ LET s == req[p].subject
         u == req[p].email
     IN  /\ IF Known(s) THEN UNCHANGED identities ELSE Bind(s, u)
         /\ SignIn(p, s, u)
  /\ UNCHANGED <<users, claims, history>>

\* _link_identity.  If the identity has been inserted meanwhile, the
\* transaction is rolled back and the account that got it signs in.
LinkCommit(p) ==
  /\ req[p].op = "link"
  /\ LET s == req[p].subject
         u == req[p].email
     IN  \/ ~Known(s) /\ Bind(s, u) /\ SignIn(p, s, u)
         \/ Known(s) /\ SignIn(p, s, identities[s]) /\ UNCHANGED identities
  /\ UNCHANGED <<users, claims, history>>

\* Variant of CreateCommit: the new user is committed before the identity.
CreateCommitTwice(p) ==
  /\ req[p].op = "create"
  /\ LET s == req[p].subject
         e == req[p].email
     IN  /\ e \notin users
         /\ users' = users \cup {e}
         /\ IF Known(s)
            THEN SignIn(p, s, identities[s]) /\ UNCHANGED identities
            ELSE Bind(s, e) /\ SignIn(p, s, e)
  /\ UNCHANGED <<claims, history>>

\* Variant of CreateCommit: the identity is committed, the user is not.
CreateCommitLosingUser(p) ==
  /\ req[p].op = "create"
  /\ LET s == req[p].subject
         e == req[p].email
     IN  /\ e \notin users
         /\ IF Known(s)
            THEN SignIn(p, s, identities[s]) /\ UNCHANGED identities
            ELSE Bind(s, e) /\ SignIn(p, s, e)
  /\ UNCHANGED <<users, claims, history>>

\* The user is flushed and committed with the identity; a conflict on the
\* identity rolls both back.
CreateCommit(p) ==
  /\ req[p].op = "create"
  /\ LET s == req[p].subject
         e == req[p].email
     IN  /\ e \notin users
         /\ \/ /\ ~Known(s)
               /\ users' = users \cup {e}
               /\ Bind(s, e)
               /\ SignIn(p, s, e)
            \/ /\ Known(s)
               /\ SignIn(p, s, identities[s])
               /\ UNCHANGED tables
  /\ UNCHANGED <<claims, history>>

\* The flush of the user is outside the try: a conflict on the e-mail ends
\* the request with an error nobody handles.
CreateConflict(p) ==
  /\ req[p].op = "create"
  /\ req[p].email \in users
  /\ crashes' = crashes \cup {s \in {req[p].subject} : Known(s)}
  /\ Goto(p, Idle)
  /\ UNCHANGED <<tables, claims, registered, proven, logins>>

\* issue_tokens in a second transaction: Login of module Sessions.
Issue(p) ==
  /\ req[p].op = "issue"
  /\ logins' = logins \cup {<<req[p].subject, req[p].user>>}
  /\ Goto(p, Idle)
  /\ UNCHANGED <<tables, claims, registered, proven, crashes>>

-----------------------------------------------------------------------------
\* The request dies: crash, lost connection, provider or database timeout.
Abort(p) ==
  /\ req[p] # Idle
  /\ Goto(p, Idle)
  /\ UNCHANGED <<tables, claims, history>>

\* An account is made by password registration or by e-mailed code.
Register(e) ==
  /\ e \notin users
  /\ users' = users \cup {e}
  /\ registered' = registered \cup {e}
  /\ UNCHANGED <<identities, claims, req, proven, logins, crashes>>

\* The owner of a subject changes its e-mail at the provider.
ClaimChanges(s, e, verified) ==
  /\ claims' = [claims EXCEPT ![s] = [email |-> e, verified |-> verified]]
  /\ UNCHANGED <<tables, req, history>>

Step(p) ==
  \/ LookUp(p)
  \/ FindUser(p)
  \/ LinkCommit(p)
  \/ CreateCommit(p)
  \/ CreateConflict(p)
  \/ Issue(p)

Next ==
  \/ \E p \in Worker, s \in Subject : Exchange(p, s)
  \/ \E p \in Worker : Step(p)
  \/ \E p \in Worker : Abort(p)
  \/ \E e \in Email : Register(e)
  \/ \E s \in Subject, e \in Email, v \in BOOLEAN : ClaimChanges(s, e, v)

Spec == Init /\ [][Next]_vars

\* A step of a callback for s that has come as far as op.
StepFor(s, op) ==
  \E p \in Worker : req[p] # Idle /\ req[p].subject = s /\ req[p].op = op /\ Step(p)

\* Callbacks end, one way or the other; the owner of a subject tries again
\* and again, and is not stopped for ever at the same point.
Fairness ==
  /\ \A p \in Worker : WF_vars(Step(p) \/ Abort(p))
  /\ \A s \in Subject : SF_vars(\E p \in Worker : Exchange(p, s))
  /\ \A s \in Subject :
       \A op \in {"answered", "unknown", "link", "create", "issue"} :
         SF_vars(StepFor(s, op))

FairSpec == Spec /\ Fairness

-----------------------------------------------------------------------------
(* ImplementsDirectory: whatever callbacks race, a subject is bound once,  *)
(* to an account whose address its provider has vouched for, and every     *)
(* login of it is into that account (resolve_external_identity).           *)
Directory == INSTANCE IdentityDirectory WITH
  accounts <- users, vouched <- proven, account <- identities,
  signedIn <- logins

ImplementsDirectory == Directory!DirectorySpec

(* NoOrphanAccount: an account nobody registered belongs to an identity: a *)
(* callback that loses a race leaves no account behind that nobody can     *)
(* sign in to (the rollback in resolve_external_identity).                 *)
NoOrphanAccount ==
  \A u \in users \ registered : \E s \in DOMAIN identities : identities[s] = u

(* ConflictIsRequeried: no callback dies of a unique constraint when the   *)
(* identity it logs in is bound by then: after a conflict the identity is  *)
(* looked up again.  (A conflict with an account registered by password    *)
(* leaves nothing to find, and may fail.)                                  *)
ConflictIsRequeried == crashes = {}

(* FirstLoginSucceeds: a subject whose e-mail stays verified signs in      *)
(* sooner or later, if its owner keeps trying: no conflict, crash or       *)
(* half-finished attempt locks it out.                                     *)
FirstLoginSucceeds ==
  \A s \in Subject :
    <>[](claims[s].verified) => <>(\E u \in Email : <<s, u>> \in logins)
===============================================================================
