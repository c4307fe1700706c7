------------------------- MODULE AuthorizationServer --------------------------
(***************************************************************************)
(* The authorization-code flow: GET /oauth/authorize, the select-account   *)
(* page, the sign-in detour and POST /oauth/token (routers/oidc.py,        *)
(* oidc_service.py, SelectAccountPage.tsx), on top of the client registry  *)
(* whose processes serve the requests.                                     *)
(*                                                                         *)
(* A flow is one login an application starts in the browser, with its own  *)
(* PKCE verifier.  The browser is signed in to one account at a time; a    *)
(* sign-in in another window changes the account under a flow.  What an    *)
(* exchange commits is the exchange of Sessions (consent, session and      *)
(* tokens); here it is the fact that the tokens were granted.              *)
(***************************************************************************)
EXTENDS ClientRegistry

CONSTANTS
  Flow,
  User,
  NoUser,      \* nobody is signed in
  CustomUri,   \* addresses with a scheme other than http and https
  Login        \* what applications ask for: response_type code, scope openid,
               \* perhaps with account_confirmed=1, perhaps without a challenge

ASSUME AddressAssumption == CustomUri \subseteq Uri
ASSUME LoginAssumption ==
  Login \subseteq [client : Client, uri : Uri, scopes : SUBSET Scope,
                  confirmed : BOOLEAN, challenge : BOOLEAN]
ASSUME UserAssumption == NoUser \notin User

VARIABLES
  account,    \* the user the browser is signed in as
  flow,       \* what each flow is at
  codes,      \* the authorization codes issued: self-contained, stored nowhere
  expired,    \* those whose OIDC_CODE_LIFETIME_MINUTES are over
  grants,     \* history: what exchanges have committed
  preset,     \* history: flows that came with account_confirmed=1
  shown,      \* history: the account each flow's select-account page showed
  turned      \* history: flows whose browser has changed accounts since,
              \* until they have their answer

historyVars == <<preset, shown, turned>>
flowVars == <<account, flow, codes, expired, grants, historyVars>>
vars == <<registryVars, flowVars>>

Asked == [client : Client, uri : Uri, scopes : SUBSET Scope,
          confirmed : BOOLEAN, challenge : BOOLEAN]

Code == [flow : Flow, client : Client, uri : Uri, scopes : SUBSET Scope,
         user : User]

New == [at |-> "new"]

FlowState ==
  {New}
  \cup [at : {"authorize", "login", "select", "shown", "returned"}, ask : Asked]
  \cup [at : {"refused"}, ask : Asked,
        why : {"client", "address", "disabled", "scope", "challenge"}]

(* TypeOK: the registry is well-formed, and every flow is at a step of     *)
(* routers/oidc.py with the request it started with.                       *)
TypeOK ==
  /\ RegistryTypeOK
  /\ account \in User \cup {NoUser}
  /\ flow \in [Flow -> FlowState]
  /\ codes \subseteq Code
  /\ expired \subseteq codes
  /\ grants \subseteq [to : Flow, code : Code]
  /\ preset \subseteq Flow
  /\ shown \in [Flow -> User \cup {NoUser}]
  /\ turned \subseteq Flow

Init ==
  /\ RegistryInit
  /\ account = NoUser
  /\ flow = [f \in Flow |-> New]
  /\ codes = {}
  /\ expired = {}
  /\ grants = {}
  /\ preset = {}
  /\ shown = [f \in Flow |-> NoUser]
  /\ turned = {}

Goes(f, state) == flow' = [flow EXCEPT ![f] = state]
Step(f, step) == Goes(f, [at |-> step, ask |-> flow[f].ask])

-----------------------------------------------------------------------------
(* The browser's account.                                                  *)

\* The flows whose user has been shown an account and awaits the answer.
Undecided == {f \in Flow : shown[f] # NoUser /\ flow[f].at \notin {"returned", "refused"}}

SignedInAs(u) ==
  /\ account # u
  /\ account' = u
  /\ turned' = turned \cup Undecided
  /\ UNCHANGED <<registryVars, flow, codes, expired, grants, preset, shown>>

\* An application opens /oauth/authorize; nothing keeps it from putting
\* account_confirmed=1 in the address.
Open(f, r) ==
  /\ flow[f] = New
  /\ Goes(f, [at |-> "authorize", ask |-> r])
  /\ preset' = IF r.confirmed THEN preset \cup {f} ELSE preset
  /\ UNCHANGED <<registryVars, account, codes, expired, grants, shown, turned>>

-----------------------------------------------------------------------------
(* GET /oauth/authorize: its outcomes, in the order of its checks.         *)

Authorizes(f) == flow[f].at = "authorize" /\ Up

\* The address of the request, account_confirmed and all, becomes `next`.
ToLogin(f) ==
  /\ Authorizes(f)
  /\ account = NoUser
  /\ Step(f, "login")
  /\ UNCHANGED <<registryVars, account, codes, expired, grants, historyVars>>

\* The login page goes to `next` once somebody is signed in.
FromLogin(f) ==
  /\ flow[f].at = "login"
  /\ account # NoUser
  /\ Step(f, "authorize")
  /\ UNCHANGED <<registryVars, account, codes, expired, grants, historyVars>>

\* Variant of MustSelect: every address is taken for a web page's.
MustSelectNever(ask) == FALSE

\* is_custom_scheme_redirect_uri(redirect_uri) and not confirmed
MustSelect(ask) == ask.uri \in CustomUri /\ ~ask.confirmed

ToSelect(f) ==
  /\ Authorizes(f)
  /\ account # NoUser
  /\ MustSelect(flow[f].ask)
  /\ Step(f, "select")
  /\ UNCHANGED <<registryVars, account, codes, expired, grants, historyVars>>

\* Why validate_client_redirect_uri would refuse, in the order of its checks.
Misfit(ask) ==
  LET row == clients[ask.client]
  IN  CASE row = Missing            -> "client"
        [] ask.uri \notin row.uris  -> "address"
        [] ~row.active              -> "disabled"
        [] OTHER                    -> "none"

\* validate_client_scopes comes next, the missing code_challenge last.
Objection(ask) ==
  CASE Misfit(ask) # "none"                                -> Misfit(ask)
    [] ~(ask.scopes \subseteq clients[ask.client].scopes) -> "scope"
    [] ~ask.challenge                                      -> "challenge"
    [] OTHER                                               -> "none"

Refuse(f) ==
  /\ Authorizes(f)
  /\ account # NoUser
  /\ ~MustSelect(flow[f].ask)
  /\ Objection(flow[f].ask) # "none"
  /\ Goes(f, [at |-> "refused", ask |-> flow[f].ask, why |-> Objection(flow[f].ask)])
  /\ UNCHANGED <<registryVars, account, codes, expired, grants, historyVars>>

\* create_authorization_code, and the redirect to the application.
IssueCode(f) ==
  /\ Authorizes(f)
  /\ account # NoUser
  /\ ~MustSelect(flow[f].ask)
  /\ Objection(flow[f].ask) = "none"
  /\ LET ask == flow[f].ask
     IN  codes' = codes \cup
           {[flow |-> f, client |-> ask.client, uri |-> ask.uri,
             scopes |-> ask.scopes, user |-> account]}
  /\ Step(f, "returned")
  /\ UNCHANGED <<registryVars, account, expired, grants, historyVars>>

-----------------------------------------------------------------------------
(* The select-account page.                                                *)

ShowAccount(f) ==
  /\ flow[f].at = "select"
  /\ account # NoUser
  /\ Step(f, "shown")
  /\ shown' = [shown EXCEPT ![f] = account]
  /\ turned' = turned \ {f}
  /\ UNCHANGED <<registryVars, account, codes, expired, grants, preset>>

\* Nobody is signed in any more: to the login page, unconfirmed as before.
SelectToLogin(f) ==
  /\ flow[f].at = "select"
  /\ account = NoUser
  /\ Step(f, "login")
  /\ UNCHANGED <<registryVars, account, codes, expired, grants, historyVars>>

\* buildAuthorizeContinueUrl
ConfirmAccount(f) ==
  /\ flow[f].at = "shown"
  /\ Goes(f, [at |-> "authorize", ask |-> [flow[f].ask EXCEPT !.confirmed = TRUE]])
  /\ UNCHANGED <<registryVars, account, codes, expired, grants, historyVars>>

\* buildSwitchAccountLogoutUrl
SwitchAccount(f) ==
  /\ flow[f].at = "shown"
  /\ account' = NoUser
  /\ turned' = turned \cup Undecided
  /\ Step(f, "login")
  /\ UNCHANGED <<registryVars, codes, expired, grants, preset, shown>>

-----------------------------------------------------------------------------
(* POST /oauth/token.  An application with two flows under way may be      *)
(* handed the code of either; it sends its own verifier, and may send a    *)
(* request again whose answer it missed.                                   *)

\* Variant of VerifierMatches: the challenge is not checked.
AnyVerifier(f, k) == TRUE

\* _verify_pkce
VerifierMatches(f, k) == k.flow = f

Unexpired(k) == k \notin expired

\* The whole request is one step: after the code, only the client's row and
\* the user are read, and a change of either after that is as good as one
\* after the commit.
Exchange(f, k) ==
  /\ flow[f].at = "returned"
  /\ Up
  /\ k.client = flow[f].ask.client
  /\ Unexpired(k)
  /\ k.uri = flow[f].ask.uri
  /\ Misfit(flow[f].ask) = "none"
  /\ VerifierMatches(f, k)
  /\ grants' = grants \cup {[to |-> f, code |-> k]}
  /\ UNCHANGED <<registryVars, account, flow, codes, expired, historyVars>>

\* The clock passes the code's exp.
Expire(k) ==
  /\ k \notin expired
  /\ expired' = expired \cup {k}
  /\ UNCHANGED <<registryVars, account, flow, codes, grants, historyVars>>

FlowNext ==
  \/ \E u \in User \cup {NoUser} : SignedInAs(u)
  \/ \E f \in Flow, r \in Login : Open(f, r)
  \/ \E f \in Flow : ToLogin(f)
  \/ \E f \in Flow : FromLogin(f)
  \/ \E f \in Flow : ToSelect(f)
  \/ \E f \in Flow : Refuse(f)
  \/ \E f \in Flow : IssueCode(f)
  \/ \E f \in Flow : ShowAccount(f)
  \/ \E f \in Flow : SelectToLogin(f)
  \/ \E f \in Flow : ConfirmAccount(f)
  \/ \E f \in Flow : SwitchAccount(f)
  \/ \E f \in Flow, k \in codes : Exchange(f, k)
  \/ \E k \in codes : Expire(k)

Next ==
  \/ FlowNext
  \/ RegistryNext /\ UNCHANGED flowVars

Spec == Init /\ [][Next]_vars
FairSpec == Spec /\ BootFairness

-----------------------------------------------------------------------------
(* Properties.                                                             *)

(* BuiltInWelcome: a request of a built-in client for one of its default   *)
(* addresses and scopes, with a PKCE challenge, is refused only while an   *)
(* operator has the client disabled: a process that answers has put the    *)
(* registry in order first.                                                *)
BuiltInWelcome ==
  \A f \in Flow :
    flow[f].at = "refused" =>
      LET ask == flow[f].ask
      IN  \/ flow[f].why = "disabled"
          \/ \A i \in DOMAIN BuiltIn : BuiltIn[i] # ask.client
          \/ ask.uri \notin DefaultUri[ask.client]
          \/ ~(ask.scopes \subseteq DefaultScope)
          \/ ~ask.challenge

\* The page of flow f showed u's account, or the request asked for no page,
\* or the browser changed accounts after the page was shown.
ShownOr(f, u) ==
  \/ f \in preset
  \/ shown[f] # NoUser /\ (u = shown[f] \/ f \in turned)

(* CodeForShownAccount: a native application's code is for the account     *)
(* the select-account page showed, unless the request came with            *)
(* account_confirmed=1, which authorize takes from any address, or the     *)
(* browser's account was changed after the page was shown.                 *)
CodeForShownAccount ==
  \A k \in codes : k.uri \in CustomUri => ShownOr(k.flow, k.user)

(* GrantForShownAccount: the same of the tokens, whichever of its flows an *)
(* application takes a code for, and however often it is exchanged         *)
(* (exchange_authorization_code records no code as used): the page that    *)
(* counts is that of the login the tokens go to.                           *)
GrantForShownAccount ==
  \A g \in grants : g.code.uri \in CustomUri => ShownOr(g.to, g.code.user)
===============================================================================
