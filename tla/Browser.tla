------------------------------- MODULE Browser --------------------------------
(***************************************************************************)
(* One browser on the mini-auth origin: its cookie jar, the tabs that      *)
(* share it, and the endpoints that fill and empty it (authClient.ts,      *)
(* routers/auth.py, web.py, github_auth.py, google_auth.py).               *)
(*                                                                         *)
(* The server's tables are the ledger of TokenLedger, which Sessions       *)
(* implements.  A request leaves with the cookies of that moment, the      *)
(* server reads, then commits, and the response changes the jar when it    *)
(* arrives; other tabs act in between.  Cookies set by a response are      *)
(* HttpOnly, those set by the page's script are not, and a script can      *)
(* neither read nor overwrite an HttpOnly cookie.                          *)
(***************************************************************************)
EXTENDS TokenLedger, Naturals

CONSTANTS
  Tab,
  Provider,    \* the external providers
  Page,        \* addresses a login can be asked to return to
  Native,      \* the page /oauth/app-callback, whatever its redirect_uri
  None,        \* no cookie, no session, no address
  AccessTTL,   \* settings.jwt_access_expire_minutes, in ticks
  ContextTTL,  \* settings.external_auth_context_expire_seconds, in ticks
  Horizon      \* bound on the clock

ASSUME LifetimeAssumption == AccessTTL \in Nat \ {0} /\ ContextTTL \in Nat \ {0}
ASSUME PageAssumption == Native \in Page /\ None \notin Page
ASSUME NoneAssumption ==
  /\ None \notin Session \cup Token
  /\ None \notin [state : Tab, next : Page, exp : Nat]
  /\ None \notin [token : Token, httpOnly : BOOLEAN]

VARIABLES
  now,
  access,     \* the cookie mini_auth_access_token
  refresh,    \* the cookie mini_auth_refresh_token
  context,    \* the cookies mini_auth_<provider>_oauth_context
  tab,        \* what each tab is waiting for
  latest,     \* history: the session of the last login that has finished
  lost,       \* history: sessions of which a rotated token never arrived
  muddled,    \* history: requests that set session cookies have overlapped
  shadowed,   \* history: a script's cookie met an HttpOnly one since the
              \* last login or sign-out that a response answered
  crossed     \* history: tabs whose provider login met another of that provider

jarVars == <<access, refresh, context>>
historyVars == <<latest, lost, muddled, shadowed, crossed>>
vars == <<ledgerVars, now, jarVars, tab, historyVars>>

Idle == [at |-> "idle"]

TabState ==
  {Idle}
  \cup [at : {"refreshing", "accepted", "rotated"}, token : Token, body : BOOLEAN]
  \cup [at : {"leaving", "closing", "left"}, token : Token \cup {None}]
  \cup [at : {"signedIn"}, token : Token]
  \cup [at : {"provider"}, provider : Provider, next : Page, exp : Nat]
  \cup [at : {"resolving"}, provider : Provider, next : Page, dest : Page]
  \cup [at : {"completed"}, provider : Provider, next : Page, dest : Page,
        token : Token]
  \cup [at : {"rejected"}, provider : Provider, next : Page,
        dest : Page \cup {None}, why : {"state", "expired", "provider", "address"}]

(* TypeOK: the jar holds what the endpoints put there, and every tab is    *)
(* idle or waits for an answer the server can give (authClient.ts).        *)
TypeOK ==
  /\ now \in Nat
  /\ owner \in [DOMAIN owner -> Session] /\ DOMAIN owner \subseteq Token
  /\ spendable \subseteq DOMAIN owner
  /\ closed \subseteq Session
  /\ access \in [session : Session, exp : Nat, httpOnly : BOOLEAN] \cup {None}
  /\ refresh \in [token : DOMAIN owner, httpOnly : BOOLEAN] \cup {None}
  /\ context \in [Provider ->
                    [state : Tab, next : Page, exp : Nat] \cup {None}]
  /\ tab \in [Tab -> TabState]
  /\ latest \in Session \cup {None}
  /\ lost \subseteq Session
  /\ muddled \in BOOLEAN /\ shadowed \in BOOLEAN
  /\ crossed \subseteq Tab

Init ==
  /\ LedgerInit
  /\ now = 0
  /\ access = None
  /\ refresh = None
  /\ context = [p \in Provider |-> None]
  /\ tab = [b \in Tab |-> Idle]
  /\ latest = None
  /\ lost = {}
  /\ muddled = FALSE
  /\ shadowed = FALSE
  /\ crossed = {}

-----------------------------------------------------------------------------
(* The jar.                                                                *)

\* An access cookie set by a response is gone when its token expires; one set
\* by a script stays, but the server refuses it.
Valid(cookie) == cookie # None /\ cookie.exp > now

Protected(cookie, live) == live /\ cookie.httpOnly

\* Variant of SetByResponse: the values of the two cookies are swapped.
SetByResponseSwapped(t) ==
  /\ refresh' = [session |-> owner[t], exp |-> now + AccessTTL, httpOnly |-> TRUE]
  /\ access' = [token |-> t, httpOnly |-> TRUE]

\* Variant of SetByResponse: the rotated refresh token is not sent back.
SetByResponseAccessOnly(t) ==
  /\ access' = [session |-> owner[t], exp |-> now + AccessTTL, httpOnly |-> TRUE]
  /\ UNCHANGED refresh

\* response.set_cookie for both tokens of t's session.
SetByResponse(t) ==
  /\ access' = [session |-> owner[t], exp |-> now + AccessTTL, httpOnly |-> TRUE]
  /\ refresh' = [token |-> t, httpOnly |-> TRUE]

\* setSessionCookies: each assignment to document.cookie is ignored when the
\* jar holds an HttpOnly cookie of that name.
SetByScript(t) ==
  LET keepAccess  == Protected(access, Valid(access))
      keepRefresh == Protected(refresh, refresh # None)
  IN  /\ access' = IF keepAccess THEN access
                   ELSE [session |-> owner[t], exp |-> now + AccessTTL,
                         httpOnly |-> FALSE]
      /\ refresh' = IF keepRefresh THEN refresh
                    ELSE [token |-> t, httpOnly |-> FALSE]
      /\ shadowed' = (shadowed \/ keepAccess \/ keepRefresh)

\* Variant of ClearSession: the refresh cookie survives the sign-out.
ClearAccessOnly == access' = None /\ UNCHANGED refresh

\* _clear_session_cookies
ClearSession == access' = None /\ refresh' = None

\* Variant of CookieName: both routers use one context cookie.
SharedCookieName(p) == CHOOSE q \in Provider : TRUE

\* OAUTH_CONTEXT_COOKIE and CALLBACK_PATH of the provider's router.
CookieName(p) == p

(* The tabs.                                                               *)

Goes(b, state) == tab' = [tab EXCEPT ![b] = state]

\* The requests under way that change the session cookies when answered.
Busy(b) == tab[b].at \notin {"idle", "provider", "rejected"}
OthersBusy(b) == \E x \in Tab \ {b} : Busy(x)

\* A request of b that will change the session cookies sets out.
SetsOut(b) == muddled' = (muddled \/ OthersBusy(b))

\* A login (to session s) or a sign-out (None) of b has changed the jar.
Settles(b, s) == latest' = s /\ muddled' = OthersBusy(b)

-----------------------------------------------------------------------------
(* getCurrentUser, once /api/v1/me has answered 401: with a refresh cookie *)
(* in the jar the page asks for new tokens.  Without one it is answered    *)
(* 401 at once and nothing changes.  The 401 and the request that follows  *)
(* it are one step: a page that is overtaken between the two by another    *)
(* tab's answer, and asks with a jar already renewed, is left out.         *)

AskRefresh(b) ==
  /\ tab[b] = Idle
  /\ ~Valid(access)
  /\ refresh # None
  /\ Goes(b, [at |-> "refreshing", token |-> refresh.token,
              body |-> ~refresh.httpOnly])
  /\ SetsOut(b)
  /\ UNCHANGED <<ledgerVars, now, jarVars, latest, lost, shadowed, crossed>>

\* _load_refresh_bundle.  Refused, the page takes the user for signed out, and
\* the jar is left as it is.
LoadRefresh(b) ==
  /\ tab[b].at = "refreshing"
  /\ Goes(b, IF tab[b].token \in spendable THEN [tab[b] EXCEPT !.at = "accepted"]
             ELSE Idle)
  /\ UNCHANGED <<ledgerVars, now, jarVars, historyVars>>

CommitRefresh(b, t2) ==
  /\ tab[b].at = "accepted"
  /\ Rotate(tab[b].token, t2)
  /\ Goes(b, [tab[b] EXCEPT !.at = "rotated", !.token = t2])
  /\ UNCHANGED <<now, jarVars, historyVars>>

\* Variant of FinishRefresh: the new refresh token is not sent as a cookie.
FinishRefreshAccessOnly(b) ==
  /\ tab[b].at = "rotated"
  /\ IF tab[b].body THEN SetByScript(tab[b].token)
     ELSE SetByResponseAccessOnly(tab[b].token) /\ UNCHANGED shadowed
  /\ Goes(b, Idle)
  /\ UNCHANGED <<ledgerVars, now, context, latest, lost, muddled, crossed>>

\* The endpoint sets the cookies itself when the request had no body.
FinishRefresh(b) ==
  /\ tab[b].at = "rotated"
  /\ IF tab[b].body THEN SetByScript(tab[b].token)
     ELSE SetByResponse(tab[b].token) /\ UNCHANGED shadowed
  /\ Goes(b, Idle)
  /\ UNCHANGED <<ledgerVars, now, context, latest, lost, muddled, crossed>>

-----------------------------------------------------------------------------
(* GET /logout                                                             *)

AskLogout(b) ==
  /\ tab[b] = Idle
  /\ Goes(b, [at |-> "leaving",
              token |-> IF refresh = None THEN None ELSE refresh.token])
  /\ SetsOut(b)
  /\ UNCHANGED <<ledgerVars, now, jarVars, latest, lost, shadowed, crossed>>

\* A token whose bundle is not found changes nothing and is no error.
LoadLogout(b) ==
  /\ tab[b].at = "leaving"
  /\ Goes(b, [tab[b] EXCEPT !.at = IF tab[b].token \in spendable THEN "closing"
                                   ELSE "left"])
  /\ UNCHANGED <<ledgerVars, now, jarVars, historyVars>>

\* Variant of CommitLogout: only the presented token is ended.
CommitLogoutOfToken(b) ==
  /\ tab[b].at = "closing"
  /\ Lapse({tab[b].token})
  /\ Goes(b, [tab[b] EXCEPT !.at = "left"])
  /\ UNCHANGED <<now, jarVars, historyVars>>

CommitLogout(b) ==
  /\ tab[b].at = "closing"
  /\ Close({owner[tab[b].token]})
  /\ Goes(b, [tab[b] EXCEPT !.at = "left"])
  /\ UNCHANGED <<now, jarVars, historyVars>>

FinishLogout(b) ==
  /\ tab[b].at = "left"
  /\ ClearSession
  /\ shadowed' = FALSE
  /\ Settles(b, None)
  /\ Goes(b, Idle)
  /\ UNCHANGED <<ledgerVars, now, context, lost, crossed>>

-----------------------------------------------------------------------------
(* Logins whose tokens the page's script stores: e-mail code and demo.     *)

ScriptLogin(b, s, t) ==
  /\ tab[b] = Idle
  /\ Grant(s, t)
  /\ Goes(b, [at |-> "signedIn", token |-> t])
  /\ SetsOut(b)
  /\ UNCHANGED <<now, jarVars, latest, lost, shadowed, crossed>>

FinishScriptLogin(b) ==
  /\ tab[b].at = "signedIn"
  /\ SetByScript(tab[b].token)
  /\ Settles(b, owner[tab[b].token])
  /\ Goes(b, Idle)
  /\ UNCHANGED <<ledgerVars, now, context, lost, crossed>>

-----------------------------------------------------------------------------
(* Logins through an external provider.  The state in the signed context   *)
(* is random: it is named by the tab that started, which returns with the  *)
(* state of its last start.                                                *)

\* The tabs waiting for p meet a start or an answer of another tab.
Cross(b, p) ==
  LET rivals == {x \in Tab \ {b} : /\ tab[x].at # "idle"
                                   /\ "provider" \in DOMAIN tab[x]
                                   /\ tab[x].provider = p}
  IN  crossed' = IF rivals = {} THEN crossed \ {b} ELSE crossed \cup rivals \cup {b}

\* create_oauth_context
NewContext(b, n) == [state |-> b, next |-> n, exp |-> now + ContextTTL]

\* GET /api/v1/auth/<provider>/start
StartProvider(b, p, n) ==
  /\ tab[b] = Idle
  /\ context' = [context EXCEPT ![CookieName(p)] = NewContext(b, n)]
  /\ Goes(b, [at |-> "provider", provider |-> p, next |-> n,
              exp |-> now + ContextTTL])
  /\ Cross(b, p)
  /\ UNCHANGED <<ledgerVars, now, access, refresh, latest, lost, muddled, shadowed>>

\* Variant of Decoded: the state is not compared with the context's.
DecodedAnyState(b, cookie) == Valid(cookie)

\* decode_oauth_context for the state b returns with.
Decoded(b, cookie) == Valid(cookie) /\ cookie.state = b

Rejected(b, dest, why) ==
  [at |-> "rejected", provider |-> tab[b].provider, next |-> tab[b].next,
   dest |-> dest, why |-> why]

\* GET /api/v1/auth/<provider>/callback, up to the provider's answer.
ReturnAccepted(b) ==
  /\ tab[b].at = "provider"
  /\ LET cookie == context[CookieName(tab[b].provider)]
     IN  /\ Decoded(b, cookie)
         /\ Goes(b, [at |-> "resolving", provider |-> tab[b].provider,
                     next |-> tab[b].next, dest |-> cookie.next])
  /\ SetsOut(b)
  /\ UNCHANGED <<ledgerVars, now, jarVars, latest, lost, shadowed, crossed>>

ReturnRejected(b) ==
  /\ tab[b].at = "provider"
  /\ ~Decoded(b, context[CookieName(tab[b].provider)])
  /\ Goes(b, Rejected(b, None, IF tab[b].exp > now THEN "state" ELSE "expired"))
  /\ UNCHANGED <<ledgerVars, now, jarVars, historyVars>>

\* The user declines, the provider fails or does not accept the verifier.
ProviderRefuses(b) ==
  /\ tab[b].at = "resolving"
  /\ Goes(b, Rejected(b, tab[b].dest, "provider"))
  /\ UNCHANGED <<ledgerVars, now, jarVars, historyVars>>

\* The identity is resolved and issue_tokens commits.
CommitProvider(b, s, t) ==
  /\ tab[b].at = "resolving"
  /\ Grant(s, t)
  /\ Goes(b, [at |-> "completed", provider |-> tab[b].provider,
              next |-> tab[b].next, dest |-> tab[b].dest, token |-> t])
  /\ UNCHANGED <<now, jarVars, historyVars>>

\* The tokens are issued before the redirect_uri in a native address is found
\* not to be allowed: nobody gets them.
NativeRefused(b) ==
  /\ tab[b].at = "completed"
  /\ tab[b].dest = Native
  /\ Goes(b, Rejected(b, Native, "address"))
  /\ UNCHANGED <<ledgerVars, now, jarVars, historyVars>>

\* Whatever the outcome, the provider's context cookie is deleted.
DeleteContext(b) ==
  context' = [context EXCEPT ![CookieName(tab[b].provider)] = None]

\* A native application gets its tokens in the address, a page in cookies.
FinishProvider(b) ==
  /\ tab[b].at = "completed"
  /\ DeleteContext(b)
  /\ Cross(b, tab[b].provider)
  /\ IF tab[b].dest = Native
     THEN UNCHANGED <<access, refresh, shadowed, latest, muddled>>
     ELSE /\ SetByResponse(tab[b].token)
          /\ shadowed' = FALSE
          /\ Settles(b, owner[tab[b].token])
  /\ Goes(b, Idle)
  /\ UNCHANGED <<ledgerVars, now, lost>>

FinishRejected(b) ==
  /\ tab[b].at = "rejected"
  /\ DeleteContext(b)
  /\ Cross(b, tab[b].provider)
  /\ Goes(b, Idle)
  /\ UNCHANGED <<ledgerVars, now, access, refresh, latest, lost, muddled, shadowed>>

-----------------------------------------------------------------------------
\* The answer never reaches the jar: the network fails, or the tab is closed
\* or navigates before its script has run.
Lose(b) ==
  /\ tab[b].at \in {"rotated", "left", "signedIn", "completed", "rejected"}
  /\ lost' = IF tab[b].at = "rotated" THEN lost \cup {owner[tab[b].token]} ELSE lost
  /\ Goes(b, Idle)
  /\ UNCHANGED <<ledgerVars, now, jarVars, latest, muddled, shadowed, crossed>>

\* Another device revokes the session.
RevokedElsewhere(s) ==
  /\ s \in {owner[t] : t \in spendable}
  /\ Close({s})
  /\ UNCHANGED <<now, jarVars, tab, historyVars>>

Tick ==
  /\ now < Horizon
  /\ now' = now + 1
  /\ UNCHANGED <<ledgerVars, jarVars, tab, historyVars>>

Next ==
  \/ \E b \in Tab : AskRefresh(b)
  \/ \E b \in Tab : LoadRefresh(b)
  \/ \E b \in Tab, t2 \in Token : CommitRefresh(b, t2)
  \/ \E b \in Tab : FinishRefresh(b)
  \/ \E b \in Tab : AskLogout(b)
  \/ \E b \in Tab : LoadLogout(b)
  \/ \E b \in Tab : CommitLogout(b)
  \/ \E b \in Tab : FinishLogout(b)
  \/ \E b \in Tab, s \in Session, t \in Token : ScriptLogin(b, s, t)
  \/ \E b \in Tab : FinishScriptLogin(b)
  \/ \E b \in Tab, p \in Provider, n \in Page : StartProvider(b, p, n)
  \/ \E b \in Tab : ReturnAccepted(b)
  \/ \E b \in Tab : ReturnRejected(b)
  \/ \E b \in Tab : ProviderRefuses(b)
  \/ \E b \in Tab, s \in Session, t \in Token : CommitProvider(b, s, t)
  \/ \E b \in Tab : NativeRefused(b)
  \/ \E b \in Tab : FinishProvider(b)
  \/ \E b \in Tab : FinishRejected(b)
  \/ \E b \in Tab : Lose(b)
  \/ \E s \in Session : RevokedElsewhere(s)
  \/ Tick

Spec == Init /\ [][Next]_vars

-----------------------------------------------------------------------------
(* Properties.                                                             *)

(* JarStaysAlive: the refresh token in the jar still works, or the answer  *)
(* that replaces it is on its way to some tab, unless the session was      *)
(* revoked or such an answer was lost.  So tabs that refresh together      *)
(* (getCurrentUser) never leave the browser with a used-up token.          *)
JarStaysAlive ==
  refresh # None =>
    LET s == owner[refresh.token]
    IN  \/ refresh.token \in spendable
        \/ s \in closed \cup lost
        \/ \E b \in Tab : /\ tab[b].at = "rotated"
                          /\ tab[b].token \in spendable
                          /\ owner[tab[b].token] = s

(* CookiesMatch: a valid access token and the refresh token beside it are  *)
(* of one session, however the answers of several tabs interleave.  The    *)
(* exception is a script's login over HttpOnly cookies (setSessionCookies  *)
(* after a login through a provider).                                      *)
CookiesMatch ==
  Valid(access) /\ refresh # None /\ ~shadowed =>
    access.session = owner[refresh.token]

(* JarFollowsLogin: the jar is that of the last login that has finished,   *)
(* and empty after a sign-out, when the requests of two tabs did not       *)
(* overlap and no HttpOnly cookie was in the way.                          *)
JarFollowsLogin ==
  ~muddled /\ ~shadowed =>
    /\ latest = None <=> refresh = None
    /\ refresh # None => owner[refresh.token] = latest

(* LogoutCloses: a sign-out has closed the session on the server by the    *)
(* time the browser is told so, unless another tab's refresh overlapped it *)
(* or the jar's token had been used up by an answer that was lost.         *)
LogoutCloses ==
  \A b \in Tab :
    tab[b].at = "left" /\ tab[b].token # None /\ ~muddled =>
      owner[tab[b].token] \in closed \cup lost

(* OwnReturnAddress: a tab that comes back from a provider is sent to the  *)
(* address it asked for or to the bare login page, never to the address of *)
(* another tab's login (decode_oauth_context).                             *)
OwnReturnAddress ==
  \A b \in Tab :
    tab[b].at \in {"resolving", "completed", "rejected"} =>
      tab[b].dest \in {tab[b].next, None}

(* SoleLoginAccepted: a login is refused for its state only if another tab *)
(* used the same provider meanwhile: logins through different providers    *)
(* and other requests do not disturb it (the context cookie).              *)
SoleLoginAccepted ==
  \A b \in Tab :
    tab[b].at = "rejected" /\ tab[b].why = "state" => b \in crossed
===============================================================================
