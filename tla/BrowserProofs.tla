----------------------------- MODULE BrowserProofs -----------------------------
(***************************************************************************)
(* Proofs about Browser for any number of tabs, providers, addresses,      *)
(* sessions and tokens: the jar and the tabs are well-formed, and what the *)
(* one context cookie of a provider does to logins in several tabs.        *)
(*                                                                         *)
(* The step that returns from a provider compares two copies: the context  *)
(* in the jar and what the tab asked for.  NextMatches says that they      *)
(* agree wherever the state does, ContextAwaited that the context is there *)
(* as long as no other tab has used the provider.                          *)
(***************************************************************************)
EXTENDS Browser, TokenLedgerProofs

\* The token a tab will store, rotate or end has been issued.
TokensIssued ==
  \A b \in Tab :
    tab[b].at \in {"refreshing", "accepted", "rotated", "signedIn", "completed",
                   "closing"} =>
      tab[b].token \in DOMAIN owner

NextMatches ==
  \A b \in Tab :
    tab[b].at = "provider" =>
      LET cookie == context[tab[b].provider]
      IN  cookie # None /\ cookie.state = b => cookie.next = tab[b].next

ContextAwaited ==
  \A b \in Tab \ crossed :
    tab[b].at = "provider" /\ tab[b].exp > now =>
      LET cookie == context[tab[b].provider]
      IN  cookie # None /\ cookie.state = b /\ cookie.exp = tab[b].exp

-----------------------------------------------------------------------------
(* What a tab at each step of its request looks like.                      *)

LEMMA TabFields ==
  ASSUME NEW r \in TabState
  PROVE  /\ r.at \in {"refreshing", "accepted", "rotated"} =>
              r.token \in Token /\ r.body \in BOOLEAN
         /\ r.at \in {"leaving", "closing", "left"} => r.token \in Token \cup {None}
         /\ r.at = "signedIn" => r.token \in Token
         /\ r.at = "provider" =>
              r.provider \in Provider /\ r.next \in Page /\ r.exp \in Nat
         /\ r.at = "resolving" =>
              r.provider \in Provider /\ r.next \in Page /\ r.dest \in Page
         /\ r.at = "completed" =>
              /\ r.provider \in Provider /\ r.next \in Page /\ r.dest \in Page
              /\ r.token \in Token
         /\ r.at = "rejected" =>
              /\ r.provider \in Provider /\ r.next \in Page
              /\ r.dest \in Page \cup {None}
         /\ r.at \in {"provider", "resolving", "completed", "rejected"} =>
              "provider" \in DOMAIN r
         /\ Idle.at = "idle"
BY DEF TabState, Idle

LEMMA TabMoves ==
  ASSUME tab \in [Tab -> TabState], NEW b \in Tab, NEW r, Goes(b, r)
  PROVE  /\ tab'[b] = r
         /\ \A x \in Tab \ {b} : tab'[x] = tab[x]
         /\ r \in TabState => tab' \in [Tab -> TabState]
BY DEF Goes

\* The next step of a tab, by its present one.
LEMMA NextStates ==
  ASSUME tab \in [Tab -> TabState], NEW b \in Tab
  PROVE  /\ Idle \in TabState
         /\ tab[b].at = "refreshing" =>
              [tab[b] EXCEPT !.at = "accepted"] \in TabState
         /\ \A t \in Token :
              tab[b].at = "accepted" =>
                /\ [tab[b] EXCEPT !.at = "rotated", !.token = t] \in TabState
                /\ [tab[b] EXCEPT !.at = "rotated", !.token = t].at = "rotated"
         /\ tab[b].at \in {"leaving", "closing"} =>
              /\ [tab[b] EXCEPT !.at = "closing"] \in TabState
              /\ [tab[b] EXCEPT !.at = "left"] \in TabState
         /\ \A t \in Token : [at |-> "signedIn", token |-> t] \in TabState
         /\ \A t \in Token \cup {None} : [at |-> "leaving", token |-> t] \in TabState
         /\ \A p \in Provider, n \in Page, e \in Nat :
              [at |-> "provider", provider |-> p, next |-> n, exp |-> e] \in TabState
         /\ \A p \in Provider, n \in Page, d \in Page :
              [at |-> "resolving", provider |-> p, next |-> n, dest |-> d] \in TabState
         /\ \A p \in Provider, n \in Page, d \in Page, t \in Token :
              [at |-> "completed", provider |-> p, next |-> n, dest |-> d,
               token |-> t] \in TabState
         /\ \A p \in Provider, n \in Page, d \in Page \cup {None},
               w \in {"state", "expired", "provider", "address"} :
              [at |-> "rejected", provider |-> p, next |-> n, dest |-> d,
               why |-> w] \in TabState
<1> DEFINE r == tab[b]
<1>1. r \in TabState
  OBVIOUS
<1> HIDE DEF r
<1>2. ASSUME r.at \in {"refreshing", "accepted"}
      PROVE  /\ [r EXCEPT !.at = "accepted"] \in TabState
             /\ \A t \in Token :
                  /\ [r EXCEPT !.at = "rotated", !.token = t] \in TabState
                  /\ [r EXCEPT !.at = "rotated", !.token = t].at = "rotated"
  <2> DEFINE R == [at : {"refreshing", "accepted", "rotated"}, token : Token,
                   body : BOOLEAN]
  <2>1. r \in R
    BY <1>1, <1>2 DEF TabState, Idle
  <2>2. [r EXCEPT !.at = "accepted"] \in R
    BY <2>1
  <2>3. \A t \in Token :
          /\ [r EXCEPT !.at = "rotated", !.token = t] \in R
          /\ [r EXCEPT !.at = "rotated", !.token = t].at = "rotated"
    BY <2>1
  <2>4. R \subseteq TabState
    BY DEF TabState
  <2> HIDE DEF R
  <2> QED  BY <2>2, <2>3, <2>4
<1>3. ASSUME r.at \in {"leaving", "closing"}
      PROVE  /\ [r EXCEPT !.at = "closing"] \in TabState
             /\ [r EXCEPT !.at = "left"] \in TabState
  <2> DEFINE R == [at : {"leaving", "closing", "left"}, token : Token \cup {None}]
  <2>1. r \in R
    BY <1>1, <1>3 DEF TabState, Idle
  <2>2. [r EXCEPT !.at = "closing"] \in R /\ [r EXCEPT !.at = "left"] \in R
    BY <2>1
  <2>3. R \subseteq TabState
    BY DEF TabState
  <2> HIDE DEF R
  <2> QED  BY <2>2, <2>3
<1>4. /\ Idle \in TabState
      /\ \A t \in Token : [at |-> "signedIn", token |-> t] \in TabState
      /\ \A t \in Token \cup {None} : [at |-> "leaving", token |-> t] \in TabState
  BY DEF TabState
<1>5. \A p \in Provider, n \in Page, e \in Nat :
        [at |-> "provider", provider |-> p, next |-> n, exp |-> e] \in TabState
  BY DEF TabState
<1>6. \A p \in Provider, n \in Page, d \in Page :
        [at |-> "resolving", provider |-> p, next |-> n, dest |-> d] \in TabState
  BY DEF TabState
<1>7. \A p \in Provider, n \in Page, d \in Page, t \in Token :
        [at |-> "completed", provider |-> p, next |-> n, dest |-> d,
         token |-> t] \in TabState
  BY DEF TabState
<1>8. \A p \in Provider, n \in Page, d \in Page \cup {None},
         w \in {"state", "expired", "provider", "address"} :
        [at |-> "rejected", provider |-> p, next |-> n, dest |-> d,
         why |-> w] \in TabState
  BY DEF TabState
<1>9. /\ tab[b].at = "refreshing" => [tab[b] EXCEPT !.at = "accepted"] \in TabState
      /\ \A t \in Token :
           tab[b].at = "accepted" =>
             /\ [tab[b] EXCEPT !.at = "rotated", !.token = t] \in TabState
             /\ [tab[b] EXCEPT !.at = "rotated", !.token = t].at = "rotated"
      /\ tab[b].at \in {"leaving", "closing"} =>
           /\ [tab[b] EXCEPT !.at = "closing"] \in TabState
           /\ [tab[b] EXCEPT !.at = "left"] \in TabState
  BY <1>2, <1>3 DEF r
<1> QED  BY <1>4, <1>5, <1>6, <1>7, <1>8, <1>9

-----------------------------------------------------------------------------
(* The ledger and the jar.                                                 *)

LedgerOK ==
  /\ owner \in [DOMAIN owner -> Session] /\ DOMAIN owner \subseteq Token
  /\ spendable \subseteq DOMAIN owner
  /\ closed \subseteq Session

JarOK ==
  /\ access \in [session : Session, exp : Nat, httpOnly : BOOLEAN] \cup {None}
  /\ refresh \in [token : DOMAIN owner, httpOnly : BOOLEAN] \cup {None}

LEMMA GrantKeeps ==
  ASSUME LedgerOK, NEW s \in Session, NEW t \in Token, Grant(s, t)
  PROVE  /\ LedgerOK'
         /\ DOMAIN owner' = DOMAIN owner \cup {t}
BY DEF LedgerOK, Grant, Issued

LEMMA RotateKeeps ==
  ASSUME LedgerOK, NEW t, NEW t2 \in Token, Rotate(t, t2)
  PROVE  /\ LedgerOK'
         /\ DOMAIN owner' = DOMAIN owner \cup {t2}
BY DEF LedgerOK, Rotate, Issued

LEMMA CloseKeeps ==
  ASSUME LedgerOK, NEW s \in Session, Close({s})
  PROVE  LedgerOK' /\ owner' = owner
BY DEF LedgerOK, Close

LEMMA JarKept ==
  ASSUME JarOK, UNCHANGED <<access, refresh>>,
         DOMAIN owner \subseteq DOMAIN owner'
  PROVE  JarOK'
BY DEF JarOK

\* What the cookies of t's session look like, whoever sets them.
LEMMA CookieTypes ==
  ASSUME LedgerOK, now \in Nat, NEW t \in DOMAIN owner, NEW h \in BOOLEAN
  PROVE  /\ [session |-> owner[t], exp |-> now + AccessTTL, httpOnly |-> h]
              \in [session : Session, exp : Nat, httpOnly : BOOLEAN]
         /\ [token |-> t, httpOnly |-> h] \in [token : DOMAIN owner, httpOnly : BOOLEAN]
<1>1. owner[t] \in Session
  BY DEF LedgerOK
<1>2. now + AccessTTL \in Nat
  BY LifetimeAssumption
<1> QED  BY <1>1, <1>2

LEMMA JarSet ==
  ASSUME LedgerOK, JarOK, now \in Nat, NEW t \in DOMAIN owner, UNCHANGED owner,
         SetByResponse(t) \/ SetByScript(t)
  PROVE  JarOK'
<1>1. CASE SetByResponse(t)
  BY <1>1, CookieTypes DEF SetByResponse, JarOK
<1>2. CASE SetByScript(t)
  <2>1. access' \in {access, [session |-> owner[t], exp |-> now + AccessTTL,
                              httpOnly |-> FALSE]}
    BY <1>2 DEF SetByScript
  <2>2. refresh' \in {refresh, [token |-> t, httpOnly |-> FALSE]}
    BY <1>2 DEF SetByScript
  <2> QED  BY <2>1, <2>2, CookieTypes DEF JarOK
<1> QED  BY <1>1, <1>2

\* A move of one tab keeps every tab's token issued.
LEMMA IssuedKept ==
  ASSUME TokensIssued, tab \in [Tab -> TabState], NEW b \in Tab, NEW r, Goes(b, r),
         DOMAIN owner \subseteq DOMAIN owner',
         r.at \in {"refreshing", "accepted", "rotated", "signedIn", "completed",
                   "closing"} => r.token \in DOMAIN owner'
  PROVE  TokensIssued'
<1> SUFFICES ASSUME NEW x \in Tab,
                    tab'[x].at \in {"refreshing", "accepted", "rotated", "signedIn",
                                    "completed", "closing"}
             PROVE  tab'[x].token \in DOMAIN owner'
  BY DEF TokensIssued
<1>1. CASE x = b
  BY <1>1, TabMoves
<1>2. CASE x # b
  <2>1. tab'[x] = tab[x]
    BY <1>2, TabMoves
  <2> QED  BY <2>1 DEF TokensIssued
<1> QED  BY <1>1, <1>2

-----------------------------------------------------------------------------
(* The jar and the tabs.                                                   *)

Cookie == [state : Tab, next : Page, exp : Nat] \cup {None}

RestOK ==
  /\ now \in Nat
  /\ context \in [Provider -> Cookie]
  /\ latest \in Session \cup {None}
  /\ lost \subseteq Session
  /\ muddled \in BOOLEAN /\ shadowed \in BOOLEAN
  /\ crossed \subseteq Tab

TypeInv == LedgerOK /\ JarOK /\ RestOK /\ tab \in [Tab -> TabState] /\ TokensIssued

LEMMA TypeInvIsTypeOK == TypeInv => TypeOK
BY DEF TypeInv, LedgerOK, JarOK, RestOK, Cookie, TypeOK

LEMMA TypeInit == Init => TypeInv
<1> SUFFICES ASSUME Init
             PROVE  TypeInv
  OBVIOUS
<1>1. LedgerOK /\ JarOK
  BY DEF Init, LedgerInit, LedgerOK, JarOK
<1>2. RestOK
  BY DEF Init, RestOK, Cookie
<1>3. tab \in [Tab -> TabState] /\ TokensIssued
  BY DEF Init, TabState, Idle, TokensIssued
<1> QED  BY <1>1, <1>2, <1>3 DEF TypeInv

LEMMA FlagTypes ==
  /\ \A b : (SetsOut(b) => muddled' \in BOOLEAN)
  /\ \A b, s : (Settles(b, s) => muddled' \in BOOLEAN)
  /\ \A t : (SetByScript(t) => shadowed' \in BOOLEAN)
<1>1. ASSUME NEW b, SetsOut(b)
      PROVE  muddled' \in BOOLEAN
  BY <1>1, Zenon DEF SetsOut
<1>2. ASSUME NEW b, NEW s, Settles(b, s)
      PROVE  muddled' \in BOOLEAN
  BY <1>2, Zenon DEF Settles, OthersBusy
<1>3. ASSUME NEW t, SetByScript(t)
      PROVE  shadowed' \in BOOLEAN
  BY <1>3, Zenon DEF SetByScript
<1> QED  BY <1>1, <1>2, <1>3

LEMMA CrossType ==
  ASSUME crossed \subseteq Tab, NEW b \in Tab, NEW p, Cross(b, p)
  PROVE  crossed' \subseteq Tab
BY DEF Cross

\* A tab's login through a provider, seen from the cookie jar.
LEMMA ContextType ==
  ASSUME context \in [Provider -> Cookie], now \in Nat, NEW p \in Provider, NEW b \in Tab
  PROVE  /\ [context EXCEPT ![p] = None] \in [Provider -> Cookie]
         /\ \A n \in Page :
              [context EXCEPT ![p] = NewContext(b, n)] \in [Provider -> Cookie]
<1>1. \A n \in Page : NewContext(b, n) \in Cookie
  BY LifetimeAssumption DEF NewContext, Cookie
<1> QED  BY <1>1 DEF Cookie

LEMMA TypeStep ==
  ASSUME TypeInv, [Next]_vars
  PROVE  TypeInv'
<1> USE DEF TypeInv
<1> DEFINE Holding(r) ==
      r.at \in {"refreshing", "accepted", "rotated", "signedIn", "completed",
                "closing"} => r.token \in DOMAIN owner'
\* Requests that only read: the jar and the ledger stay.
<1>1. ASSUME NEW b \in Tab, AskRefresh(b)
      PROVE  TypeInv'
  <2> DEFINE r == [at |-> "refreshing", token |-> refresh.token,
                   body |-> ~refresh.httpOnly]
  <2>1. refresh.token \in DOMAIN owner
    BY <1>1 DEF AskRefresh, JarOK
  <2>2. (~refresh.httpOnly) \in BOOLEAN
    BY Zenon
  <2>3. r \in [at : {"refreshing", "accepted", "rotated"}, token : Token,
               body : BOOLEAN]
    BY <2>1, <2>2, Zenon DEF LedgerOK
  <2>4. r \in TabState
    BY <2>3 DEF TabState
  <2>5. Holding(r)
    BY <1>1, <2>1 DEF AskRefresh, ledgerVars
  <2>6. Goes(b, r) /\ owner' = owner
    BY <1>1 DEF AskRefresh, ledgerVars
  <2> HIDE DEF r
  <2>7. TokensIssued' /\ tab' \in [Tab -> TabState]
    BY <2>4, <2>5, <2>6, IssuedKept, TabMoves
  <2>8. LedgerOK' /\ JarOK'
    BY <1>1 DEF AskRefresh, ledgerVars, jarVars, LedgerOK, JarOK
  <2>9. RestOK'
    BY <1>1, FlagTypes DEF AskRefresh, jarVars, RestOK
  <2> QED  BY <2>7, <2>8, <2>9
<1>2. ASSUME NEW b \in Tab, LoadRefresh(b)
      PROVE  TypeInv'
  <2> DEFINE r == IF tab[b].token \in spendable THEN [tab[b] EXCEPT !.at = "accepted"]
                  ELSE Idle
  <2>1. r \in TabState
    BY <1>2, NextStates DEF LoadRefresh
  <2>2. Holding(r)
    <3>1. CASE tab[b].token \in spendable
      <4>1. [tab[b] EXCEPT !.at = "accepted"].token = tab[b].token
        BY <1>2 DEF LoadRefresh, TabState, Idle
      <4> QED  BY <1>2, <3>1, <4>1 DEF LoadRefresh, ledgerVars, LedgerOK
    <3>2. CASE tab[b].token \notin spendable
      BY <3>2 DEF Idle
    <3> QED  BY <3>1, <3>2
  <2>3. Goes(b, r) /\ owner' = owner
    BY <1>2 DEF LoadRefresh, ledgerVars
  <2> HIDE DEF r
  <2>4. TokensIssued' /\ tab' \in [Tab -> TabState]
    BY <2>1, <2>2, <2>3, IssuedKept, TabMoves
  <2>5. LedgerOK' /\ JarOK' /\ RestOK'
    BY <1>2 DEF LoadRefresh, ledgerVars, jarVars, historyVars, LedgerOK, JarOK, RestOK
  <2> QED  BY <2>4, <2>5
<1>3. ASSUME NEW b \in Tab, NEW t2 \in Token, CommitRefresh(b, t2)
      PROVE  TypeInv'
  <2> DEFINE r == [tab[b] EXCEPT !.at = "rotated", !.token = t2]
  <2>1. LedgerOK' /\ DOMAIN owner' = DOMAIN owner \cup {t2}
    BY <1>3, RotateKeeps DEF CommitRefresh
  <2>2. r \in TabState
    BY <1>3, NextStates DEF CommitRefresh
  <2>3. r.token = t2
    BY <1>3 DEF CommitRefresh, TabState, Idle
  <2>4. Goes(b, r) /\ Holding(r)
    BY <1>3, <2>1, <2>3 DEF CommitRefresh
  <2> HIDE DEF r
  <2>5. TokensIssued' /\ tab' \in [Tab -> TabState]
    BY <2>1, <2>2, <2>4, IssuedKept, TabMoves
  <2>6. JarOK' /\ RestOK'
    BY <1>3, <2>1, JarKept DEF CommitRefresh, jarVars, historyVars, RestOK
  <2> QED  BY <2>1, <2>5, <2>6
<1>4. ASSUME NEW b \in Tab, FinishRefresh(b)
      PROVE  TypeInv'
  <2>1. tab[b].token \in DOMAIN owner
    BY <1>4 DEF FinishRefresh, TokensIssued
  <2>2. LedgerOK' /\ owner' = owner /\ Goes(b, Idle)
    BY <1>4 DEF FinishRefresh, ledgerVars, LedgerOK
  <2>3. JarOK'
    BY <1>4, <2>1, <2>2, JarSet DEF FinishRefresh, RestOK
  <2>4. TokensIssued' /\ tab' \in [Tab -> TabState]
    BY <2>2, IssuedKept, TabMoves, NextStates DEF Idle
  <2>5. RestOK'
    BY <1>4, FlagTypes DEF FinishRefresh, RestOK
  <2> QED  BY <2>2, <2>3, <2>4, <2>5
\* Signing out.
<1>5. ASSUME NEW b \in Tab, AskLogout(b)
      PROVE  TypeInv'
  <2> DEFINE t == IF refresh = None THEN None ELSE refresh.token
  <2> DEFINE r == [at |-> "leaving", token |-> t]
  <2>1. t \in Token \cup {None}
    BY DEF JarOK, LedgerOK
  <2>2. r \in TabState /\ Holding(r) /\ Goes(b, r) /\ owner' = owner
    BY <1>5, <2>1, NextStates DEF AskLogout, ledgerVars
  <2> HIDE DEF r
  <2>3. TokensIssued' /\ tab' \in [Tab -> TabState]
    BY <2>2, IssuedKept, TabMoves
  <2>4. LedgerOK' /\ JarOK'
    BY <1>5 DEF AskLogout, ledgerVars, jarVars, LedgerOK, JarOK
  <2>5. RestOK'
    BY <1>5, FlagTypes DEF AskLogout, jarVars, RestOK
  <2> QED  BY <2>3, <2>4, <2>5
<1>6. ASSUME NEW b \in Tab, LoadLogout(b)
      PROVE  TypeInv'
  <2> DEFINE r == [tab[b] EXCEPT !.at = IF tab[b].token \in spendable THEN "closing"
                                        ELSE "left"]
  <2>1. r \in TabState
    BY <1>6, NextStates DEF LoadLogout
  <2>2. r.token = tab[b].token /\ (r.at = "closing" => tab[b].token \in spendable)
        /\ r.at \in {"closing", "left"}
    BY <1>6 DEF LoadLogout, TabState, Idle
  <2>3. Goes(b, r) /\ owner' = owner
    BY <1>6 DEF LoadLogout, ledgerVars
  <2> HIDE DEF r
  <2>4. Holding(r)
    BY <2>2, <2>3 DEF LedgerOK
  <2>5. TokensIssued' /\ tab' \in [Tab -> TabState]
    BY <2>1, <2>3, <2>4, IssuedKept, TabMoves
  <2>6. LedgerOK' /\ JarOK' /\ RestOK'
    BY <1>6 DEF LoadLogout, ledgerVars, jarVars, historyVars, LedgerOK, JarOK, RestOK
  <2> QED  BY <2>5, <2>6
<1>7. ASSUME NEW b \in Tab, CommitLogout(b)
      PROVE  TypeInv'
  <2> DEFINE r == [tab[b] EXCEPT !.at = "left"]
  <2>1. owner[tab[b].token] \in Session
    BY <1>7 DEF CommitLogout, TokensIssued, LedgerOK
  <2>2. LedgerOK' /\ owner' = owner
    BY <1>7, <2>1, CloseKeeps DEF CommitLogout
  <2>3. r \in TabState /\ Goes(b, r)
    BY <1>7, NextStates DEF CommitLogout
  <2>4. r.at = "left"
    BY <1>7 DEF CommitLogout, TabState, Idle
  <2> HIDE DEF r
  <2>5. TokensIssued' /\ tab' \in [Tab -> TabState]
    BY <2>2, <2>3, <2>4, IssuedKept, TabMoves
  <2>6. JarOK' /\ RestOK'
    BY <1>7, <2>2, JarKept DEF CommitLogout, jarVars, historyVars, RestOK
  <2> QED  BY <2>2, <2>5, <2>6
<1>8. ASSUME NEW b \in Tab, FinishLogout(b)
      PROVE  TypeInv'
  <2>1. LedgerOK' /\ JarOK' /\ owner' = owner /\ Goes(b, Idle)
    BY <1>8 DEF FinishLogout, ClearSession, ledgerVars, LedgerOK, JarOK
  <2>2. TokensIssued' /\ tab' \in [Tab -> TabState]
    BY <2>1, IssuedKept, TabMoves, NextStates DEF Idle
  <2>3. RestOK'
    BY <1>8, FlagTypes DEF FinishLogout, Settles, RestOK
  <2> QED  BY <2>1, <2>2, <2>3
\* Logins.
<1>9. ASSUME NEW b \in Tab, NEW s \in Session, NEW t \in Token, ScriptLogin(b, s, t)
      PROVE  TypeInv'
  <2> DEFINE r == [at |-> "signedIn", token |-> t]
  <2>1. LedgerOK' /\ DOMAIN owner' = DOMAIN owner \cup {t}
    BY <1>9, GrantKeeps DEF ScriptLogin
  <2>2. r \in TabState /\ Goes(b, r) /\ Holding(r)
    BY <1>9, <2>1, NextStates DEF ScriptLogin
  <2> HIDE DEF r
  <2>3. TokensIssued' /\ tab' \in [Tab -> TabState]
    BY <2>1, <2>2, IssuedKept, TabMoves
  <2>4. JarOK'
    BY <1>9, <2>1, JarKept DEF ScriptLogin, jarVars
  <2>5. RestOK'
    BY <1>9, FlagTypes DEF ScriptLogin, jarVars, RestOK
  <2> QED  BY <2>1, <2>3, <2>4, <2>5
<1>10. ASSUME NEW b \in Tab, FinishScriptLogin(b)
       PROVE  TypeInv'
  <2>1. tab[b].token \in DOMAIN owner /\ owner[tab[b].token] \in Session
    BY <1>10 DEF FinishScriptLogin, TokensIssued, LedgerOK
  <2>2. LedgerOK' /\ owner' = owner /\ Goes(b, Idle)
    BY <1>10 DEF FinishScriptLogin, ledgerVars, LedgerOK
  <2>3. JarOK'
    BY <1>10, <2>1, <2>2, JarSet DEF FinishScriptLogin, RestOK
  <2>4. TokensIssued' /\ tab' \in [Tab -> TabState]
    BY <2>2, IssuedKept, TabMoves, NextStates DEF Idle
  <2>5. RestOK'
    <3>1. shadowed' \in BOOLEAN /\ muddled' \in BOOLEAN
      BY <1>10, FlagTypes DEF FinishScriptLogin
    <3>2. latest' = owner[tab[b].token]
      BY <1>10 DEF FinishScriptLogin, Settles
    <3> QED  BY <1>10, <2>1, <3>1, <3>2 DEF FinishScriptLogin, RestOK
  <2> QED  BY <2>2, <2>3, <2>4, <2>5
<1>11. ASSUME NEW b \in Tab, NEW p \in Provider, NEW n \in Page, StartProvider(b, p, n)
       PROVE  TypeInv'
  <2> DEFINE r == [at |-> "provider", provider |-> p, next |-> n,
                   exp |-> now + ContextTTL]
  <2>1. now + ContextTTL \in Nat
    BY LifetimeAssumption DEF RestOK
  <2>2. r \in TabState /\ Goes(b, r) /\ Holding(r) /\ owner' = owner
    BY <1>11, <2>1, NextStates DEF StartProvider, ledgerVars
  <2> HIDE DEF r
  <2>3. TokensIssued' /\ tab' \in [Tab -> TabState]
    BY <2>2, IssuedKept, TabMoves
  <2>4. LedgerOK' /\ JarOK'
    BY <1>11 DEF StartProvider, ledgerVars, LedgerOK, JarOK
  <2>5. context' \in [Provider -> Cookie]
    BY <1>11, ContextType DEF StartProvider, CookieName, RestOK
  <2>6. RestOK'
    BY <1>11, <2>5, CrossType DEF StartProvider, RestOK
  <2> QED  BY <2>3, <2>4, <2>6
<1>12. ASSUME NEW b \in Tab, ReturnAccepted(b)
       PROVE  TypeInv'
  <2> DEFINE cookie == context[CookieName(tab[b].provider)]
  <2> DEFINE r == [at |-> "resolving", provider |-> tab[b].provider,
                   next |-> tab[b].next, dest |-> cookie.next]
  <2>1. tab[b].provider \in Provider /\ tab[b].next \in Page
    BY <1>12, TabFields DEF ReturnAccepted
  <2>2. cookie.next \in Page
    BY <1>12, <2>1 DEF ReturnAccepted, Decoded, Valid, CookieName, Cookie, RestOK
  <2>3. r \in TabState /\ Goes(b, r) /\ Holding(r) /\ owner' = owner
    BY <1>12, <2>1, <2>2, NextStates DEF ReturnAccepted, ledgerVars
  <2> HIDE DEF r
  <2>4. TokensIssued' /\ tab' \in [Tab -> TabState]
    BY <2>3, IssuedKept, TabMoves
  <2>5. LedgerOK' /\ JarOK'
    BY <1>12 DEF ReturnAccepted, ledgerVars, jarVars, LedgerOK, JarOK
  <2>6. RestOK'
    BY <1>12, FlagTypes DEF ReturnAccepted, jarVars, RestOK
  <2> QED  BY <2>4, <2>5, <2>6
<1>13. ASSUME NEW b \in Tab, ReturnRejected(b) \/ ProviderRefuses(b) \/ NativeRefused(b)
       PROVE  TypeInv'
  <2>1. PICK d \in Page \cup {None}, w \in {"state", "expired", "provider", "address"} :
          Goes(b, Rejected(b, d, w))
    BY <1>13, TabFields, PageAssumption
    DEF ReturnRejected, ProviderRefuses, NativeRefused
  <2> DEFINE r == Rejected(b, d, w)
  <2>2. tab[b].provider \in Provider /\ tab[b].next \in Page
    BY <1>13, TabFields DEF ReturnRejected, ProviderRefuses, NativeRefused
  <2>3. r \in TabState /\ Holding(r)
    BY <2>2, NextStates DEF Rejected
  <2>4. /\ LedgerOK' /\ JarOK' /\ RestOK'
        /\ owner' = owner
    BY <1>13 DEF ReturnRejected, ProviderRefuses, NativeRefused, ledgerVars, jarVars,
                 historyVars, LedgerOK, JarOK, RestOK
  <2> HIDE DEF r
  <2>5. TokensIssued' /\ tab' \in [Tab -> TabState]
    BY <2>1, <2>3, <2>4, IssuedKept, TabMoves DEF r
  <2> QED  BY <2>4, <2>5
<1>14. ASSUME NEW b \in Tab, NEW s \in Session, NEW t \in Token, CommitProvider(b, s, t)
       PROVE  TypeInv'
  <2> DEFINE r == [at |-> "completed", provider |-> tab[b].provider,
                   next |-> tab[b].next, dest |-> tab[b].dest, token |-> t]
  <2>1. LedgerOK' /\ DOMAIN owner' = DOMAIN owner \cup {t}
    BY <1>14, GrantKeeps DEF CommitProvider
  <2>2. /\ tab[b].provider \in Provider
        /\ tab[b].next \in Page /\ tab[b].dest \in Page
    BY <1>14, TabFields DEF CommitProvider
  <2>3. r \in TabState /\ Goes(b, r) /\ Holding(r)
    BY <1>14, <2>1, <2>2, NextStates DEF CommitProvider
  <2> HIDE DEF r
  <2>4. TokensIssued' /\ tab' \in [Tab -> TabState]
    BY <2>1, <2>3, IssuedKept, TabMoves
  <2>5. JarOK' /\ RestOK'
    BY <1>14, <2>1, JarKept DEF CommitProvider, jarVars, historyVars, RestOK
  <2> QED  BY <2>1, <2>4, <2>5
<1>15. ASSUME NEW b \in Tab, FinishProvider(b)
       PROVE  TypeInv'
  <2>1. /\ tab[b].token \in DOMAIN owner /\ owner[tab[b].token] \in Session
        /\ tab[b].provider \in Provider
    BY <1>15, TabFields DEF FinishProvider, TokensIssued, LedgerOK
  <2>2. LedgerOK' /\ owner' = owner /\ Goes(b, Idle)
    BY <1>15 DEF FinishProvider, ledgerVars, LedgerOK
  <2>3. JarOK'
    <3>1. CASE tab[b].dest = Native
      BY <1>15, <2>2, <3>1, JarKept DEF FinishProvider
    <3>2. CASE tab[b].dest # Native
      BY <1>15, <2>1, <2>2, <3>2, JarSet DEF FinishProvider, RestOK
    <3> QED  BY <3>1, <3>2
  <2>4. TokensIssued' /\ tab' \in [Tab -> TabState]
    BY <2>2, IssuedKept, TabMoves, NextStates DEF Idle
  <2>5. context' \in [Provider -> Cookie] /\ crossed' \subseteq Tab
    BY <1>15, <2>1, ContextType, CrossType
    DEF FinishProvider, DeleteContext, CookieName, RestOK
  <2>6. /\ latest' \in Session \cup {None}
        /\ muddled' \in BOOLEAN /\ shadowed' \in BOOLEAN
    <3>1. CASE tab[b].dest = Native
      BY <1>15, <3>1 DEF FinishProvider, RestOK
    <3>2. CASE tab[b].dest # Native
      <4>1. latest' = owner[tab[b].token] /\ shadowed' = FALSE
        BY <1>15, <3>2 DEF FinishProvider, Settles
      <4>2. muddled' \in BOOLEAN
        BY <1>15, <3>2, FlagTypes DEF FinishProvider
      <4> QED  BY <2>1, <4>1, <4>2
    <3> QED  BY <3>1, <3>2
  <2>7. RestOK'
    BY <1>15, <2>5, <2>6 DEF FinishProvider, RestOK
  <2> QED  BY <2>2, <2>3, <2>4, <2>7
<1>16. ASSUME NEW b \in Tab, FinishRejected(b)
       PROVE  TypeInv'
  <2>1. tab[b].provider \in Provider
    BY <1>16, TabFields DEF FinishRejected
  <2>2. LedgerOK' /\ JarOK' /\ owner' = owner /\ Goes(b, Idle)
    BY <1>16 DEF FinishRejected, ledgerVars, LedgerOK, JarOK
  <2>3. TokensIssued' /\ tab' \in [Tab -> TabState]
    BY <2>2, IssuedKept, TabMoves, NextStates DEF Idle
  <2>4. context' \in [Provider -> Cookie] /\ crossed' \subseteq Tab
    BY <1>16, <2>1, ContextType, CrossType
    DEF FinishRejected, DeleteContext, CookieName, RestOK
  <2>5. RestOK'
    BY <1>16, <2>4 DEF FinishRejected, RestOK
  <2> QED  BY <2>2, <2>3, <2>5
<1>17. ASSUME NEW b \in Tab, Lose(b)
       PROVE  TypeInv'
  <2>1. LedgerOK' /\ JarOK' /\ owner' = owner /\ Goes(b, Idle)
    BY <1>17 DEF Lose, ledgerVars, jarVars, LedgerOK, JarOK
  <2>2. TokensIssued' /\ tab' \in [Tab -> TabState]
    BY <2>1, IssuedKept, TabMoves, NextStates DEF Idle
  <2>3. tab[b].at = "rotated" => owner[tab[b].token] \in Session
    BY DEF TokensIssued, LedgerOK
  <2>4. RestOK'
    BY <1>17, <2>3 DEF Lose, jarVars, RestOK
  <2> QED  BY <2>1, <2>2, <2>4
\* Steps of no tab.
<1>18. ASSUME NEW s \in Session, RevokedElsewhere(s)
       PROVE  TypeInv'
  <2>1. LedgerOK' /\ owner' = owner
    BY <1>18, CloseKeeps DEF RevokedElsewhere
  <2>2. tab' = tab /\ JarOK' /\ RestOK'
    BY <1>18, <2>1, JarKept DEF RevokedElsewhere, jarVars, historyVars, RestOK
  <2> QED  BY <2>1, <2>2 DEF TokensIssued
<1>19. CASE Tick
  BY <1>19 DEF Tick, ledgerVars, jarVars, historyVars, LedgerOK, JarOK, RestOK,
               TokensIssued
<1>20. CASE UNCHANGED vars
  BY <1>20 DEF vars, ledgerVars, jarVars, historyVars, LedgerOK, JarOK, RestOK,
               TokensIssued
<1> QED
  BY <1>1, <1>2, <1>3, <1>4, <1>5, <1>6, <1>7, <1>8, <1>9, <1>10, <1>11, <1>12,
     <1>13, <1>14, <1>15, <1>16, <1>17, <1>18, <1>19, <1>20 DEF Next

(* The jar and the tabs are well-formed: every cookie is one that an       *)
(* endpoint or the page's script put there for an issued token.            *)
THEOREM TypeCorrect == Spec => []TypeOK
<1>1. Spec => []TypeInv
  BY TypeInit, TypeStep, PTL DEF Spec
<1> QED  BY <1>1, TypeInvIsTypeOK, PTL

-----------------------------------------------------------------------------
(* The context cookie.                                                     *)

LoginInv == NextMatches /\ ContextAwaited /\ OwnReturnAddress /\ SoleLoginAccepted

\* Only the tab whose login is over stops being crossed, and the tabs that
\* wait for the same provider become so.
LEMMA CrossKeeps ==
  ASSUME tab \in [Tab -> TabState], NEW b \in Tab, NEW p, Cross(b, p),
         NEW x \in Tab \ {b}
  PROVE  /\ x \in crossed => x \in crossed'
         /\ tab[x].at = "provider" /\ tab[x].provider = p => x \in crossed'
<1> DEFINE rivals == {y \in Tab \ {b} : /\ tab[y].at # "idle"
                                        /\ "provider" \in DOMAIN tab[y]
                                        /\ tab[y].provider = p}
<1>1. crossed' = IF rivals = {} THEN crossed \ {b} ELSE crossed \cup rivals \cup {b}
  BY DEF Cross
<1>2. tab[x].at = "provider" /\ tab[x].provider = p => x \in rivals
  BY TabFields
<1> HIDE DEF rivals
<1> QED  BY <1>1, <1>2

\* A step of a tab that starts no login and touches no context cookie.
LEMMA MoveKeeps ==
  ASSUME LoginInv, tab \in [Tab -> TabState], NEW b \in Tab, NEW r, Goes(b, r),
         UNCHANGED <<context, crossed, now>>,
         r.at # "provider",
         r.at \in {"resolving", "completed", "rejected"} => r.dest \in {r.next, None},
         r.at = "rejected" /\ r.why = "state" => b \in crossed
  PROVE  LoginInv'
<1> USE DEF LoginInv
<1>1. tab'[b] = r /\ \A x \in Tab \ {b} : tab'[x] = tab[x]
  BY TabMoves
<1>2. NextMatches'
  BY <1>1 DEF NextMatches
<1>3. ContextAwaited'
  BY <1>1 DEF ContextAwaited
<1>4. OwnReturnAddress'
  BY <1>1 DEF OwnReturnAddress
<1>5. SoleLoginAccepted'
  BY <1>1 DEF SoleLoginAccepted
<1> QED  BY <1>2, <1>3, <1>4, <1>5

\* A login is over: its provider's cookie is deleted.
LEMMA ClearKeeps ==
  ASSUME LoginInv, tab \in [Tab -> TabState], context \in [Provider -> Cookie],
         NEW b \in Tab, tab[b].provider \in Provider,
         Goes(b, Idle), DeleteContext(b), Cross(b, tab[b].provider), now' = now
  PROVE  LoginInv'
<1> DEFINE p == tab[b].provider
<1>1. tab'[b] = Idle /\ \A x \in Tab \ {b} : tab'[x] = tab[x]
  BY TabMoves
<1>2. context' = [context EXCEPT ![p] = None]
  BY DEF DeleteContext, CookieName
<1>3. \A x \in Tab : tab'[x].at # "idle" => x # b
  BY <1>1 DEF Idle
<1>4. \A q \in Provider : context'[q] = IF q = p THEN None ELSE context[q]
  BY <1>2
<1>5. \A x \in Tab \ {b} : tab[x].at = "provider" => tab[x].provider \in Provider
  BY TabFields
<1> HIDE DEF p
<1>6. NextMatches'
  BY <1>1, <1>3, <1>4, <1>5 DEF LoginInv, NextMatches
<1>7. ContextAwaited'
  <2> SUFFICES ASSUME NEW x \in Tab, x \notin crossed', tab'[x].at = "provider",
                      tab'[x].exp > now
               PROVE  LET cookie == context'[tab'[x].provider]
                      IN  cookie # None /\ cookie.state = x /\ cookie.exp = tab'[x].exp
    BY DEF ContextAwaited
  <2>1. x # b /\ tab'[x] = tab[x]
    BY <1>1, <1>3
  <2>2. x \notin crossed /\ tab[x].provider # p
    BY <2>1, CrossKeeps DEF p
  <2>3. context'[tab[x].provider] = context[tab[x].provider]
    BY <2>1, <2>2, <1>4, <1>5
  <2> QED  BY <2>1, <2>2, <2>3 DEF LoginInv, ContextAwaited
<1>8. OwnReturnAddress'
  BY <1>1, <1>3 DEF LoginInv, OwnReturnAddress
<1>9. SoleLoginAccepted'
  BY <1>1, <1>3, CrossKeeps DEF LoginInv, SoleLoginAccepted
<1> QED  BY <1>6, <1>7, <1>8, <1>9 DEF LoginInv

\* A login starts: its context replaces that of any other through p.
LEMMA StartKeeps ==
  ASSUME LoginInv, TypeInv,
         NEW b \in Tab, NEW p \in Provider, NEW n \in Page, StartProvider(b, p, n)
  PROVE  LoginInv'
<1> DEFINE r == [at |-> "provider", provider |-> p, next |-> n,
                 exp |-> now + ContextTTL]
<1> DEFINE c == NewContext(b, n)
<1>1. /\ tab \in [Tab -> TabState]
      /\ context \in [Provider -> Cookie]
      /\ now \in Nat /\ now' = now
      /\ Cross(b, p)
  BY DEF TypeInv, RestOK, StartProvider
<1>2. tab'[b] = r /\ \A x \in Tab \ {b} : tab'[x] = tab[x]
  BY <1>1, TabMoves DEF StartProvider
<1>3. \A q \in Provider : context'[q] = IF q = p THEN c ELSE context[q]
  BY <1>1 DEF StartProvider, CookieName
<1>4. \A x \in Tab \ {b} : tab[x].at = "provider" => tab[x].provider \in Provider
  BY <1>1, TabFields
<1>5. /\ c # None
      /\ c.state = b /\ c.next = n /\ c.exp = r.exp
  <2>1. c \in [state : Tab, next : Page, exp : Nat]
    BY <1>1, LifetimeAssumption DEF NewContext
  <2> QED  BY <2>1, NoneAssumption DEF NewContext
<1>6. r.at = "provider" /\ r.provider = p /\ r.next = n
  OBVIOUS
<1> HIDE DEF r, c
<1>7. NextMatches'
  <2> SUFFICES ASSUME NEW x \in Tab, tab'[x].at = "provider",
                      context'[tab'[x].provider].state = x,
                      context'[tab'[x].provider] # None
               PROVE  context'[tab'[x].provider].next = tab'[x].next
    BY DEF NextMatches
  <2>1. CASE x = b
    BY <1>2, <1>3, <1>5, <1>6, <2>1
  <2>2. CASE x # b
    <3>1. tab'[x] = tab[x] /\ tab[x].provider \in Provider
      BY <1>2, <1>4, <2>2
    <3>2. context'[tab[x].provider] = context[tab[x].provider]
      BY <1>3, <1>5, <2>2, <3>1
    <3> QED  BY <3>1, <3>2 DEF LoginInv, NextMatches
  <2> QED  BY <2>1, <2>2
<1>8. ContextAwaited'
  <2> SUFFICES ASSUME NEW x \in Tab, x \notin crossed', tab'[x].at = "provider",
                      tab'[x].exp > now
               PROVE  LET cookie == context'[tab'[x].provider]
                      IN  cookie # None /\ cookie.state = x /\ cookie.exp = tab'[x].exp
    BY <1>1 DEF ContextAwaited
  <2>1. CASE x = b
    BY <1>2, <1>3, <1>5, <1>6, <2>1
  <2>2. CASE x # b
    <3>1. tab'[x] = tab[x] /\ tab[x].provider \in Provider
      BY <1>2, <1>4, <2>2
    <3>2. x \notin crossed /\ tab[x].provider # p
      BY <1>1, <2>2, <3>1, CrossKeeps
    <3>3. context'[tab[x].provider] = context[tab[x].provider]
      BY <1>3, <3>1, <3>2
    <3> QED  BY <3>1, <3>2, <3>3 DEF LoginInv, ContextAwaited
  <2> QED  BY <2>1, <2>2
<1>9. OwnReturnAddress'
  BY <1>2, <1>6 DEF LoginInv, OwnReturnAddress
<1>10. SoleLoginAccepted'
  BY <1>1, <1>2, <1>6, CrossKeeps DEF LoginInv, SoleLoginAccepted
<1> QED  BY <1>7, <1>8, <1>9, <1>10 DEF LoginInv

\* What a tab brings back from its provider.
LEMMA ReturnKeeps ==
  ASSUME LoginInv, TypeInv, NEW b \in Tab, ReturnAccepted(b) \/ ReturnRejected(b)
  PROVE  LoginInv'
<1> DEFINE cookie == context[tab[b].provider]
<1>1. tab \in [Tab -> TabState] /\ tab[b].at = "provider" /\ now \in Nat
  BY DEF TypeInv, RestOK, ReturnAccepted, ReturnRejected
<1>2. UNCHANGED <<context, crossed, now>>
  BY DEF ReturnAccepted, ReturnRejected, jarVars, historyVars
<1>3. ASSUME ReturnAccepted(b)
      PROVE  LoginInv'
  <2> DEFINE r == [at |-> "resolving", provider |-> tab[b].provider,
                   next |-> tab[b].next, dest |-> cookie.next]
  <2>1. cookie # None /\ cookie.state = b
    BY <1>3 DEF ReturnAccepted, Decoded, Valid, CookieName
  <2>2. cookie.next = tab[b].next
    BY <1>1, <2>1 DEF LoginInv, NextMatches
  <2>3. Goes(b, r)
    BY <1>3 DEF ReturnAccepted, CookieName
  <2>4. r.at = "resolving" /\ r.dest = r.next
    BY <2>2
  <2> HIDE DEF r
  <2> QED  BY <1>1, <1>2, <2>3, <2>4, MoveKeeps
<1>4. ASSUME ReturnRejected(b)
      PROVE  LoginInv'
  <2> DEFINE why == IF tab[b].exp > now THEN "state" ELSE "expired"
  <2> DEFINE r == Rejected(b, None, why)
  <2>1. Goes(b, r)
    BY <1>4 DEF ReturnRejected
  <2>2. r.at = "rejected" /\ r.dest = None /\ r.why = why
    BY DEF Rejected
  <2>3. why = "state" => b \in crossed
    BY <1>1, <1>4 DEF ReturnRejected, Decoded, Valid, CookieName, LoginInv, ContextAwaited
  <2> HIDE DEF r, why
  <2> QED  BY <1>1, <1>2, <2>1, <2>2, <2>3, MoveKeeps
<1> QED  BY <1>3, <1>4

\* The outcomes of a login whose state was right.
LEMMA ResolvingKeeps ==
  ASSUME LoginInv, TypeInv, NEW b \in Tab,
         ProviderRefuses(b) \/ NativeRefused(b)
           \/ \E s \in Session, t \in Token : CommitProvider(b, s, t)
  PROVE  LoginInv'
<1>1. /\ tab \in [Tab -> TabState]
      /\ UNCHANGED <<context, crossed, now>>
      /\ tab[b].at \in {"resolving", "completed"}
  BY DEF TypeInv, ProviderRefuses, NativeRefused, CommitProvider, jarVars, historyVars
<1>2. tab[b].dest \in {tab[b].next, None}
  BY <1>1 DEF LoginInv, OwnReturnAddress
<1>3. ASSUME ProviderRefuses(b) \/ NativeRefused(b)
      PROVE  LoginInv'
  <2>1. PICK w \in {"provider", "address"} : Goes(b, Rejected(b, tab[b].dest, w))
    BY <1>3 DEF ProviderRefuses, NativeRefused
  <2> DEFINE r == Rejected(b, tab[b].dest, w)
  <2>2. r.at = "rejected" /\ r.dest \in {r.next, None} /\ r.why # "state"
    BY <1>2 DEF Rejected
  <2>3. Goes(b, r)
    BY <2>1
  <2> HIDE DEF r
  <2> QED  BY <1>1, <2>2, <2>3, MoveKeeps
<1>4. ASSUME NEW s \in Session, NEW t \in Token, CommitProvider(b, s, t)
      PROVE  LoginInv'
  <2> DEFINE r == [at |-> "completed", provider |-> tab[b].provider,
                   next |-> tab[b].next, dest |-> tab[b].dest, token |-> t]
  <2>1. Goes(b, r)
    BY <1>4 DEF CommitProvider
  <2>2. r.at = "completed" /\ r.dest \in {r.next, None}
    BY <1>2
  <2> HIDE DEF r
  <2> QED  BY <1>1, <2>1, <2>2, MoveKeeps
<1> QED  BY <1>3, <1>4

\* The requests that have nothing to do with providers.
LEMMA OtherMovesKeep ==
  ASSUME LoginInv, TypeInv, NEW b \in Tab,
         \/ AskRefresh(b) \/ LoadRefresh(b) \/ FinishRefresh(b)
         \/ \E t2 \in Token : CommitRefresh(b, t2)
         \/ AskLogout(b) \/ LoadLogout(b) \/ CommitLogout(b) \/ FinishLogout(b)
         \/ \E s \in Session, t \in Token : ScriptLogin(b, s, t)
         \/ FinishScriptLogin(b) \/ Lose(b)
  PROVE  LoginInv'
<1>1. tab \in [Tab -> TabState] /\ UNCHANGED <<context, crossed, now>>
  BY DEF TypeInv, AskRefresh, LoadRefresh, FinishRefresh, CommitRefresh, AskLogout,
         LoadLogout, CommitLogout, FinishLogout, ScriptLogin, FinishScriptLogin, Lose,
         jarVars, historyVars
<1>2. ASSUME AskRefresh(b)
      PROVE  LoginInv'
  <2> DEFINE r == [at |-> "refreshing", token |-> refresh.token,
                   body |-> ~refresh.httpOnly]
  <2>1. Goes(b, r) /\ r.at = "refreshing"
    BY <1>2 DEF AskRefresh
  <2> HIDE DEF r
  <2> QED  BY <1>1, <2>1, MoveKeeps
<1>3. ASSUME LoadRefresh(b)
      PROVE  LoginInv'
  <2> DEFINE r == IF tab[b].token \in spendable THEN [tab[b] EXCEPT !.at = "accepted"]
                  ELSE Idle
  <2>1. r.at \in {"accepted", "idle"}
    BY <1>1, <1>3 DEF LoadRefresh, TabState, Idle
  <2>2. Goes(b, r)
    BY <1>3 DEF LoadRefresh
  <2> HIDE DEF r
  <2> QED  BY <1>1, <2>1, <2>2, MoveKeeps
<1>4. ASSUME NEW t2 \in Token, CommitRefresh(b, t2)
      PROVE  LoginInv'
  <2> DEFINE r == [tab[b] EXCEPT !.at = "rotated", !.token = t2]
  <2>1. r.at = "rotated"
    BY <1>1, <1>4, NextStates DEF CommitRefresh
  <2>2. Goes(b, r)
    BY <1>4 DEF CommitRefresh
  <2> HIDE DEF r
  <2> QED  BY <1>1, <2>1, <2>2, MoveKeeps
<1>5. ASSUME AskLogout(b)
      PROVE  LoginInv'
  <2> DEFINE r == [at |-> "leaving",
                   token |-> IF refresh = None THEN None ELSE refresh.token]
  <2>1. Goes(b, r) /\ r.at = "leaving"
    BY <1>5 DEF AskLogout
  <2> HIDE DEF r
  <2> QED  BY <1>1, <2>1, MoveKeeps
<1>6. ASSUME LoadLogout(b) \/ CommitLogout(b)
      PROVE  LoginInv'
  <2>1. PICK a \in {"closing", "left"} : Goes(b, [tab[b] EXCEPT !.at = a])
    BY <1>6 DEF LoadLogout, CommitLogout
  <2> DEFINE r == [tab[b] EXCEPT !.at = a]
  <2>2. r.at = a
    BY <1>1, <1>6 DEF LoadLogout, CommitLogout, TabState, Idle
  <2>3. Goes(b, r)
    BY <2>1
  <2> HIDE DEF r
  <2> QED  BY <1>1, <2>2, <2>3, MoveKeeps
<1>7. ASSUME NEW s \in Session, NEW t \in Token, ScriptLogin(b, s, t)
      PROVE  LoginInv'
  <2> DEFINE r == [at |-> "signedIn", token |-> t]
  <2>1. Goes(b, r) /\ r.at = "signedIn"
    BY <1>7 DEF ScriptLogin
  <2> HIDE DEF r
  <2> QED  BY <1>1, <2>1, MoveKeeps
<1>8. ASSUME FinishRefresh(b) \/ FinishLogout(b) \/ FinishScriptLogin(b) \/ Lose(b)
      PROVE  LoginInv'
  <2>1. Goes(b, Idle) /\ Idle.at = "idle"
    BY <1>8 DEF FinishRefresh, FinishLogout, FinishScriptLogin, Lose, Idle
  <2> QED  BY <1>1, <2>1, MoveKeeps
<1> QED  BY <1>2, <1>3, <1>4, <1>5, <1>6, <1>7, <1>8

LEMMA LoginStep ==
  ASSUME LoginInv, TypeInv, [Next]_vars
  PROVE  LoginInv'
<1>1. ASSUME NEW b \in Tab, FinishProvider(b) \/ FinishRejected(b)
      PROVE  LoginInv'
  <2>1. tab[b].provider \in Provider
    BY <1>1, TabFields DEF TypeInv, FinishProvider, FinishRejected
  <2> QED
    BY <1>1, <2>1, ClearKeeps DEF FinishProvider, FinishRejected, TypeInv, RestOK
<1>2. CASE Tick
  <2>1. /\ now \in Nat /\ now' = now + 1
        /\ UNCHANGED <<context, crossed, tab>>
        /\ \A b \in Tab : tab[b].at = "provider" => tab[b].exp \in Nat
    BY <1>2, TabFields DEF Tick, jarVars, historyVars, TypeInv, RestOK
  <2>2. ContextAwaited'
    BY <2>1 DEF LoginInv, ContextAwaited
  <2> QED  BY <2>1, <2>2 DEF LoginInv, NextMatches, OwnReturnAddress, SoleLoginAccepted
<1>3. CASE (\E s \in Session : RevokedElsewhere(s)) \/ UNCHANGED vars
  <2>1. UNCHANGED <<now, context, crossed, tab>>
    BY <1>3 DEF RevokedElsewhere, vars, jarVars, historyVars
  <2> QED
    BY <2>1 DEF LoginInv, NextMatches, ContextAwaited, OwnReturnAddress,
                SoleLoginAccepted
<1> QED
  BY <1>1, <1>2, <1>3, StartKeeps, ReturnKeeps, ResolvingKeeps, OtherMovesKeep DEF Next

LEMMA LoginHolds == Spec => []LoginInv
<1>1. Init => LoginInv
  BY DEF Init, Idle, LoginInv, NextMatches, ContextAwaited, OwnReturnAddress,
         SoleLoginAccepted
<1>2. Spec => []TypeInv
  BY TypeInit, TypeStep, PTL DEF Spec
<1> QED  BY <1>1, <1>2, LoginStep, PTL DEF Spec

(* A tab that comes back from a provider is sent where it asked to go,     *)
(* whatever logins other tabs started through the same cookie.             *)
THEOREM ReturnsToOwnAddress == Spec => []OwnReturnAddress
BY LoginHolds, PTL DEF LoginInv

(* A login is refused for its state only if another tab started or ended a *)
(* login through the same provider while it was under way.                 *)
THEOREM RefusedOnlyIfCrossed == Spec => []SoleLoginAccepted
BY LoginHolds, PTL DEF LoginInv

-----------------------------------------------------------------------------
(* The session cookies.                                                    *)

LEMMA LedgerStep ==
  ASSUME TypeInv, [Next]_vars
  PROVE  [LedgerNext]_ledgerVars
<1>1. ASSUME NEW b \in Tab, NEW t2 \in Token, CommitRefresh(b, t2)
      PROVE  LedgerNext
  <2>1. tab[b].token \in Token /\ Rotate(tab[b].token, t2)
    BY <1>1 DEF CommitRefresh, Rotate, TypeInv, LedgerOK
  <2> QED  BY <2>1 DEF LedgerNext
<1>2. ASSUME NEW b \in Tab, NEW s \in Session, NEW t \in Token,
             ScriptLogin(b, s, t) \/ CommitProvider(b, s, t)
      PROVE  LedgerNext
  BY <1>2 DEF ScriptLogin, CommitProvider, LedgerNext
<1>3. ASSUME NEW b \in Tab, CommitLogout(b)
      PROVE  LedgerNext
  <2>1. tab[b].token \in DOMAIN owner
    BY <1>3 DEF CommitLogout, TypeInv, TokensIssued
  <2>2. {owner[tab[b].token]} \in SUBSET Session
    BY <2>1 DEF TypeInv, LedgerOK
  <2> QED  BY <1>3, <2>2 DEF CommitLogout, LedgerNext
<1>4. ASSUME NEW s \in Session, RevokedElsewhere(s)
      PROVE  LedgerNext
  <2>1. {s} \in SUBSET Session /\ Close({s})
    BY <1>4 DEF RevokedElsewhere
  <2> QED  BY <2>1 DEF LedgerNext
<1>5. ASSUME NEW b \in Tab,
             \/ AskRefresh(b) \/ LoadRefresh(b) \/ FinishRefresh(b) \/ AskLogout(b)
             \/ LoadLogout(b) \/ FinishLogout(b) \/ FinishScriptLogin(b)
             \/ \E p \in Provider, n \in Page : StartProvider(b, p, n)
             \/ ReturnAccepted(b) \/ ReturnRejected(b) \/ ProviderRefuses(b)
             \/ NativeRefused(b) \/ FinishProvider(b) \/ FinishRejected(b) \/ Lose(b)
      PROVE  UNCHANGED ledgerVars
  BY <1>5 DEF AskRefresh, LoadRefresh, FinishRefresh, AskLogout, LoadLogout,
              FinishLogout, FinishScriptLogin, StartProvider, ReturnAccepted,
              ReturnRejected, ProviderRefuses, NativeRefused, FinishProvider,
              FinishRejected, Lose
<1>6. ASSUME Tick \/ UNCHANGED vars
      PROVE  UNCHANGED ledgerVars
  BY <1>6 DEF Tick, vars
<1> QED  BY <1>1, <1>2, <1>3, <1>4, <1>5, <1>6 DEF Next

(* Whatever the tabs do, they use the server as TokenLedger allows, so what *)
(* SpentIsOver and ClosedIsOver say of the ledger holds for the jar.       *)
THEOREM KeepsLedger == Spec => LedgerSpec
<1>1. Init => LedgerInit
  BY DEF Init
<1>2. TypeInv /\ [Next]_vars => [LedgerNext]_ledgerVars
  BY LedgerStep
<1>3. Spec => []TypeInv
  BY TypeInit, TypeStep, PTL DEF Spec
<1> QED  BY <1>1, <1>2, <1>3, PTL DEF Spec, LedgerSpec

LEMMA LedgerGrows ==
  ASSUME TypeInv, [Next]_vars
  PROVE  /\ DOMAIN owner \subseteq DOMAIN owner'
         /\ \A t \in DOMAIN owner : owner'[t] = owner[t]
BY LedgerStep, LedgerMoves DEF NothingReturns

\* What a step can do to the two cookies and to the flag.
LEMMA JarMoves ==
  ASSUME TypeInv, [Next]_vars
  PROVE  \/ UNCHANGED <<access, refresh, shadowed>> /\ now' \in {now, now + 1}
         \/ ClearSession
         \/ /\ UNCHANGED <<owner, now>>
            /\ \E t \in DOMAIN owner : SetByResponse(t) \/ SetByScript(t)
<1> DEFINE Kept == UNCHANGED <<access, refresh, shadowed>> /\ now' \in {now, now + 1}
<1> DEFINE Stored ==
      /\ UNCHANGED <<owner, now>>
      /\ \E t \in DOMAIN owner : SetByResponse(t) \/ SetByScript(t)
<1>1. ASSUME NEW b \in Tab, FinishRefresh(b) \/ FinishScriptLogin(b)
      PROVE  Stored
  <2>1. tab[b].token \in DOMAIN owner
    BY <1>1 DEF FinishRefresh, FinishScriptLogin, TypeInv, TokensIssued
  <2> QED  BY <1>1, <2>1 DEF FinishRefresh, FinishScriptLogin, ledgerVars
<1>2. ASSUME NEW b \in Tab, FinishProvider(b)
      PROVE  Stored \/ Kept
  <2>1. tab[b].token \in DOMAIN owner
    BY <1>2 DEF FinishProvider, TypeInv, TokensIssued
  <2>2. CASE tab[b].dest = Native
    BY <1>2, <2>2 DEF FinishProvider
  <2>3. CASE tab[b].dest # Native
    BY <1>2, <2>1, <2>3 DEF FinishProvider, ledgerVars
  <2> QED  BY <2>2, <2>3
<1>3. ASSUME NEW b \in Tab, FinishLogout(b)
      PROVE  ClearSession
  BY <1>3 DEF FinishLogout
<1>4. ASSUME NEW b \in Tab,
             \/ AskRefresh(b) \/ LoadRefresh(b) \/ AskLogout(b) \/ LoadLogout(b)
             \/ \E t2 \in Token : CommitRefresh(b, t2)
             \/ CommitLogout(b) \/ ReturnAccepted(b) \/ ReturnRejected(b)
             \/ ProviderRefuses(b) \/ NativeRefused(b) \/ FinishRejected(b) \/ Lose(b)
      PROVE  Kept
  BY <1>4 DEF AskRefresh, LoadRefresh, AskLogout, LoadLogout, CommitRefresh,
              CommitLogout, ReturnAccepted, ReturnRejected, ProviderRefuses,
              NativeRefused, FinishRejected, Lose, jarVars, historyVars
<1>5. ASSUME NEW b \in Tab, NEW s \in Session, NEW t \in Token,
             ScriptLogin(b, s, t) \/ CommitProvider(b, s, t)
      PROVE  Kept
  BY <1>5 DEF ScriptLogin, CommitProvider, jarVars, historyVars
<1>6. ASSUME NEW b \in Tab, NEW p \in Provider, NEW n \in Page, StartProvider(b, p, n)
      PROVE  Kept
  BY <1>6 DEF StartProvider
<1>7. ASSUME (\E s \in Session : RevokedElsewhere(s)) \/ Tick \/ UNCHANGED vars
      PROVE  Kept
  BY <1>7 DEF RevokedElsewhere, Tick, vars, jarVars, historyVars
<1> HIDE DEF Kept, Stored
<1>8. Kept \/ ClearSession \/ Stored
  BY <1>1, <1>2, <1>3, <1>4, <1>5, <1>6, <1>7 DEF Next
<1> QED  BY <1>8 DEF Kept, Stored

LEMMA CookiesMatchStep ==
  ASSUME CookiesMatch, TypeInv, [Next]_vars
  PROVE  CookiesMatch'
<1>1. CASE UNCHANGED <<access, refresh, shadowed>> /\ now' \in {now, now + 1}
  <2> SUFFICES ASSUME access # None, access.exp > now', refresh # None, ~shadowed
               PROVE  access.session = owner'[refresh.token]
    BY <1>1 DEF CookiesMatch, Valid
  <2>1. refresh.token \in DOMAIN owner /\ access.exp \in Nat /\ now \in Nat
    BY DEF TypeInv, JarOK, RestOK
  <2>2. owner'[refresh.token] = owner[refresh.token]
    BY <2>1, LedgerGrows
  <2>3. Valid(access)
    BY <1>1, <2>1 DEF Valid
  <2> QED  BY <2>2, <2>3 DEF CookiesMatch
<1>2. CASE ClearSession
  BY <1>2 DEF ClearSession, CookiesMatch, Valid
<1>3. ASSUME NEW t \in DOMAIN owner, owner' = owner, SetByResponse(t)
      PROVE  CookiesMatch'
  BY <1>3 DEF SetByResponse, CookiesMatch
<1>4. ASSUME NEW t \in DOMAIN owner, owner' = owner, SetByScript(t)
      PROVE  CookiesMatch'
  <2>1. CASE Protected(access, Valid(access)) \/ Protected(refresh, refresh # None)
    <3>1. shadowed' = TRUE
      BY <1>4, <2>1, Zenon DEF SetByScript
    <3> QED  BY <3>1 DEF CookiesMatch
  <2>2. CASE ~Protected(access, Valid(access)) /\ ~Protected(refresh, refresh # None)
    <3>1. access'.session = owner[t] /\ refresh'.token = t
      BY <1>4, <2>2 DEF SetByScript
    <3> QED  BY <1>4, <3>1 DEF CookiesMatch
  <2> QED  BY <2>1, <2>2
<1> QED  BY <1>1, <1>2, <1>3, <1>4, JarMoves

(* The two cookies of the jar are of one session, however the answers of   *)
(* several tabs interleave, unless a script met an HttpOnly cookie.        *)
THEOREM CookiesAgree == Spec => []CookiesMatch
<1>1. Init => CookiesMatch
  BY DEF Init, CookiesMatch
<1>2. Spec => []TypeInv
  BY TypeInit, TypeStep, PTL DEF Spec
<1> QED  BY <1>1, <1>2, CookiesMatchStep, PTL DEF Spec

-----------------------------------------------------------------------------
(* The refresh token in the jar.                                           *)

Asking(b) == tab[b].at \in {"refreshing", "accepted", "rotated"}
New(b) == tab[b].at \in {"signedIn", "completed"}
SessionOf(b) == owner[tab[b].token]

\* Nobody else has a token of a session whose first answer is on its way.
NewAlone ==
  \A b \in Tab :
    New(b) =>
      /\ refresh # None => owner[refresh.token] # SessionOf(b)
      /\ \A x \in Tab \ {b} : Asking(x) \/ New(x) => SessionOf(x) # SessionOf(b)

\* Nobody else has a token that a refresh is about to bring.
RotatedAlone ==
  \A b \in Tab :
    tab[b].at = "rotated" =>
      /\ refresh # None => refresh.token # tab[b].token
      /\ \A x \in Tab \ {b} : Asking(x) => tab[x].token # tab[b].token

\* A token on its way works, or its session was closed meanwhile.
CarriedAlive ==
  \A b \in Tab :
    New(b) \/ tab[b].at = "rotated" =>
      tab[b].token \in spendable \/ SessionOf(b) \in closed

\* The refresh cookies of a session are all set by responses or all by scripts.
SameKind ==
  \A b \in Tab :
    Asking(b) =>
      /\ refresh # None /\ owner[refresh.token] = SessionOf(b) =>
           (tab[b].body <=> ~refresh.httpOnly)
      /\ \A x \in Tab :
           Asking(x) /\ SessionOf(x) = SessionOf(b) => (tab[b].body <=> tab[x].body)

AliveInv == NewAlone /\ RotatedAlone /\ CarriedAlive /\ SameKind /\ JarStaysAlive

\* The tokens that tabs and jar hold are issued, so they keep their owner.
LEMMA HeldIssued ==
  ASSUME TypeInv
  PROVE  /\ \A b \in Tab : Asking(b) \/ New(b) => tab[b].token \in DOMAIN owner
         /\ refresh # None => refresh.token \in DOMAIN owner
BY DEF TypeInv, TokensIssued, JarOK, Asking, New

\* The token of tab x is lost, unless x was waiting for none.
Drops(x) ==
  /\ ~Asking(x)' /\ ~New(x)'
  /\ tab[x].at = "rotated" => SessionOf(x) \in lost'

\* The token x presented was found spendable.
Accepts(x) ==
  /\ tab[x].at = "refreshing" /\ tab'[x].at = "accepted"
  /\ tab'[x].token = tab[x].token
  /\ tab'[x].body <=> tab[x].body

\* A step that puts no token anywhere it was not before.
LEMMA ShrinkKeeps ==
  ASSUME AliveInv,
         \A x \in Tab : tab'[x] = tab[x] \/ Drops(x) \/ Accepts(x),
         owner' = owner, closed \subseteq closed', lost \subseteq lost',
         \A t \in spendable : t \in spendable' \/ owner[t] \in closed',
         refresh' = refresh \/ refresh' = None
  PROVE  AliveInv'
<1>1. \A x \in Tab :
        /\ New(x)' => New(x) /\ tab'[x] = tab[x]
        /\ tab'[x].at = "rotated" => tab'[x] = tab[x]
        /\ Asking(x)' => /\ Asking(x) /\ tab'[x].token = tab[x].token
                         /\ tab'[x].body <=> tab[x].body
  BY DEF Drops, Accepts, Asking, New
<1>2. NewAlone'
  BY <1>1 DEF AliveInv, NewAlone, SessionOf
<1>3. RotatedAlone'
  BY <1>1 DEF AliveInv, RotatedAlone
<1>4. CarriedAlive'
  BY <1>1 DEF AliveInv, CarriedAlive, SessionOf
<1>5. SameKind'
  BY <1>1 DEF AliveInv, SameKind, SessionOf
<1>6. JarStaysAlive'
  BY DEF AliveInv, JarStaysAlive, Drops, Accepts, SessionOf
<1> QED  BY <1>2, <1>3, <1>4, <1>5, <1>6 DEF AliveInv

\* A page asks for new tokens with the one in the jar.
LEMMA AskKeeps ==
  ASSUME AliveInv, TypeInv, NEW b \in Tab, AskRefresh(b)
  PROVE  AliveInv'
<1>1. /\ \A x \in Tab \ {b} : tab'[x] = tab[x]
      /\ UNCHANGED <<owner, spendable, closed, lost, refresh>>
      /\ refresh # None
  BY TabMoves DEF AskRefresh, ledgerVars, jarVars, TypeInv
<1>2. /\ tab'[b].at = "refreshing" /\ tab'[b].token = refresh.token
      /\ tab'[b].body <=> ~refresh.httpOnly
  <2> DEFINE r == [at |-> "refreshing", token |-> refresh.token,
                   body |-> ~refresh.httpOnly]
  <2>1. r.at = "refreshing" /\ r.token = refresh.token /\ (r.body <=> ~refresh.httpOnly)
    OBVIOUS
  <2>2. Goes(b, r)
    BY DEF AskRefresh
  <2> HIDE DEF r
  <2>3. tab'[b] = r
    BY <2>2, TabMoves DEF TypeInv
  <2> QED  BY <2>1, <2>3
<1>3. tab[b].at = "idle"
  BY DEF AskRefresh, Idle
<1>4. NewAlone'
  BY <1>1, <1>2 DEF AliveInv, NewAlone, SessionOf, Asking, New
<1>5. RotatedAlone'
  BY <1>1, <1>2 DEF AliveInv, RotatedAlone, Asking
<1>6. CarriedAlive'
  BY <1>1, <1>2 DEF AliveInv, CarriedAlive, SessionOf, New
<1>7. SameKind'
  <2>1. \A x \in Tab : Asking(x)' /\ SessionOf(x)' = owner[refresh.token] =>
                         (tab'[x].body <=> ~refresh.httpOnly)
    BY <1>1, <1>2 DEF AliveInv, SameKind, SessionOf, Asking
  <2>2. SessionOf(b)' = owner[refresh.token]
    BY <1>1, <1>2 DEF SessionOf
  <2>3. \A x, y \in Tab \ {b} :
          Asking(x)' /\ Asking(y)' /\ SessionOf(x)' = SessionOf(y)' =>
            (tab'[x].body <=> tab'[y].body)
    BY <1>1 DEF AliveInv, SameKind, SessionOf, Asking
  <2> QED  BY <1>1, <2>1, <2>2, <2>3 DEF SameKind
<1>8. JarStaysAlive'
  BY <1>1, <1>2, <1>3 DEF AliveInv, JarStaysAlive
<1> QED  BY <1>4, <1>5, <1>6, <1>7, <1>8 DEF AliveInv

\* A first token is issued, for a session that nobody has a token of.
LEMMA NewKeeps ==
  ASSUME AliveInv, TypeInv, NEW b \in Tab, NEW s \in Session, NEW t \in Token,
         Grant(s, t), ~Asking(b), ~New(b),
         NEW r, Goes(b, r), r.at \in {"signedIn", "completed"}, r.token = t,
         UNCHANGED <<refresh, lost>>
  PROVE  AliveInv'
<1>1. /\ \A x \in Tab \ {b} : tab'[x] = tab[x]
      /\ tab'[b].at \in {"signedIn", "completed"} /\ tab'[b].token = t
  BY TabMoves DEF TypeInv
<1>2. /\ t \notin DOMAIN owner /\ closed' = closed
      /\ \A x \in DOMAIN owner : owner[x] # s /\ owner'[x] = owner[x]
      /\ owner'[t] = s
      /\ spendable' = spendable \cup {t}
  BY DEF Grant, Issued
<1>3. \A x \in Tab \ {b} :
        Asking(x) \/ New(x) =>
          /\ tab[x].token # t
          /\ SessionOf(x)' = SessionOf(x) /\ SessionOf(x) # s
  BY <1>1, <1>2, HeldIssued DEF SessionOf
<1>4. refresh # None =>
        /\ refresh.token # t
        /\ owner'[refresh.token] = owner[refresh.token] /\ owner[refresh.token] # s
  BY <1>2, HeldIssued
<1>5. /\ ~Asking(b)' /\ New(b)' /\ SessionOf(b)' = s
      /\ \A x \in Tab \ {b} : (Asking(x)' <=> Asking(x)) /\ (New(x)' <=> New(x))
  BY <1>1, <1>2 DEF Asking, New, SessionOf
<1>6. NewAlone'
  BY <1>3, <1>4, <1>5 DEF AliveInv, NewAlone
<1>7. RotatedAlone'
  BY <1>1, <1>5 DEF AliveInv, RotatedAlone
<1>8. CarriedAlive'
  <2>1. \A x \in Tab \ {b} : tab[x].at = "rotated" => Asking(x)
    BY DEF Asking
  <2> QED  BY <1>1, <1>2, <1>3, <1>5, <2>1 DEF AliveInv, CarriedAlive
<1>9. SameKind'
  BY <1>1, <1>3, <1>4, <1>5 DEF AliveInv, SameKind
<1>10. JarStaysAlive'
  <2>1. \A x \in Tab \ {b} : tab[x].at = "rotated" => Asking(x)
    BY DEF Asking
  <2>2. tab[b].at # "rotated"
    BY DEF Asking
  <2> QED
    BY <1>1, <1>2, <1>3, <1>4, <2>1, <2>2 DEF AliveInv, JarStaysAlive, SessionOf
<1> QED  BY <1>6, <1>7, <1>8, <1>9, <1>10 DEF AliveInv

\* A refresh commits: the old token is used up, the new one is on its way.
LEMMA CommitKeeps ==
  ASSUME AliveInv, TypeInv, NEW b \in Tab, NEW t2 \in Token, CommitRefresh(b, t2)
  PROVE  AliveInv'
<1> DEFINE t == tab[b].token
<1>1. /\ \A x \in Tab \ {b} : tab'[x] = tab[x]
      /\ tab[b].at = "accepted"
      /\ UNCHANGED <<refresh, lost>>
  BY TabMoves DEF CommitRefresh, TypeInv, jarVars, historyVars
<1>2. /\ tab'[b].at = "rotated" /\ tab'[b].token = t2
      /\ tab'[b].body <=> tab[b].body
  <2> DEFINE q == tab[b]
  <2> DEFINE R == [at : {"refreshing", "accepted", "rotated"}, token : Token,
                   body : BOOLEAN]
  <2>1. q \in TabState /\ q.at = "accepted" /\ tab'[b] = [q EXCEPT !.at = "rotated",
                                                                    !.token = t2]
    BY TabMoves DEF CommitRefresh, TypeInv
  <2> HIDE DEF q
  <2>2. q \in R
    BY <2>1 DEF TabState, Idle
  <2>3. /\ tab'[b].at = "rotated" /\ tab'[b].token = t2
        /\ tab'[b].body = q.body
    BY <2>1, <2>2
  <2> QED  BY <2>3 DEF q
<1>3. /\ t \in DOMAIN owner /\ t2 \notin DOMAIN owner /\ closed' = closed
      /\ \A x \in DOMAIN owner : owner'[x] = owner[x]
      /\ owner'[t2] = owner[t]
      /\ spendable' = (spendable \ {t}) \cup
                      (IF owner[t] \in closed THEN {} ELSE {t2})
  BY DEF CommitRefresh, Rotate, Issued
<1> HIDE DEF t
<1>4. /\ \A x \in Tab \ {b} :
           /\ (Asking(x)' <=> Asking(x)) /\ (New(x)' <=> New(x))
           /\ Asking(x) \/ New(x) =>
                tab[x].token # t2 /\ SessionOf(x)' = SessionOf(x)
      /\ refresh # None =>
           refresh.token # t2 /\ owner'[refresh.token] = owner[refresh.token]
      /\ Asking(b) /\ Asking(b)' /\ ~New(b)'
      /\ SessionOf(b)' = SessionOf(b) /\ SessionOf(b) = owner[t]
  BY <1>1, <1>2, <1>3, HeldIssued DEF SessionOf, Asking, New, t
<1>5. \A x \in Tab \ {b} :
        New(x) \/ tab[x].at = "rotated" => tab[x].token # t
  BY <1>4 DEF AliveInv, NewAlone, RotatedAlone, SessionOf, t
<1>6. NewAlone'
  BY <1>1, <1>4 DEF AliveInv, NewAlone
<1>7. RotatedAlone'
  <2>1. \A x \in Tab : tab[x].at = "rotated" => Asking(x)
    BY DEF Asking
  <2> QED  BY <1>1, <1>2, <1>4, <2>1 DEF AliveInv, RotatedAlone
<1>8. CarriedAlive'
  <2>1. \A x \in Tab : tab[x].at = "rotated" => Asking(x)
    BY DEF Asking
  <2> QED  BY <1>1, <1>2, <1>3, <1>4, <1>5, <2>1 DEF AliveInv, CarriedAlive
<1>9. SameKind'
  BY <1>1, <1>2, <1>4 DEF AliveInv, SameKind
<1>10. JarStaysAlive'
  <2> SUFFICES ASSUME refresh # None, owner[refresh.token] \notin closed \cup lost,
                      refresh.token \notin spendable'
               PROVE  \E x \in Tab : /\ tab'[x].at = "rotated"
                                     /\ tab'[x].token \in spendable'
                                     /\ owner'[tab'[x].token] = owner[refresh.token]
    BY <1>1, <1>3, <1>4 DEF JarStaysAlive
  <2>1. CASE refresh.token = t
    BY <1>2, <1>3, <2>1
  <2>2. CASE refresh.token # t
    <3>1. PICK x \in Tab : /\ tab[x].at = "rotated" /\ tab[x].token \in spendable
                           /\ owner[tab[x].token] = owner[refresh.token]
      BY <1>3, <2>2 DEF AliveInv, JarStaysAlive
    <3>2. x # b /\ tab[x].token # t /\ Asking(x)
      BY <1>1, <1>5, <3>1 DEF Asking
    <3> QED  BY <1>1, <1>3, <1>4, <3>1, <3>2 DEF SessionOf
  <2> QED  BY <2>1, <2>2
<1> QED  BY <1>6, <1>7, <1>8, <1>9, <1>10 DEF AliveInv

\* An answer with tokens reaches the browser.
LEMMA StoreKeeps ==
  ASSUME AliveInv, TypeInv, NEW b \in Tab, New(b) \/ tab[b].at = "rotated",
         Goes(b, Idle), UNCHANGED <<ledgerVars, lost>>,
         \/ refresh' = refresh /\ refresh # None /\ refresh.httpOnly
              /\ (tab[b].at = "rotated" => tab[b].body)
         \/ /\ refresh' # None => refresh'.token = tab[b].token
            /\ refresh' # None /\ tab[b].at = "rotated" =>
                 (tab[b].body <=> ~refresh'.httpOnly)
  PROVE  AliveInv'
<1>1. /\ \A x \in Tab \ {b} : tab'[x] = tab[x]
      /\ tab'[b].at = "idle"
      /\ UNCHANGED <<owner, spendable, closed, lost>>
  BY TabMoves DEF TypeInv, Idle, ledgerVars
<1>2. /\ \A x \in Tab \ {b} :
           /\ (Asking(x)' <=> Asking(x)) /\ (New(x)' <=> New(x))
           /\ SessionOf(x)' = SessionOf(x)
      /\ ~Asking(b)' /\ ~New(b)'
      /\ tab[b].at = "rotated" => Asking(b) /\ ~New(b)
  BY <1>1 DEF Asking, New, SessionOf
<1>3. CarriedAlive'
  BY <1>1, <1>2 DEF AliveInv, CarriedAlive
<1>4. CASE refresh' = refresh /\ refresh # None /\ refresh.httpOnly
             /\ (tab[b].at = "rotated" => tab[b].body)
  <2>1. NewAlone' /\ RotatedAlone' /\ SameKind'
    BY <1>1, <1>2, <1>4 DEF AliveInv, NewAlone, RotatedAlone, SameKind
  <2>2. tab[b].at = "rotated" => SessionOf(b) # owner[refresh.token]
    BY <1>2, <1>4 DEF AliveInv, SameKind
  <2>3. JarStaysAlive'
    BY <1>1, <1>4, <2>2 DEF AliveInv, JarStaysAlive, SessionOf
  <2> QED  BY <1>3, <2>1, <2>3 DEF AliveInv
<1>5. CASE /\ refresh' # None => refresh'.token = tab[b].token
           /\ refresh' # None /\ tab[b].at = "rotated" =>
                (tab[b].body <=> ~refresh'.httpOnly)
  <2>1. refresh' # None => owner'[refresh'.token] = SessionOf(b)
    BY <1>1, <1>5 DEF SessionOf
  <2>2. NewAlone'
    BY <1>1, <1>2, <2>1 DEF AliveInv, NewAlone
  <2>3. RotatedAlone'
    <3>1. \A x \in Tab \ {b} : tab[x].at = "rotated" => tab[x].token # tab[b].token
      BY <1>2 DEF AliveInv, RotatedAlone, NewAlone, SessionOf, Asking
    <3> QED  BY <1>1, <1>2, <1>5, <3>1 DEF AliveInv, RotatedAlone
  <2>4. SameKind'
    <3>1. CASE tab[b].at = "rotated"
      BY <1>1, <1>2, <1>5, <2>1, <3>1 DEF AliveInv, SameKind
    <3>2. CASE New(b)
      BY <1>1, <1>2, <2>1, <3>2 DEF AliveInv, SameKind, NewAlone
    <3> QED  BY <3>1, <3>2
  <2>5. JarStaysAlive'
    BY <1>1, <1>5, <2>1 DEF AliveInv, CarriedAlive, JarStaysAlive
  <2> QED  BY <1>3, <2>2, <2>3, <2>4, <2>5 DEF AliveInv
<1> QED  BY <1>4, <1>5

\* Steps that take tokens out of the jar or the tabs, or close sessions.
LEMMA ShrinkingSteps ==
  ASSUME AliveInv, TypeInv, [Next]_vars,
         \A b \in Tab :
           /\ ~AskRefresh(b) /\ ~FinishRefresh(b) /\ ~FinishScriptLogin(b)
           /\ FinishProvider(b) => tab[b].dest = Native
           /\ \A t2 \in Token : ~CommitRefresh(b, t2)
           /\ \A s \in Session, t \in Token :
                ~ScriptLogin(b, s, t) /\ ~CommitProvider(b, s, t)
  PROVE  AliveInv'
<1> DEFINE LedgerShrinks ==
      /\ owner' = owner /\ closed \subseteq closed' /\ lost \subseteq lost'
      /\ \A t \in spendable : t \in spendable' \/ owner[t] \in closed'
      /\ refresh' = refresh \/ refresh' = None
<1> DEFINE Quits(b, r) ==
      /\ Goes(b, r)
      /\ r.at \notin {"refreshing", "accepted", "rotated", "signedIn", "completed"}
      /\ tab[b].at = "rotated" => SessionOf(b) \in lost'
<1>1. ASSUME LedgerShrinks, NEW b \in Tab, NEW r, Quits(b, r)
      PROVE  AliveInv'
  <2>1. Drops(b) /\ \A x \in Tab \ {b} : tab'[x] = tab[x]
    BY <1>1, TabMoves DEF Drops, Asking, New, TypeInv
  <2> QED  BY <1>1, <2>1, ShrinkKeeps
<1>2. ASSUME LedgerShrinks, tab' = tab
      PROVE  AliveInv'
  BY <1>2, ShrinkKeeps
<1>3. ASSUME NEW b \in Tab, LoadRefresh(b)
      PROVE  AliveInv'
  <2>1. LedgerShrinks /\ tab[b].at = "refreshing"
    BY <1>3 DEF LoadRefresh, ledgerVars, jarVars, historyVars
  <2>2. CASE tab[b].token \in spendable
    <3> DEFINE q == tab[b]
    <3> DEFINE R == [at : {"refreshing", "accepted", "rotated"}, token : Token,
                     body : BOOLEAN]
    <3>1. q \in TabState /\ q.at = "refreshing"
      BY <2>1 DEF TypeInv
    <3>2. tab'[b] = [q EXCEPT !.at = "accepted"] /\ \A x \in Tab \ {b} : tab'[x] = tab[x]
      BY <1>3, <2>2, TabMoves DEF LoadRefresh, TypeInv
    <3> HIDE DEF q
    <3>3. q \in R
      BY <3>1 DEF TabState, Idle
    <3>4. tab'[b].at = "accepted" /\ tab'[b].token = q.token /\ tab'[b].body = q.body
      BY <3>2, <3>3
    <3>5. Accepts(b)
      BY <2>1, <3>4 DEF Accepts, q
    <3> QED  BY <2>1, <3>2, <3>5, ShrinkKeeps
  <2>3. CASE tab[b].token \notin spendable
    <3>1. Quits(b, Idle)
      BY <1>3, <2>1, <2>3 DEF LoadRefresh, Idle
    <3> QED  BY <1>1, <2>1, <3>1
  <2> QED  BY <2>2, <2>3
<1>4. ASSUME NEW b \in Tab, AskLogout(b)
      PROVE  AliveInv'
  <2> DEFINE r == [at |-> "leaving",
                   token |-> IF refresh = None THEN None ELSE refresh.token]
  <2>1. LedgerShrinks /\ Quits(b, r)
    BY <1>4 DEF AskLogout, ledgerVars, jarVars, Idle
  <2> QED  BY <1>1, <2>1
<1>5. ASSUME NEW b \in Tab, LoadLogout(b)
      PROVE  AliveInv'
  <2>1. PICK a \in {"closing", "left"} : Goes(b, [tab[b] EXCEPT !.at = a])
    BY <1>5 DEF LoadLogout
  <2>2. [tab[b] EXCEPT !.at = a].at = a
    BY <1>5 DEF LoadLogout, TypeInv, TabState, Idle
  <2>3. LedgerShrinks /\ Quits(b, [tab[b] EXCEPT !.at = a])
    BY <1>5, <2>1, <2>2 DEF LoadLogout, ledgerVars, jarVars, historyVars
  <2> QED  BY <1>1, <2>3
<1>6. ASSUME NEW b \in Tab, CommitLogout(b)
      PROVE  AliveInv'
  <2>1. [tab[b] EXCEPT !.at = "left"].at = "left"
    BY <1>6 DEF CommitLogout, TypeInv, TabState, Idle
  <2>2. LedgerShrinks /\ Quits(b, [tab[b] EXCEPT !.at = "left"])
    BY <1>6, <2>1 DEF CommitLogout, Close, jarVars, historyVars
  <2> QED  BY <1>1, <2>2
<1>7. ASSUME NEW b \in Tab, FinishLogout(b)
      PROVE  AliveInv'
  <2>1. LedgerShrinks /\ Quits(b, Idle)
    BY <1>7 DEF FinishLogout, ClearSession, ledgerVars, Idle
  <2> QED  BY <1>1, <2>1
<1>8. ASSUME NEW b \in Tab, NEW p \in Provider, NEW n \in Page, StartProvider(b, p, n)
      PROVE  AliveInv'
  <2> DEFINE r == [at |-> "provider", provider |-> p, next |-> n,
                   exp |-> now + ContextTTL]
  <2>1. LedgerShrinks /\ Quits(b, r)
    BY <1>8 DEF StartProvider, ledgerVars, Idle
  <2> QED  BY <1>1, <2>1
<1>9. ASSUME NEW b \in Tab,
             ReturnAccepted(b) \/ ReturnRejected(b) \/ ProviderRefuses(b) \/ NativeRefused(b)
      PROVE  AliveInv'
  <2>1. /\ LedgerShrinks
        /\ tab[b].at # "rotated"
    BY <1>9 DEF ReturnAccepted, ReturnRejected, ProviderRefuses, NativeRefused,
                ledgerVars, jarVars, historyVars
  <2>2. CASE ReturnAccepted(b)
    <3> DEFINE r == [at |-> "resolving", provider |-> tab[b].provider,
                     next |-> tab[b].next,
                     dest |-> context[CookieName(tab[b].provider)].next]
    <3>1. Quits(b, r)
      BY <2>1, <2>2 DEF ReturnAccepted
    <3> QED  BY <1>1, <2>1, <3>1
  <2>3. CASE ReturnRejected(b) \/ ProviderRefuses(b) \/ NativeRefused(b)
    <3>1. PICK d, w : Goes(b, Rejected(b, d, w))
      BY <2>3 DEF ReturnRejected, ProviderRefuses, NativeRefused
    <3>2. Quits(b, Rejected(b, d, w))
      BY <2>1, <3>1 DEF Rejected
    <3> QED  BY <1>1, <2>1, <3>2
  <2> QED  BY <1>9, <2>2, <2>3
<1>10. ASSUME NEW b \in Tab, FinishRejected(b) \/ (FinishProvider(b) /\ tab[b].dest = Native)
       PROVE  AliveInv'
  <2>1. LedgerShrinks /\ Quits(b, Idle)
    BY <1>10 DEF FinishRejected, FinishProvider, ledgerVars, Idle
  <2> QED  BY <1>1, <2>1
<1>11. ASSUME NEW b \in Tab, Lose(b)
       PROVE  AliveInv'
  <2>1. LedgerShrinks /\ Quits(b, Idle)
    BY <1>11 DEF Lose, ledgerVars, jarVars, Idle, SessionOf
  <2> QED  BY <1>1, <2>1
<1>12. ASSUME (\E s \in Session : RevokedElsewhere(s)) \/ Tick \/ UNCHANGED vars
       PROVE  AliveInv'
  <2>1. LedgerShrinks /\ tab' = tab
    BY <1>12 DEF RevokedElsewhere, Close, Tick, vars, ledgerVars, jarVars, historyVars
  <2> QED  BY <1>2, <2>1
<1> HIDE DEF LedgerShrinks, Quits
<1> QED
  BY <1>3, <1>4, <1>5, <1>6, <1>7, <1>8, <1>9, <1>10, <1>11, <1>12 DEF Next

LEMMA AliveStep ==
  ASSUME AliveInv, TypeInv, [Next]_vars
  PROVE  AliveInv'
<1>1. ASSUME NEW b \in Tab, NEW s \in Session, NEW t \in Token, ScriptLogin(b, s, t)
      PROVE  AliveInv'
  <2> DEFINE r == [at |-> "signedIn", token |-> t]
  <2>1. Goes(b, r) /\ r.at = "signedIn" /\ r.token = t
    BY <1>1 DEF ScriptLogin
  <2>2. Grant(s, t) /\ ~Asking(b) /\ ~New(b) /\ UNCHANGED <<refresh, lost>>
    BY <1>1 DEF ScriptLogin, Asking, New, Idle, jarVars
  <2> HIDE DEF r
  <2> QED  BY <2>1, <2>2, NewKeeps
<1>2. ASSUME NEW b \in Tab, NEW s \in Session, NEW t \in Token, CommitProvider(b, s, t)
      PROVE  AliveInv'
  <2> DEFINE r == [at |-> "completed", provider |-> tab[b].provider,
                   next |-> tab[b].next, dest |-> tab[b].dest, token |-> t]
  <2>1. Goes(b, r) /\ r.at = "completed" /\ r.token = t
    BY <1>2 DEF CommitProvider
  <2>2. Grant(s, t) /\ ~Asking(b) /\ ~New(b) /\ UNCHANGED <<refresh, lost>>
    BY <1>2 DEF CommitProvider, Asking, New, jarVars, historyVars
  <2> HIDE DEF r
  <2> QED  BY <2>1, <2>2, NewKeeps
<1>3. ASSUME NEW b \in Tab, FinishRefresh(b)
      PROVE  AliveInv'
  <2>1. tab[b].at = "rotated" /\ Goes(b, Idle) /\ UNCHANGED <<ledgerVars, lost>>
    BY <1>3 DEF FinishRefresh
  <2>2. CASE ~tab[b].body
    <3>1. refresh' = [token |-> tab[b].token, httpOnly |-> TRUE]
      BY <1>3, <2>2 DEF FinishRefresh, SetByResponse
    <3>2. refresh'.token = tab[b].token /\ refresh'.httpOnly
      BY <3>1
    <3> QED  BY <2>1, <2>2, <3>2, StoreKeeps
  <2>3. CASE tab[b].body
    <3>1. SetByScript(tab[b].token)
      BY <1>3, <2>3 DEF FinishRefresh
    <3>2. CASE Protected(refresh, refresh # None)
      BY <2>1, <2>3, <3>1, <3>2, StoreKeeps DEF SetByScript, Protected
    <3>3. CASE ~Protected(refresh, refresh # None)
      <4>1. refresh' = [token |-> tab[b].token, httpOnly |-> FALSE]
        BY <3>1, <3>3 DEF SetByScript
      <4>2. refresh'.token = tab[b].token /\ ~refresh'.httpOnly
        BY <4>1
      <4> QED  BY <2>1, <2>3, <4>2, StoreKeeps
    <3> QED  BY <3>2, <3>3
  <2> QED  BY <2>2, <2>3
<1>4. ASSUME NEW b \in Tab, FinishScriptLogin(b)
      PROVE  AliveInv'
  <2>1. /\ New(b) /\ tab[b].at # "rotated"
        /\ Goes(b, Idle) /\ UNCHANGED <<ledgerVars, lost>>
        /\ SetByScript(tab[b].token)
    BY <1>4 DEF FinishScriptLogin, New
  <2>2. CASE Protected(refresh, refresh # None)
    BY <2>1, <2>2, StoreKeeps DEF SetByScript, Protected
  <2>3. CASE ~Protected(refresh, refresh # None)
    <3>1. refresh'.token = tab[b].token
      BY <2>1, <2>3 DEF SetByScript
    <3> QED  BY <2>1, <3>1, StoreKeeps
  <2> QED  BY <2>2, <2>3
<1>5. ASSUME NEW b \in Tab, FinishProvider(b), tab[b].dest # Native
      PROVE  AliveInv'
  <2>1. /\ New(b) /\ tab[b].at # "rotated"
        /\ Goes(b, Idle) /\ UNCHANGED <<ledgerVars, lost>>
        /\ refresh'.token = tab[b].token
    BY <1>5 DEF FinishProvider, SetByResponse, New
  <2> QED  BY <2>1, StoreKeeps
<1> QED
  BY <1>1, <1>2, <1>3, <1>4, <1>5, AskKeeps, CommitKeeps, ShrinkingSteps

(* However many tabs refresh at once, the refresh token in the jar works,  *)
(* or its successor is on its way, unless the session was closed or such   *)
(* an answer was lost.                                                     *)
THEOREM JarIsAlive == Spec => []JarStaysAlive
<1>1. Init => AliveInv
  BY DEF Init, Idle, AliveInv, NewAlone, RotatedAlone, CarriedAlive, SameKind,
         JarStaysAlive, Asking, New
<1>2. Spec => []TypeInv
  BY TypeInit, TypeStep, PTL DEF Spec
<1>3. Spec => []AliveInv
  BY <1>1, <1>2, AliveStep, PTL DEF Spec
<1> QED  BY <1>3, PTL DEF AliveInv

-----------------------------------------------------------------------------
(* Requests that do not overlap.                                           *)

Leaves(b) == tab[b].at \in {"leaving", "closing"}

\* What tab b relies on holds of the jar and of the ledger.
FineTab(b) ==
  /\ Asking(b) => refresh # None /\ owner[refresh.token] = SessionOf(b)
  /\ Leaves(b) /\ tab[b].token # None =>
       tab[b].token \in spendable \/ SessionOf(b) \in closed \cup lost
  /\ tab[b].at = "left" /\ tab[b].token # None => SessionOf(b) \in closed \cup lost

\* As long as no requests overlap only one tab is busy.
Undisturbed ==
  ~muddled =>
    \A b \in Tab : Busy(b) => FineTab(b) /\ \A x \in Tab \ {b} : ~Busy(x)

LEMMA Overlaps ==
  ASSUME NEW b \in Tab
  PROVE  /\ SetsOut(b) /\ ~muddled' => ~muddled /\ \A x \in Tab \ {b} : ~Busy(x)
         /\ \A s : Settles(b, s) /\ ~muddled' => \A x \in Tab \ {b} : ~Busy(x)
         /\ muddled' = muddled /\ Undisturbed /\ Busy(b) /\ ~muddled' =>
              \A x \in Tab \ {b} : ~Busy(x)
<1>1. SetsOut(b) /\ ~muddled' => ~muddled /\ \A x \in Tab \ {b} : ~Busy(x)
  BY Zenon DEF SetsOut, OthersBusy
<1>2. \A s : Settles(b, s) /\ ~muddled' => \A x \in Tab \ {b} : ~Busy(x)
  BY Zenon DEF Settles, OthersBusy
<1>3. muddled' = muddled /\ Undisturbed /\ Busy(b) /\ ~muddled' =>
        \A x \in Tab \ {b} : ~Busy(x)
  BY DEF Undisturbed
<1> QED  BY <1>1, <1>2, <1>3

\* A step of b while nobody else is busy.
LEMMA LoneKeeps ==
  ASSUME TypeInv, NEW b \in Tab, NEW r, Goes(b, r),
         ~muddled' => \A x \in Tab \ {b} : ~Busy(x),
         ~muddled' /\ Busy(b)' => FineTab(b)'
  PROVE  Undisturbed'
<1>1. \A x \in Tab \ {b} : tab'[x] = tab[x]
  BY TabMoves DEF TypeInv
<1> QED  BY <1>1 DEF Undisturbed, Busy

\* A step after which the busy tabs are as before and rely on the same things.
LEMMA QuietKeeps ==
  ASSUME Undisturbed, muddled' = muddled,
         \A x \in Tab : tab'[x] = tab[x] \/ ~Busy(x)',
         UNCHANGED <<owner, refresh, lost>>, closed \subseteq closed',
         \A t \in spendable : t \in spendable' \/ owner[t] \in closed'
  PROVE  Undisturbed'
<1> SUFFICES ASSUME ~muddled, NEW b \in Tab, Busy(b)'
             PROVE  FineTab(b)' /\ \A x \in Tab \ {b} : ~Busy(x)'
  BY DEF Undisturbed
<1>1. \A x \in Tab : Busy(x)' => Busy(x) /\ tab'[x] = tab[x]
  BY DEF Busy
<1>2. FineTab(b) /\ \A x \in Tab \ {b} : ~Busy(x)
  BY <1>1 DEF Undisturbed
<1>3. FineTab(b)'
  BY <1>1, <1>2 DEF FineTab, Asking, Leaves, SessionOf
<1> QED  BY <1>1, <1>2, <1>3

LEMMA UndisturbedStep ==
  ASSUME Undisturbed, AliveInv, TypeInv, [Next]_vars
  PROVE  Undisturbed'
\* Requests that set out.
<1>1. ASSUME NEW b \in Tab, AskRefresh(b)
      PROVE  Undisturbed'
  <2> DEFINE r == [at |-> "refreshing", token |-> refresh.token,
                   body |-> ~refresh.httpOnly]
  <2>1. Goes(b, r) /\ r.at = "refreshing" /\ r.token = refresh.token
    BY <1>1 DEF AskRefresh
  <2> HIDE DEF r
  <2>2. tab'[b] = r
    BY <2>1, TabMoves DEF TypeInv
  <2>3. SetsOut(b) /\ refresh # None /\ UNCHANGED <<owner, refresh>>
    BY <1>1 DEF AskRefresh, ledgerVars, jarVars
  <2>4. FineTab(b)'
    BY <2>1, <2>2, <2>3 DEF FineTab, Asking, Leaves, SessionOf
  <2> QED  BY <2>1, <2>3, <2>4, Overlaps, LoneKeeps
<1>2. ASSUME NEW b \in Tab, AskLogout(b)
      PROVE  Undisturbed'
  <2> DEFINE t == IF refresh = None THEN None ELSE refresh.token
  <2> DEFINE r == [at |-> "leaving", token |-> t]
  <2>1. Goes(b, r) /\ r.at = "leaving" /\ r.token = t
    BY <1>2 DEF AskLogout
  <2> HIDE DEF r
  <2>2. tab'[b] = r
    BY <2>1, TabMoves DEF TypeInv
  <2>3. SetsOut(b) /\ tab[b].at = "idle" /\ UNCHANGED <<owner, spendable, closed, lost>>
    BY <1>2 DEF AskLogout, ledgerVars, jarVars, Idle
  <2>4. ~muddled' /\ t # None => t \in spendable \/ owner[t] \in closed \cup lost
    <3> SUFFICES ASSUME ~muddled', t # None, t \notin spendable,
                        owner[t] \notin closed \cup lost
                 PROVE  FALSE
      OBVIOUS
    <3>1. PICK x \in Tab : tab[x].at = "rotated"
      BY DEF AliveInv, JarStaysAlive
    <3>2. Busy(x) /\ x # b
      BY <2>3, <3>1 DEF Busy
    <3> QED  BY <2>3, <3>2, Overlaps
  <2>5. ~muddled' => FineTab(b)'
    BY <2>1, <2>2, <2>3, <2>4 DEF FineTab, Asking, Leaves, SessionOf
  <2> QED  BY <2>1, <2>3, <2>5, Overlaps, LoneKeeps
<1>3. ASSUME NEW b \in Tab, NEW s \in Session, NEW t \in Token, ScriptLogin(b, s, t)
      PROVE  Undisturbed'
  <2> DEFINE r == [at |-> "signedIn", token |-> t]
  <2>1. Goes(b, r) /\ r.at = "signedIn" /\ SetsOut(b)
    BY <1>3 DEF ScriptLogin
  <2> HIDE DEF r
  <2>2. FineTab(b)'
    BY <2>1, TabMoves DEF FineTab, Asking, Leaves, TypeInv
  <2> QED  BY <2>1, <2>2, Overlaps, LoneKeeps
<1>4. ASSUME NEW b \in Tab, ReturnAccepted(b)
      PROVE  Undisturbed'
  <2> DEFINE r == [at |-> "resolving", provider |-> tab[b].provider,
                   next |-> tab[b].next,
                   dest |-> context[CookieName(tab[b].provider)].next]
  <2>1. Goes(b, r) /\ r.at = "resolving" /\ SetsOut(b)
    BY <1>4 DEF ReturnAccepted
  <2> HIDE DEF r
  <2>2. FineTab(b)'
    BY <2>1, TabMoves DEF FineTab, Asking, Leaves, TypeInv
  <2> QED  BY <2>1, <2>2, Overlaps, LoneKeeps
\* Requests under way.
<1>5. ASSUME NEW b \in Tab, LoadRefresh(b)
      PROVE  Undisturbed'
  <2> DEFINE q == tab[b]
  <2> DEFINE r == IF q.token \in spendable THEN [q EXCEPT !.at = "accepted"] ELSE Idle
  <2>1. /\ Goes(b, r) /\ muddled' = muddled /\ q \in TabState
        /\ q.at = "refreshing" /\ UNCHANGED <<owner, refresh>>
    BY <1>5 DEF LoadRefresh, ledgerVars, jarVars, historyVars, TypeInv
  <2>2. Busy(b) /\ Asking(b)
    BY <2>1 DEF Busy, Asking
  <2>3. tab'[b] = r
    BY <2>1, TabMoves DEF TypeInv
  <2>4. ~muddled' => FineTab(b)
    BY <2>1, <2>2 DEF Undisturbed
  <2> HIDE DEF q
  <2>5. r = Idle \/ (r.at = "accepted" /\ r.token = q.token)
    <3> DEFINE R == [at : {"refreshing", "accepted", "rotated"}, token : Token,
                     body : BOOLEAN]
    <3>1. q \in R
      BY <2>1 DEF TabState, Idle
    <3> QED  BY <3>1
  <2> HIDE DEF r
  <2>6. ~muddled' /\ Busy(b)' => FineTab(b)'
    BY <2>1, <2>2, <2>3, <2>4, <2>5 DEF FineTab, Asking, Leaves, SessionOf, Busy, Idle, q
  <2> QED  BY <2>1, <2>2, <2>6, Overlaps, LoneKeeps
<1>6. ASSUME NEW b \in Tab, NEW t2 \in Token, CommitRefresh(b, t2)
      PROVE  Undisturbed'
  <2> DEFINE q == tab[b]
  <2> DEFINE r == [q EXCEPT !.at = "rotated", !.token = t2]
  <2>1. /\ Goes(b, r) /\ muddled' = muddled /\ q \in TabState
        /\ q.at = "accepted" /\ UNCHANGED refresh
    BY <1>6 DEF CommitRefresh, jarVars, historyVars, TypeInv
  <2>2. Busy(b) /\ Asking(b) /\ tab'[b] = r
    BY <2>1, TabMoves DEF Busy, Asking, TypeInv
  <2>3. ~muddled' => refresh # None /\ owner[refresh.token] = owner[q.token]
    BY <2>1, <2>2 DEF Undisturbed, FineTab, SessionOf
  <2>4. owner'[t2] = owner[q.token]
    BY <1>6 DEF CommitRefresh, Rotate, Issued
  <2>5. refresh # None => owner'[refresh.token] = owner[refresh.token]
    BY <1>6, HeldIssued, LedgerGrows DEF Next
  <2> HIDE DEF q
  <2>6. r.at = "rotated" /\ r.token = t2
    <3> DEFINE R == [at : {"refreshing", "accepted", "rotated"}, token : Token,
                     body : BOOLEAN]
    <3>1. q \in R
      BY <2>1 DEF TabState, Idle
    <3> QED  BY <3>1
  <2> HIDE DEF r
  <2>7. ~muddled' => FineTab(b)'
    BY <2>1, <2>2, <2>3, <2>4, <2>5, <2>6 DEF FineTab, Asking, Leaves, SessionOf
  <2> QED  BY <2>1, <2>2, <2>7, Overlaps, LoneKeeps
<1>7. ASSUME NEW b \in Tab, LoadLogout(b)
      PROVE  Undisturbed'
  <2> DEFINE q == tab[b]
  <2> DEFINE r == [q EXCEPT !.at = IF q.token \in spendable THEN "closing" ELSE "left"]
  <2>1. /\ Goes(b, r) /\ muddled' = muddled /\ q \in TabState
        /\ q.at = "leaving" /\ UNCHANGED <<owner, spendable, closed, lost>>
    BY <1>7 DEF LoadLogout, ledgerVars, jarVars, historyVars, TypeInv
  <2>2. Busy(b) /\ Leaves(b) /\ tab'[b] = r
    BY <2>1, TabMoves DEF Busy, Leaves, TypeInv
  <2>3. ~muddled' => FineTab(b)
    BY <2>1, <2>2 DEF Undisturbed
  <2> HIDE DEF q
  <2>4. /\ r.token = q.token
        /\ r.at = IF q.token \in spendable THEN "closing" ELSE "left"
    BY <2>1 DEF TabState, Idle
  <2> HIDE DEF r
  <2>5. ~muddled' => FineTab(b)'
    BY <2>1, <2>2, <2>3, <2>4 DEF FineTab, Asking, Leaves, SessionOf, q
  <2> QED  BY <2>1, <2>2, <2>5, Overlaps, LoneKeeps
<1>8. ASSUME NEW b \in Tab, CommitLogout(b)
      PROVE  Undisturbed'
  <2> DEFINE q == tab[b]
  <2> DEFINE r == [q EXCEPT !.at = "left"]
  <2>1. /\ Goes(b, r) /\ muddled' = muddled /\ q \in TabState
        /\ q.at = "closing" /\ owner' = owner /\ owner[q.token] \in closed'
    BY <1>8 DEF CommitLogout, Close, jarVars, historyVars, TypeInv
  <2>2. Busy(b) /\ tab'[b] = r
    BY <2>1, TabMoves DEF Busy, TypeInv
  <2> HIDE DEF q
  <2>3. r.token = q.token /\ r.at = "left"
    BY <2>1 DEF TabState, Idle
  <2> HIDE DEF r
  <2>4. FineTab(b)'
    BY <2>1, <2>2, <2>3 DEF FineTab, Asking, Leaves, SessionOf
  <2> QED  BY <2>1, <2>2, <2>4, Overlaps, LoneKeeps
<1>9. ASSUME NEW b \in Tab, NEW s \in Session, NEW t \in Token, CommitProvider(b, s, t)
      PROVE  Undisturbed'
  <2> DEFINE r == [at |-> "completed", provider |-> tab[b].provider,
                   next |-> tab[b].next, dest |-> tab[b].dest, token |-> t]
  <2>1. Goes(b, r) /\ r.at = "completed" /\ muddled' = muddled /\ Busy(b)
    BY <1>9 DEF CommitProvider, historyVars, Busy
  <2> HIDE DEF r
  <2>2. FineTab(b)'
    BY <2>1, TabMoves DEF FineTab, Asking, Leaves, TypeInv
  <2> QED  BY <2>1, <2>2, Overlaps, LoneKeeps
\* Requests that end.
<1>10. ASSUME NEW b \in Tab, FinishLogout(b) \/ FinishScriptLogin(b)
       PROVE  Undisturbed'
  <2>1. Goes(b, Idle) /\ \E s : Settles(b, s)
    BY <1>10 DEF FinishLogout, FinishScriptLogin
  <2>2. ~Busy(b)'
    BY <2>1, TabMoves DEF Busy, Idle, TypeInv
  <2> QED  BY <2>1, <2>2, Overlaps, LoneKeeps
<1>11. ASSUME NEW b \in Tab, FinishProvider(b)
       PROVE  Undisturbed'
  <2>1. Goes(b, Idle) /\ Busy(b) /\ (muddled' = muddled \/ \E s : Settles(b, s))
    BY <1>11 DEF FinishProvider, Busy
  <2>2. ~Busy(b)'
    BY <2>1, TabMoves DEF Busy, Idle, TypeInv
  <2> QED  BY <2>1, <2>2, Overlaps, LoneKeeps
<1>12. ASSUME NEW b \in Tab, FinishRefresh(b) \/ Lose(b), tab[b].at # "rejected"
       PROVE  Undisturbed'
  <2>1. Goes(b, Idle) /\ Busy(b) /\ muddled' = muddled
    BY <1>12 DEF FinishRefresh, Lose, Busy
  <2>2. ~Busy(b)'
    BY <2>1, TabMoves DEF Busy, Idle, TypeInv
  <2> QED  BY <2>1, <2>2, Overlaps, LoneKeeps
<1>13. ASSUME NEW b \in Tab, ProviderRefuses(b) \/ NativeRefused(b)
       PROVE  Undisturbed'
  <2>1. PICK d, w : Goes(b, Rejected(b, d, w))
    BY <1>13 DEF ProviderRefuses, NativeRefused
  <2>2. Busy(b) /\ muddled' = muddled
    BY <1>13 DEF ProviderRefuses, NativeRefused, Busy, historyVars
  <2>3. ~Busy(b)'
    BY <2>1, TabMoves DEF Rejected, Busy, TypeInv
  <2> QED  BY <2>1, <2>2, <2>3, Overlaps, LoneKeeps
\* Steps of tabs that are not busy, and of no tab.
<1>14. ASSUME NEW b \in Tab, NEW r, Goes(b, r), r.at \in {"idle", "provider", "rejected"},
              UNCHANGED <<ledgerVars, refresh, lost, muddled>>
       PROVE  Undisturbed'
  <2>1. ~Busy(b)' /\ \A x \in Tab \ {b} : tab'[x] = tab[x]
    BY <1>14, TabMoves DEF Busy, TypeInv
  <2> QED  BY <1>14, <2>1, QuietKeeps DEF ledgerVars
<1>15. ASSUME NEW b \in Tab, NEW p \in Provider, NEW n \in Page, StartProvider(b, p, n)
       PROVE  Undisturbed'
  <2> DEFINE r == [at |-> "provider", provider |-> p, next |-> n,
                   exp |-> now + ContextTTL]
  <2>1. Goes(b, r) /\ r.at = "provider" /\ UNCHANGED <<ledgerVars, refresh, lost, muddled>>
    BY <1>15 DEF StartProvider
  <2> HIDE DEF r
  <2> QED  BY <1>14, <2>1
<1>16. ASSUME NEW b \in Tab, ReturnRejected(b)
       PROVE  Undisturbed'
  <2>1. PICK d, w : Goes(b, Rejected(b, d, w))
    BY <1>16 DEF ReturnRejected
  <2>2. UNCHANGED <<ledgerVars, refresh, lost, muddled>>
    BY <1>16 DEF ReturnRejected, jarVars, historyVars
  <2> QED  BY <1>14, <2>1, <2>2 DEF Rejected
<1>17. ASSUME NEW b \in Tab, FinishRejected(b) \/ (Lose(b) /\ tab[b].at = "rejected")
       PROVE  Undisturbed'
  <2>1. Goes(b, Idle) /\ UNCHANGED <<ledgerVars, refresh, lost, muddled>>
    BY <1>17 DEF FinishRejected, Lose, jarVars
  <2> QED  BY <1>14, <2>1 DEF Idle
<1>18. ASSUME (\E s \in Session : RevokedElsewhere(s)) \/ Tick \/ UNCHANGED vars
       PROVE  Undisturbed'
  <2>1. /\ tab' = tab /\ UNCHANGED <<owner, refresh, lost, muddled>>
        /\ closed \subseteq closed'
        /\ \A t \in spendable : t \in spendable' \/ owner[t] \in closed'
    BY <1>18 DEF RevokedElsewhere, Close, Tick, vars, ledgerVars, jarVars, historyVars
  <2> QED  BY <2>1, QuietKeeps
<1> QED
  BY <1>1, <1>2, <1>3, <1>4, <1>5, <1>6, <1>7, <1>8, <1>9, <1>10, <1>11, <1>12, <1>13,
     <1>15, <1>16, <1>17, <1>18 DEF Next, FinishRefresh

LEMMA UndisturbedHolds == Spec => [](TypeInv /\ AliveInv /\ Undisturbed)
<1>1. Init => Undisturbed /\ AliveInv
  BY DEF Init, Idle, Undisturbed, Busy, AliveInv, NewAlone, RotatedAlone, CarriedAlive,
         SameKind, JarStaysAlive, Asking, New
<1>2. Spec => []TypeInv
  BY TypeInit, TypeStep, PTL DEF Spec
<1> QED  BY <1>1, <1>2, AliveStep, UndisturbedStep, PTL DEF Spec

(* A sign-out has closed the session by the time the browser is told so,   *)
(* unless another request overlapped it or an answer had been lost.        *)
THEOREM LogoutHasClosed == Spec => []LogoutCloses
<1>1. Undisturbed => LogoutCloses
  BY DEF Undisturbed, LogoutCloses, FineTab, SessionOf, Busy
<1> QED  BY <1>1, UndisturbedHolds, PTL

LEMMA StoredIsSome ==
  ASSUME TypeInv, NEW t \in DOMAIN owner
  PROVE  /\ [token |-> t, httpOnly |-> TRUE] # None
         /\ [token |-> t, httpOnly |-> FALSE] # None
<1>1. t \in Token
  BY DEF TypeInv, LedgerOK
<1>2. /\ [token |-> t, httpOnly |-> TRUE] \in [token : Token, httpOnly : BOOLEAN]
      /\ [token |-> t, httpOnly |-> FALSE] \in [token : Token, httpOnly : BOOLEAN]
  BY <1>1
<1> QED  BY <1>2, NoneAssumption

LEMMA JarFollowsStep ==
  ASSUME JarFollowsLogin, Undisturbed, TypeInv, [Next]_vars
  PROVE  JarFollowsLogin'
\* Steps that leave jar and login alone; requests can only begin to overlap.
<1>1. ASSUME UNCHANGED <<refresh, latest, shadowed>>, ~muddled' => ~muddled
      PROVE  JarFollowsLogin'
  BY <1>1, LedgerGrows, HeldIssued DEF JarFollowsLogin
<1>2. ASSUME NEW b \in Tab, SetsOut(b), UNCHANGED <<refresh, latest, shadowed>>
      PROVE  JarFollowsLogin'
  BY <1>1, <1>2, Overlaps
<1>3. ASSUME NEW b \in Tab,
             \/ AskRefresh(b) \/ AskLogout(b) \/ ReturnAccepted(b)
             \/ \E s \in Session, t \in Token : ScriptLogin(b, s, t)
      PROVE  JarFollowsLogin'
  <2>1. SetsOut(b) /\ UNCHANGED <<refresh, latest, shadowed>>
    BY <1>3 DEF AskRefresh, AskLogout, ReturnAccepted, ScriptLogin, jarVars
  <2> QED  BY <1>2, <2>1
<1>4. ASSUME NEW b \in Tab,
             \/ LoadRefresh(b) \/ LoadLogout(b) \/ CommitLogout(b)
             \/ \E t2 \in Token : CommitRefresh(b, t2)
             \/ \E p \in Provider, n \in Page : StartProvider(b, p, n)
             \/ \E s \in Session, t \in Token : CommitProvider(b, s, t)
             \/ ReturnRejected(b) \/ ProviderRefuses(b) \/ NativeRefused(b)
             \/ FinishRejected(b) \/ Lose(b)
      PROVE  JarFollowsLogin'
  <2>1. UNCHANGED <<refresh, latest, shadowed, muddled>>
    BY <1>4 DEF LoadRefresh, LoadLogout, CommitLogout, CommitRefresh, StartProvider,
                CommitProvider, ReturnRejected, ProviderRefuses, NativeRefused,
                FinishRejected, Lose, jarVars, historyVars
  <2> QED  BY <1>1, <2>1
<1>5. CASE (\E s \in Session : RevokedElsewhere(s)) \/ Tick \/ UNCHANGED vars
  <2>1. UNCHANGED <<refresh, latest, shadowed, muddled>>
    BY <1>5 DEF RevokedElsewhere, Tick, vars, jarVars, historyVars
  <2> QED  BY <1>1, <2>1
\* A refresh that was alone brings the successor of the token in the jar.
<1>6. ASSUME NEW b \in Tab, FinishRefresh(b)
      PROVE  JarFollowsLogin'
  <2> SUFFICES ASSUME ~muddled', ~shadowed'
               PROVE  /\ latest' = None <=> refresh' = None
                      /\ refresh' # None => owner'[refresh'.token] = latest'
    BY DEF JarFollowsLogin
  <2>1. UNCHANGED <<owner, latest, muddled>> /\ tab[b].at = "rotated"
    BY <1>6 DEF FinishRefresh, ledgerVars
  <2>2. refresh # None /\ owner[refresh.token] = SessionOf(b)
    BY <2>1 DEF Undisturbed, Busy, FineTab, Asking
  <2>3. ~shadowed /\ refresh'.token = tab[b].token
    <3>1. CASE ~tab[b].body
      BY <1>6, <3>1 DEF FinishRefresh, SetByResponse
    <3>2. CASE tab[b].body
      <4>1. SetByScript(tab[b].token)
        BY <1>6, <3>2 DEF FinishRefresh
      <4>2. ~shadowed /\ ~Protected(refresh, refresh # None)
        BY <4>1, Zenon DEF SetByScript
      <4> QED  BY <4>1, <4>2 DEF SetByScript
    <3> QED  BY <3>1, <3>2
  <2>4. latest = SessionOf(b) /\ latest # None
    BY <2>1, <2>2, <2>3 DEF JarFollowsLogin
  <2>5. refresh' # None
    <3>1. refresh' \in {refresh, [token |-> tab[b].token, httpOnly |-> TRUE],
                        [token |-> tab[b].token, httpOnly |-> FALSE]}
      BY <1>6 DEF FinishRefresh, SetByResponse, SetByScript
    <3>2. tab[b].token \in DOMAIN owner
      BY <2>1 DEF TypeInv, TokensIssued
    <3> QED  BY <2>2, <3>1, <3>2, StoredIsSome
  <2> QED  BY <2>1, <2>3, <2>4, <2>5 DEF SessionOf
\* Logins and sign-outs.
<1>7. ASSUME NEW b \in Tab, FinishLogout(b)
      PROVE  JarFollowsLogin'
  BY <1>7 DEF FinishLogout, ClearSession, Settles, JarFollowsLogin
<1>8. ASSUME NEW b \in Tab, FinishScriptLogin(b)
      PROVE  JarFollowsLogin'
  <2> SUFFICES ASSUME ~shadowed'
               PROVE  /\ latest' = None <=> refresh' = None
                      /\ refresh' # None => owner'[refresh'.token] = latest'
    BY DEF JarFollowsLogin
  <2>1. /\ SetByScript(tab[b].token) /\ owner' = owner
        /\ latest' = owner[tab[b].token] /\ tab[b].token \in DOMAIN owner
    BY <1>8 DEF FinishScriptLogin, Settles, ledgerVars, TypeInv, TokensIssued
  <2>2. ~Protected(refresh, refresh # None)
    BY <2>1, Zenon DEF SetByScript
  <2>3. refresh' = [token |-> tab[b].token, httpOnly |-> FALSE]
    BY <2>1, <2>2 DEF SetByScript
  <2>4. latest' # None
    BY <2>1, NoneAssumption DEF TypeInv, LedgerOK
  <2> QED  BY <2>1, <2>3, <2>4, StoredIsSome
<1>9. ASSUME NEW b \in Tab, FinishProvider(b)
      PROVE  JarFollowsLogin'
  <2>1. CASE tab[b].dest = Native
    <3>1. UNCHANGED <<refresh, latest, shadowed, muddled>>
      BY <1>9, <2>1 DEF FinishProvider
    <3> QED  BY <1>1, <3>1
  <2>2. CASE tab[b].dest # Native
    <3>1. /\ refresh' = [token |-> tab[b].token, httpOnly |-> TRUE] /\ owner' = owner
          /\ latest' = owner[tab[b].token] /\ tab[b].token \in DOMAIN owner
      BY <1>9, <2>2
      DEF FinishProvider, SetByResponse, Settles, ledgerVars, TypeInv, TokensIssued
    <3>2. latest' # None
      BY <3>1, NoneAssumption DEF TypeInv, LedgerOK
    <3> QED  BY <3>1, <3>2, StoredIsSome DEF JarFollowsLogin
  <2> QED  BY <2>1, <2>2
<1> QED
  BY <1>3, <1>4, <1>5, <1>6, <1>7, <1>8, <1>9 DEF Next

(* The jar is that of the last login that has finished, and empty after a  *)
(* sign-out, unless requests overlapped or a script met an HttpOnly cookie. *)
THEOREM JarIsLastLogin == Spec => []JarFollowsLogin
<1>1. Init => JarFollowsLogin
  BY DEF Init, JarFollowsLogin
<1> QED  BY <1>1, UndisturbedHolds, JarFollowsStep, PTL DEF Spec
===============================================================================
