----------------------------- MODULE TokenLedger ------------------------------
(***************************************************************************)
(* What mini-auth promises about refresh tokens, without clocks, tables or *)
(* requests.  A token belongs to one session for good.  It is spendable    *)
(* from the moment it is issued until it is rotated, its session is closed *)
(* or it lapses, and never again after that.                               *)
(***************************************************************************)
CONSTANTS Session, Token

VARIABLES
  owner,      \* the session of every token issued so far
  spendable,  \* the tokens that /refresh would accept
  closed      \* the sessions that were revoked

ledgerVars == <<owner, spendable, closed>>

LedgerInit ==
  /\ owner = [t \in {} |-> {}]
  /\ spendable = {}
  /\ closed = {}

Issued(t, s) ==
  owner' = [x \in DOMAIN owner \cup {t} |-> IF x = t THEN s ELSE owner[x]]

\* A login: a session nobody has used, and its first token.
Grant(s, t) ==
  /\ s \notin closed
  /\ \A x \in DOMAIN owner : owner[x] # s
  /\ t \notin DOMAIN owner
  /\ Issued(t, s)
  /\ spendable' = spendable \cup {t}
  /\ UNCHANGED closed

\* t2 takes the place of t.  It is spendable unless the session was closed.
Rotate(t, t2) ==
  /\ t \in DOMAIN owner
  /\ t2 \notin DOMAIN owner
  /\ Issued(t2, owner[t])
  /\ spendable' = (spendable \ {t}) \cup
                  (IF owner[t] \in closed THEN {} ELSE {t2})
  /\ UNCHANGED closed

Close(S) ==
  /\ closed' = closed \cup S
  /\ spendable' = {t \in spendable : owner[t] \notin S}
  /\ UNCHANGED owner

Lapse(T) ==
  /\ spendable' = spendable \ T
  /\ UNCHANGED <<owner, closed>>

LedgerNext ==
  \/ \E s \in Session, t \in Token : Grant(s, t)
  \/ \E t, t2 \in Token : Rotate(t, t2)
  \/ \E S \in SUBSET Session : Close(S)
  \/ \E T \in SUBSET Token : Lapse(T)

LedgerSpec == LedgerInit /\ [][LedgerNext]_ledgerVars
===============================================================================
