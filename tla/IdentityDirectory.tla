--------------------------- MODULE IdentityDirectory ---------------------------
(***************************************************************************)
(* What mini-auth promises about logins through a provider, without        *)
(* callbacks, lookups or conflicts.  A subject is bound once and for good  *)
(* to one account, whose address its provider has vouched for, and every   *)
(* login of it is into that account.                                       *)
(***************************************************************************)
CONSTANTS Subject, Email

VARIABLES
  accounts,   \* the addresses that have an account
  vouched,    \* <<subject, address>> that a provider has vouched for
  account,    \* the account of every subject bound so far
  signedIn    \* <<subject, account>> for every login

directoryVars == <<accounts, vouched, account, signedIn>>

DirectoryInit ==
  /\ accounts = {}
  /\ vouched = {}
  /\ account = [s \in {} |-> {}]
  /\ signedIn = {}

Vouch(s, e) ==
  /\ vouched' = vouched \cup {<<s, e>>}
  /\ UNCHANGED <<accounts, account, signedIn>>

Join(e) ==
  /\ accounts' = accounts \cup {e}
  /\ UNCHANGED <<vouched, account, signedIn>>

\* The subject's first login; it makes the account if there is none.
Bind(s, e) ==
  /\ s \notin DOMAIN account
  /\ <<s, e>> \in vouched
  /\ account' = [x \in DOMAIN account \cup {s} |->
                   IF x = s THEN e ELSE account[x]]
  /\ accounts' = accounts \cup {e}
  /\ UNCHANGED <<vouched, signedIn>>

SignIn(s) ==
  /\ s \in DOMAIN account
  /\ signedIn' = signedIn \cup {<<s, account[s]>>}
  /\ UNCHANGED <<accounts, vouched, account>>

DirectoryNext ==
  \/ \E s \in Subject, e \in Email : Vouch(s, e) \/ Bind(s, e)
  \/ \E e \in Email : Join(e)
  \/ \E s \in Subject : SignIn(s)

DirectorySpec == DirectoryInit /\ [][DirectoryNext]_directoryVars
===============================================================================
