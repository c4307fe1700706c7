---------------------------- MODULE SecurityCenter ----------------------------
(***************************************************************************)
(* What a user sees and does in the security center: the devices and the   *)
(* authorized applications of the page (security_service.py,               *)
(* routers/security.py), over the tables of Sessions.                      *)
(*                                                                         *)
(* Two requests in flight at once can go past each other: Sessions shows a *)
(* token rotated twice and a consent that a session survives.  The history *)
(* variables record how that came about, so that the properties can say    *)
(* how far the disorder goes.                                              *)
(***************************************************************************)
EXTENDS Sessions

VARIABLES
  caller,     \* history: the session each worker's last revocation came from
  overtaken,  \* history: workers during whose request another worker has
              \* changed sessions, tokens or consents in any way
  late,       \* history: the rows such workers have inserted
  survivors   \* history: sessions opened under a consent that was revoked
              \* after their exchange had read it active

securityVars == <<vars, caller, overtaken, late, survivors>>

SecurityInit ==
  /\ Init
  /\ caller = [p \in Worker |-> {}]
  /\ overtaken = {}
  /\ late = {}
  /\ survivors = {}

TablesChange == <<sessions, tokens, consents>>' # <<sessions, tokens, consents>>

Ends(p) == req[p] # Idle /\ req'[p] = Idle

Opened == DOMAIN sessions' \ DOMAIN sessions
Inserted == Opened \cup (DOMAIN tokens' \ DOMAIN tokens)

\* p's exchange has read its consent active, and it no longer is.
Undercut(p) ==
  /\ req[p].op = "exchange"
  /\ req[p].seen = "active"
  /\ consents[<<req[p].user, req[p].client>>] # "active"

Records ==
  /\ caller' = [p \in Worker |->
                  IF req'[p].op = "seed" THEN {req'[p].current}
                  ELSE IF req'[p].op = "revoke" THEN caller[p] ELSE {}]
  /\ overtaken' = {p \in Worker :
                     /\ req'[p] # Idle
                     /\ p \in overtaken \/ (req'[p] = req[p] /\ TablesChange)}
  /\ late' = late \cup (IF \E p \in overtaken : Ends(p) THEN Inserted ELSE {})
  /\ survivors' = survivors \cup
       (IF \E p \in Worker : Ends(p) /\ Undercut(p) THEN Opened ELSE {})

SecurityNext == Next /\ Records

SecuritySpec == SecurityInit /\ [][SecurityNext]_securityVars

-----------------------------------------------------------------------------
(* The page.                                                               *)

\* _dedupe_devices_by_name: of the sessions in D named n the page shows one,
\* the caller's if it is among them, else the last seen, which may be any.
Deduped(D, current, n) ==
  LET named == {s \in D : sessions[s].name = n}
  IN  IF current \in named THEN {current} ELSE named

\* build_security_snapshot: what the page may show under each name.
Snapshot(u, current) ==
  [n \in Name |-> Deduped(ActiveSessions(u), current, n)]

\* list_authorized_applications
Applications(u) == {c \in Client : consents[<<u, c>>] = "active"}

-----------------------------------------------------------------------------
(* Properties.                                                             *)

(* RevokedDeviceLeavesPage: after a device is revoked, the caller's page   *)
(* shows no device by that name except the caller's own, unless another    *)
(* request changed the tables meanwhile (revoke_security_session takes     *)
(* every session of the display name, the page shows one of them).         *)
RevokedDeviceLeavesPage ==
  [][\A p \in Worker \ overtaken, u \in User, n \in Name :
       /\ RevokeCommit(p)
       /\ u = req[p].user
       /\ \E s \in req[p].targets : sessions[s].name = n
       => \A current \in caller[p] : Snapshot(u, current)'[n] \subseteq {current}
    ]_securityVars

(* ApplicationIsListed: an application with an unrevoked session, expired  *)
(* or not, is on its user's list and can be revoked there.  The exception  *)
(* is a session opened by an exchange that had read the consent active     *)
(* when it was revoked; no other overlap leaves one, neither that of two   *)
(* first exchanges nor that of a revocation with one that reactivates      *)
(* (upsert_oauth_consent, revoke_oauth_consent).                           *)
ApplicationIsListed ==
  \A s \in DOMAIN sessions :
    LET u == sessions[s].user
        c == sessions[s].client
    IN  c # NoClient /\ ~sessions[s].revoked =>
          \/ c \in Applications(u)
          \/ s \in survivors /\ consents[<<u, c>>] = "revoked"

(* SecondSuccessorIsLate: of two tokens that a token was exchanged for,    *)
(* all but the first were inserted by refreshes during which another       *)
(* request changed the tables (issue_tokens_with_rotation).                *)
SecondSuccessorIsLate ==
  \A t1, t2 \in DOMAIN tokens \ late :
    tokens[t1].parent = tokens[t2].parent /\ tokens[t1].parent # NoToken
      => t1 = t2
===============================================================================
