------------------------------ MODULE DeviceFlow -------------------------------
(***************************************************************************)
(* The device authorization grant: rows of device_authorization_requests,  *)
(* the user who approves or denies a code in the browser and the device    *)
(* that polls the token endpoint (oidc_service.py, routers/oidc.py).       *)
(*                                                                         *)
(* confirm_device_authorization and exchange_device_code SELECT plain      *)
(* columns, decide on them, and then UPDATE by code without repeating the  *)
(* conditions, so a decision may act on a row that has changed since.      *)
(* What the exchange writes besides the row (consent, session, tokens) is  *)
(* ExchangeCommit of module Sessions; here it counts as one grant.         *)
(***************************************************************************)
EXTENDS Naturals, FiniteSets

CONSTANTS
  Code,       \* device_code, in one-to-one relation with user_code
  User,
  Worker,     \* requests in flight at the same time
  NoUser,     \* approved_user_id IS NULL
  Lifetime,   \* DEVICE_CODE_LIFETIME_SECONDS, in ticks
  Horizon     \* bound on the clock

ASSUME LifetimeAssumption == Lifetime \in Nat \ {0}
ASSUME HorizonAssumption == Horizon \in Nat
ASSUME NoUserAssumption == NoUser \notin User
ASSUME WorkerAssumption == IsFiniteSet(Worker)

VARIABLES
  now,
  codes,      \* device_authorization_requests: code -> row
  req,        \* what each worker's request has read and not yet acted upon
  answer,     \* the last answer the device of a code got from the endpoint
  grants,     \* how many token sets were issued for each code ...
  grantees,   \* ... and in whose names: <<code, user>>
  approvals   \* history: <<code, user>> for every approval that committed

vars == <<now, codes, req, answer, grants, grantees, approvals>>

Row == [status : {"pending", "approved", "denied", "expired"},
        approver : User \cup {NoUser}, consumed : BOOLEAN, exp : Nat]

Idle == [op |-> "idle"]

Request ==
  {Idle}
  \cup [op : {"confirm"}, code : Code, user : User, approve : BOOLEAN]
  \cup [op : {"expire"}, code : Code, device : BOOLEAN]
  \cup [op : {"exchange"}, code : Code, user : User]

Final == {"access_denied", "expired_token", "used", "tokens"}

(* TypeOK: rows of the schema, and requests that hold what one handler     *)
(* reads; in particular no exchange is under way for a row without user.   *)
TypeOK ==
  /\ now \in Nat
  /\ DOMAIN codes \subseteq Code
  /\ codes \in [DOMAIN codes -> Row]
  /\ req \in [Worker -> Request]
  /\ answer \in [Code -> Final \cup {"none", "authorization_pending"}]
  /\ grants \in [Code -> Nat]
  /\ grantees \subseteq Code \X User
  /\ approvals \subseteq Code \X User

Init ==
  /\ now = 0
  /\ codes = [c \in {} |-> 0]
  /\ req = [p \in Worker |-> Idle]
  /\ answer = [c \in Code |-> "none"]
  /\ grants = [c \in Code |-> 0]
  /\ grantees = {}
  /\ approvals = {}

Expired(c) == codes[c].exp <= now
Read(p, r) == req[p] = Idle /\ req' = [req EXCEPT ![p] = r]
Done(p) == req' = [req EXCEPT ![p] = Idle]
Told(c, a) == answer' = [answer EXCEPT ![c] = a]

-----------------------------------------------------------------------------
\* POST /oauth/device/start: one insert and its commit.  Bound: only codes
\* that expire within the horizon.
Start(c) ==
  /\ c \notin DOMAIN codes
  /\ now + Lifetime <= Horizon
  /\ codes' = [x \in DOMAIN codes \cup {c} |->
                 IF x # c THEN codes[x]
                 ELSE [status |-> "pending", approver |-> NoUser,
                       consumed |-> FALSE, exp |-> now + Lifetime]]
  /\ UNCHANGED <<now, req, answer, grants, grantees, approvals>>

(* POST /oauth/device/confirm, by a signed-in user.                        *)

\* Variant of ConfirmLoad: a decided code can be decided again.
ConfirmLoadAnyStatus(p, c, u, approve) ==
  /\ c \in DOMAIN codes
  /\ Read(p, IF Expired(c) THEN [op |-> "expire", code |-> c, device |-> FALSE]
             ELSE [op |-> "confirm", code |-> c, user |-> u,
                   approve |-> approve])
  /\ UNCHANGED <<now, codes, answer, grants, grantees, approvals>>

\* An expired row is marked so; a decided one is refused, without effect.
ConfirmLoad(p, c, u, approve) ==
  /\ c \in DOMAIN codes
  /\ \/ /\ Expired(c)
        /\ Read(p, [op |-> "expire", code |-> c, device |-> FALSE])
     \/ /\ ~Expired(c)
        /\ codes[c].status = "pending"
        /\ Read(p, [op |-> "confirm", code |-> c, user |-> u,
                    approve |-> approve])
  /\ UNCHANGED <<now, codes, answer, grants, grantees, approvals>>

\* Variant of Decided: whatever the user answers is an approval.
DecidedIgnoringAnswer(row, u, approve) ==
  [row EXCEPT !.status = "approved", !.approver = u]

\* A denial leaves approved_user_id as it is.
Decided(row, u, approve) ==
  IF approve THEN [row EXCEPT !.status = "approved", !.approver = u]
  ELSE [row EXCEPT !.status = "denied"]

ConfirmCommit(p) ==
  /\ req[p].op = "confirm"
  /\ LET c == req[p].code
         u == req[p].user
     IN  /\ codes' = [codes EXCEPT ![c] = Decided(@, u, req[p].approve)]
         /\ approvals' = IF req[p].approve THEN approvals \cup {<<c, u>>}
                         ELSE approvals
  /\ Done(p)
  /\ UNCHANGED <<now, answer, grants, grantees>>

-----------------------------------------------------------------------------
(* POST /oauth/token with a device code.  The device repeats it until it   *)
(* gets a final answer; a repetition may overlap the previous request.     *)

\* The answer by the state of the row, when it needs no write: an `expired`
\* row that is not past its expiry counts as pending.
Refusal(r) ==
  IF r.status = "denied" THEN "access_denied"
  ELSE IF r.status # "approved" \/ r.approver = NoUser
       THEN "authorization_pending"
       ELSE "used"

\* Variant of Exchangeable: consumed_at is not looked at.
ExchangeableAgain(r) == r.status = "approved" /\ r.approver # NoUser

\* Variant of Exchangeable: a row without a decision goes through.
ExchangeableUnapproved(r) == r.status # "denied" /\ ~r.consumed

Exchangeable(r) ==
  r.status = "approved" /\ r.approver # NoUser /\ ~r.consumed

\* Variant of Poll: a code that is still pending is not found expired.
PollExpiringDecided(p, c) ==
  /\ c \in DOMAIN codes /\ answer[c] \notin Final
  /\ \/ /\ Expired(c) /\ codes[c].status # "pending"
        /\ Read(p, [op |-> "expire", code |-> c, device |-> TRUE])
        /\ UNCHANGED answer
     \/ /\ ~Expired(c) /\ Exchangeable(codes[c])
        /\ Read(p, [op |-> "exchange", code |-> c, user |-> codes[c].approver])
        /\ UNCHANGED answer
     \/ /\ codes[c].status = "pending"
        /\ req[p] = Idle /\ UNCHANGED req
        /\ Told(c, Refusal(codes[c]))
  /\ UNCHANGED <<now, codes, grants, grantees, approvals>>

Poll(p, c) ==
  /\ c \in DOMAIN codes /\ answer[c] \notin Final
  /\ \/ /\ Expired(c)
        /\ Read(p, [op |-> "expire", code |-> c, device |-> TRUE])
        /\ UNCHANGED answer
     \/ /\ ~Expired(c) /\ Exchangeable(codes[c])
        /\ Read(p, [op |-> "exchange", code |-> c, user |-> codes[c].approver])
        /\ UNCHANGED answer
     \/ /\ ~Expired(c) /\ ~Exchangeable(codes[c])
        /\ req[p] = Idle /\ UNCHANGED req
        /\ Told(c, Refusal(codes[c]))
  /\ UNCHANGED <<now, codes, grants, grantees, approvals>>

\* Variant of Consumed: consumed_at is not stored.
ConsumedNotStored(row) == row

Consumed(row) == [row EXCEPT !.consumed = TRUE]

\* The tokens are issued to the user who was read.  The response may be lost
\* after the commit.
ExchangeCommit(p, delivered) ==
  /\ req[p].op = "exchange"
  /\ LET c == req[p].code
     IN  /\ codes' = [codes EXCEPT ![c] = Consumed(@)]
         /\ grants' = [grants EXCEPT ![c] = @ + 1]
         /\ grantees' = grantees \cup {<<c, req[p].user>>}
         /\ IF delivered THEN Told(c, "tokens") ELSE UNCHANGED answer
  /\ Done(p)
  /\ UNCHANGED <<now, approvals>>

\* Both handlers mark an expired row; the device is told.
ExpireCommit(p) ==
  /\ req[p].op = "expire"
  /\ LET c == req[p].code
     IN  /\ codes' = [codes EXCEPT ![c].status = "expired"]
         /\ IF req[p].device THEN Told(c, "expired_token") ELSE UNCHANGED answer
  /\ Done(p)
  /\ UNCHANGED <<now, grants, grantees, approvals>>

-----------------------------------------------------------------------------
\* The transaction is rolled back (crash, lost connection, constraint).
Abort(p) ==
  /\ req[p] # Idle
  /\ Done(p)
  /\ UNCHANGED <<now, codes, answer, grants, grantees, approvals>>

Tick ==
  /\ now < Horizon
  /\ now' = now + 1
  /\ UNCHANGED <<codes, req, answer, grants, grantees, approvals>>

Commit(p) ==
  \/ ConfirmCommit(p)
  \/ \E delivered \in BOOLEAN : ExchangeCommit(p, delivered)
  \/ ExpireCommit(p)

Next ==
  \/ \E c \in Code : Start(c)
  \/ \E p \in Worker, c \in Code, u \in User, approve \in BOOLEAN :
       ConfirmLoad(p, c, u, approve)
  \/ \E p \in Worker, c \in Code : Poll(p, c)
  \/ \E p \in Worker : Commit(p)
  \/ \E p \in Worker : Abort(p)
  \/ Tick

Spec == Init /\ [][Next]_vars

\* The commits a device waits for.
DeviceCommit(c) ==
  \E p \in Worker :
    /\ req[p] # Idle /\ req[p].code = c
    /\ \/ \E delivered \in BOOLEAN : ExchangeCommit(p, delivered)
       \/ req[p].op = "expire" /\ req[p].device /\ ExpireCommit(p)

\* Time passes; every request ends; the device of a code keeps polling while
\* it has no final answer, gets through again and again, and is not rolled
\* back for ever.  No user has to act, and no response to arrive.
Fairness ==
  /\ WF_vars(Tick)
  /\ \A p \in Worker : WF_vars(Commit(p) \/ Abort(p))
  /\ \A c \in Code : SF_vars(\E p \in Worker : Poll(p, c))
  /\ \A c \in Code : SF_vars(DeviceCommit(c))

FairSpec == Spec /\ Fairness

-----------------------------------------------------------------------------
(* GrantWasApproved: tokens are issued only in the name of a user who      *)
(* approved that code, though the row may by then have been denied or      *)
(* approved by somebody else (confirm_device_authorization).               *)
GrantWasApproved == grantees \subseteq approvals

(* ConsumedIffGranted: a code is marked consumed exactly when tokens were  *)
(* issued for it; no rollback separates the two (exchange_device_code).    *)
ConsumedIffGranted ==
  \A c \in DOMAIN codes : codes[c].consumed <=> grants[c] > 0

(* OneGrant: no code yields two token sets ("Device code already used").   *)
OneGrant == \A c \in Code : grants[c] <= 1

(* GrantsBounded: a code never yields more token sets than there are       *)
(* requests in flight at once: every one of them needs an exchange of its  *)
(* own that had read the row before the first was granted                  *)
(* (exchange_device_code).                                                 *)
GrantsBounded == \A c \in Code : grants[c] <= Cardinality(Worker)

InFlight(op, c) == \E p \in Worker : req[p].op = op /\ req[p].code = c

(* SpentForGood: once a code is consumed and no exchange that read it      *)
(* earlier is left, no further poll gets tokens for it: only overlapping   *)
(* polls can be granted twice (exchange_device_code).                      *)
Spent(c) == codes[c].consumed /\ ~InFlight("exchange", c)

SpentForGood ==
  [][\A c \in DOMAIN codes :
       Spent(c) => Spent(c)' /\ grants'[c] = grants[c]]_vars

(* DecisionStands: once a code is decided and no confirmation that read it *)
(* pending is left, it only ever expires: nobody can turn a denial into an *)
(* approval or take an approval over (confirm_device_authorization).       *)
Settled(c) == codes[c].status # "pending" /\ ~InFlight("confirm", c)

DecisionStands ==
  [][\A c \in DOMAIN codes :
       Settled(c) => /\ Settled(c)'
                     /\ codes'[c].status \in {codes[c].status, "expired"}
                     /\ codes'[c].approver = codes[c].approver]_vars

(* Answered: the device of every started code gets a final answer, whatever *)
(* the users do: polling ends by approval, by denial or by expiry.         *)
Answered == \A c \in Code : c \in DOMAIN codes ~> answer[c] \in Final
===============================================================================
