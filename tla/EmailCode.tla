------------------------------- MODULE EmailCode -------------------------------
(***************************************************************************)
(* Login by e-mailed code: the rows of email_verification_codes, the two   *)
(* limits on sending and the limit on guessing (email_auth_service.py).    *)
(*                                                                         *)
(* start_email_login counts, then looks at the latest pending code, then   *)
(* inserts and sends; verify_email_login selects the latest pending code,  *)
(* decides in memory and writes the row back.  No row is locked in         *)
(* between, so both limits can be passed by requests that overlap: the     *)
(* history variable `contended` says where that has happened.              *)
(***************************************************************************)
EXTENDS Naturals, FiniteSets

CONSTANTS
  Id,           \* ids of email_verification_codes rows
  Email, Ip,
  Worker,       \* requests in flight at the same time
  TTL, Resend, Window,            \* settings.email_*_seconds, in ticks
  MaxAttempts, PerEmail, PerIp,   \* settings.email_code_max_attempts, limits
  Horizon,      \* bound on the clock
  MaxWrong      \* bound on the wrong guesses per code

ASSUME SettingsAssumption ==
  /\ TTL \in Nat \ {0} /\ Resend \in Nat /\ Window \in Nat
  /\ MaxAttempts \in Nat \ {0} /\ PerEmail \in Nat /\ PerIp \in Nat
ASSUME BoundsAssumption == Horizon \in Nat /\ MaxWrong \in Nat
ASSUME KeysAssumption == Id \cap (Email \cup Ip) = {}

VARIABLES
  now,
  rows,       \* email_verification_codes: id -> row
  accounts,   \* the e-mail addresses in users
  req,        \* what each worker's request has read and not yet acted upon
  wrong,      \* history: wrong guesses answered, by code
  logins,     \* history: logins obtained, by code
  contended   \* history: addresses, ips and codes two requests overlapped on

vars == <<now, rows, accounts, req, wrong, logins, contended>>

Row == [email : Email, ip : Ip, sent : Nat, consumed : BOOLEAN,
        attempts : 0..MaxAttempts]

Idle == [op |-> "idle"]

Request ==
  {Idle}
  \cup [op : {"counted", "checked"}, email : Email, ip : Ip, at : Nat]
  \cup [op : {"verify"}, id : Id, attempts : 0..MaxAttempts, right : BOOLEAN]
  \cup [op : {"expire"}, id : Id]

(* TypeOK: rows of the schema; no code counts more attempts than allowed,  *)
(* although the count written back was read before other guesses.          *)
TypeOK ==
  /\ now \in Nat
  /\ DOMAIN rows \subseteq Id
  /\ rows \in [DOMAIN rows -> Row]
  /\ accounts \subseteq Email
  /\ req \in [Worker -> Request]
  /\ wrong \in [Id -> Nat]
  /\ logins \in [Id -> Nat]
  /\ contended \subseteq Email \cup Ip \cup Id

Init ==
  /\ now = 0
  /\ rows = [i \in {} |-> 0]
  /\ accounts = {}
  /\ req = [p \in Worker |-> Idle]
  /\ wrong = [i \in Id |-> 0]
  /\ logins = [i \in Id |-> 0]
  /\ contended = {}

\* The addresses, ips and codes a request in flight is about.
Keys(r) ==
  CASE r.op \in {"counted", "checked"} -> {r.email, r.ip}
    [] r.op \in {"verify", "expire"} -> {r.id}
    [] OTHER -> {}

Read(p, r) ==
  /\ req' = [req EXCEPT ![p] = r]
  /\ contended' = contended \cup
       (Keys(r) \cap UNION {Keys(req[q]) : q \in Worker \ {p}})

Done(p) == req' = [req EXCEPT ![p] = Idle] /\ UNCHANGED contended

-----------------------------------------------------------------------------
(* POST /api/v1/auth/email/start.                                          *)

InWindow(i) == rows[i].sent + Window >= now
SentTo(e) == {i \in DOMAIN rows : rows[i].email = e /\ InWindow(i)}
SentFrom(a) == {i \in DOMAIN rows : rows[i].ip = a /\ InWindow(i)}

\* Variant of MaySend: both limits are off by one.
MaySendOneMore(e, a) ==
  Cardinality(SentTo(e)) <= PerEmail /\ Cardinality(SentFrom(a)) <= PerIp

MaySend(e, a) ==
  Cardinality(SentTo(e)) < PerEmail /\ Cardinality(SentFrom(a)) < PerIp

Pending(e) == {i \in DOMAIN rows : rows[i].email = e /\ ~rows[i].consumed}

\* Variant of Latest: the order of sent_at is the wrong way round.
LatestAscending(e) ==
  {i \in Pending(e) : \A j \in Pending(e) : rows[i].sent <= rows[j].sent}

\* Variant of Latest: consumed codes are not filtered out.
LatestOfAll(e) ==
  {i \in DOMAIN rows :
     /\ rows[i].email = e
     /\ \A j \in DOMAIN rows : rows[j].email = e => rows[j].sent <= rows[i].sent}

\* The candidates for _get_latest_pending_code: one, unless sent_at ties.
Latest(e) ==
  {i \in Pending(e) : \A j \in Pending(e) : rows[j].sent <= rows[i].sent}

\* sent_at will be the time the handler began, not that of the insert.
StartCount(p, e, a) ==
  /\ req[p] = Idle
  /\ MaySend(e, a)
  /\ Read(p, [op |-> "counted", email |-> e, ip |-> a, at |-> now])
  /\ UNCHANGED <<now, rows, accounts, wrong, logins>>

StartCheck(p) ==
  /\ req[p].op = "counted"
  /\ LET e == req[p].email
     IN  \/ /\ \/ Latest(e) = {}
               \/ \E i \in Latest(e) : rows[i].sent + Resend <= req[p].at
            /\ Read(p, [req[p] EXCEPT !.op = "checked"])
         \/ /\ \E i \in Latest(e) : rows[i].sent + Resend > req[p].at
            /\ Done(p)
  /\ UNCHANGED <<now, rows, accounts, wrong, logins>>

\* Variant of NewRow: the address and the ip are swapped.
NewRowSwapped(r) ==
  [email |-> r.ip, ip |-> r.email, sent |-> r.at,
   consumed |-> FALSE, attempts |-> 0]

NewRow(r) ==
  [email |-> r.email, ip |-> r.ip, sent |-> r.at,
   consumed |-> FALSE, attempts |-> 0]

\* The mail is sent between the insert and the commit: if sending fails the
\* insert is rolled back (Abort), if the commit fails a mail is out for nothing.
StartCommit(p, i) ==
  /\ req[p].op = "checked"
  /\ i \notin DOMAIN rows
  /\ rows' = [x \in DOMAIN rows \cup {i} |->
                IF x # i THEN rows[x] ELSE NewRow(req[p])]
  /\ Done(p)
  /\ UNCHANGED <<now, accounts, wrong, logins>>

-----------------------------------------------------------------------------
(* POST /api/v1/auth/email/verify.                                         *)

Expired(i) == rows[i].sent + TTL <= now

\* `right` tells whether the submitted code is the one of the row found.
VerifyLoad(p, e, right) ==
  /\ req[p] = Idle
  /\ \E i \in Latest(e) :
       \/ Expired(i) /\ Read(p, [op |-> "expire", id |-> i])
       \/ /\ ~Expired(i)
          /\ rows[i].attempts < MaxAttempts
          /\ Read(p, [op |-> "verify", id |-> i, right |-> right,
                      attempts |-> rows[i].attempts])
  /\ UNCHANGED <<now, rows, accounts, wrong, logins>>

\* Variant of Guessed: the code is locked one guess too late.
GuessedTooOften(row, seen) ==
  [row EXCEPT !.attempts = seen + 1,
              !.consumed = row.consumed \/ seen + 1 > MaxAttempts]

\* attempt_count is written back from the copy that was read; consumed_at is
\* written only when it is set.
Guessed(row, seen) ==
  [row EXCEPT !.attempts = seen + 1,
              !.consumed = row.consumed \/ seen + 1 >= MaxAttempts]

VerifyWrong(p) ==
  /\ req[p].op = "verify" /\ ~req[p].right
  /\ LET i == req[p].id
     IN  /\ wrong[i] < MaxWrong
         /\ rows' = [rows EXCEPT ![i] = Guessed(@, req[p].attempts)]
         /\ wrong' = [wrong EXCEPT ![i] = @ + 1]
  /\ Done(p)
  /\ UNCHANGED <<now, accounts, logins>>

\* A first login creates the account.
VerifyRight(p) ==
  /\ req[p].op = "verify" /\ req[p].right
  /\ LET i == req[p].id
     IN  /\ rows' = [rows EXCEPT ![i].consumed = TRUE]
         /\ accounts' = accounts \cup {rows[i].email}
         /\ logins' = [logins EXCEPT ![i] = @ + 1]
  /\ Done(p)
  /\ UNCHANGED <<now, wrong>>

VerifyExpired(p) ==
  /\ req[p].op = "expire"
  /\ rows' = [rows EXCEPT ![req[p].id].consumed = TRUE]
  /\ Done(p)
  /\ UNCHANGED <<now, accounts, wrong, logins>>

-----------------------------------------------------------------------------
\* Rolled back: the mail provider failed, the new account's e-mail was
\* inserted by another request, the process or the connection died.
Abort(p) ==
  /\ req[p] # Idle
  /\ Done(p)
  /\ UNCHANGED <<now, rows, accounts, wrong, logins>>

Tick ==
  /\ now < Horizon
  /\ now' = now + 1
  /\ UNCHANGED <<rows, accounts, req, wrong, logins, contended>>

Next ==
  \/ \E p \in Worker, e \in Email, a \in Ip : StartCount(p, e, a)
  \/ \E p \in Worker : StartCheck(p)
  \/ \E p \in Worker, i \in Id : StartCommit(p, i)
  \/ \E p \in Worker, e \in Email, right \in BOOLEAN : VerifyLoad(p, e, right)
  \/ \E p \in Worker : VerifyWrong(p)
  \/ \E p \in Worker : VerifyRight(p)
  \/ \E p \in Worker : VerifyExpired(p)
  \/ \E p \in Worker : Abort(p)
  \/ Tick

Spec == Init /\ [][Next]_vars

-----------------------------------------------------------------------------
(* SendLimit: within any window an address and an ip get no more mails     *)
(* than their limits, unless two sendings to it or from it overlapped.     *)
SendLimit ==
  /\ \A e \in Email \ contended : Cardinality(SentTo(e)) <= PerEmail
  /\ \A a \in Ip \ contended : Cardinality(SentFrom(a)) <= PerIp

(* ResendSpacing: unless two sendings to an address overlapped, the codes  *)
(* that are pending for it were sent at least the resend interval apart,   *)
(* also after newer ones were used or locked (_get_latest_pending_code).   *)
ResendSpacing ==
  \A i, j \in DOMAIN rows :
    /\ i # j /\ rows[i].email = rows[j].email
    /\ rows[i].email \notin contended
    /\ ~rows[i].consumed /\ ~rows[j].consumed
    => \/ rows[i].sent + Resend <= rows[j].sent
       \/ rows[j].sent + Resend <= rows[i].sent

(* AttemptLimit: a code takes at most MaxAttempts wrong guesses and then   *)
(* is locked (EMAIL_CODE_MAX_ATTEMPTS).                                    *)
AttemptLimit == \A i \in Id : wrong[i] <= MaxAttempts

(* AttemptsCounted: unless two verifications of a code overlapped, every   *)
(* wrong guess was counted, the limit holds and the code is locked at it.  *)
AttemptsCounted ==
  \A i \in DOMAIN rows \ contended :
    /\ rows[i].attempts = wrong[i]
    /\ wrong[i] >= MaxAttempts => rows[i].consumed

(* UsedForGood: a consumed code that no verification holds any more logs   *)
(* nobody in again and is never pending again, whatever guesses that were  *)
(* loaded before it was consumed write back; and every code that logged    *)
(* somebody in is consumed.                                                *)
Used(i) ==
  rows[i].consumed /\ \A p \in Worker : i \notin Keys(req[p])

UsedForGood ==
  [][\A i \in DOMAIN rows :
       /\ Used(i) => Used(i)' /\ logins'[i] = logins[i]
       /\ rows[i].consumed => rows'[i].consumed
       /\ logins'[i] > 0 => rows'[i].consumed]_vars
===============================================================================
