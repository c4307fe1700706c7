---------------------------- MODULE DeviceFlowProofs ---------------------------
(***************************************************************************)
(* Proofs about DeviceFlow for any number of codes, users and requests in  *)
(* flight.                                                                 *)
(*                                                                         *)
(* A grant in the name of a user needs four facts carried along: requests  *)
(* and grants are about codes that were started, a row's approver and the  *)
(* user an exchange has read did approve the code, and the row stays       *)
(* consumed once it is.  The two action properties follow step by step     *)
(* from the same invariant.                                                *)
(***************************************************************************)
EXTENDS DeviceFlow, FiniteSetTheorems, TLAPS

\* What a handler still holds is about a code that was started.
RequestsStarted ==
  \A p \in Worker : req[p] # Idle => req[p].code \in DOMAIN codes

GrantsStarted ==
  \A c \in Code : grants[c] > 0 => c \in DOMAIN codes

ApproverApproved ==
  \A c \in DOMAIN codes :
    codes[c].approver # NoUser => <<c, codes[c].approver>> \in approvals

ExchangeApproved ==
  \A p \in Worker :
    req[p].op = "exchange" => <<req[p].code, req[p].user>> \in approvals

IInv ==
  /\ TypeOK
  /\ RequestsStarted /\ GrantsStarted
  /\ ApproverApproved /\ ExchangeApproved
  /\ GrantWasApproved /\ ConsumedIffGranted

-----------------------------------------------------------------------------
(* Facts about one request and one row.                                    *)

LEMMA HeldRequest ==
  ASSUME NEW r \in Request
  PROVE  /\ r.op = "confirm" => r # Idle /\ r.code \in Code /\ r.user \in User
         /\ r.op = "exchange" => r # Idle /\ r.code \in Code /\ r.user \in User
         /\ r.op = "expire" => r # Idle /\ r.code \in Code
         /\ r = Idle => r.op = "idle"
BY DEF Request, Idle

\* The handlers overwrite one row, which stays in the schema.
LEMMA RowUpdated ==
  ASSUME TypeOK, NEW c \in DOMAIN codes, NEW row \in Row,
         codes' = [codes EXCEPT ![c] = row]
  PROVE  /\ DOMAIN codes' = DOMAIN codes
         /\ codes' \in [DOMAIN codes' -> Row]
         /\ codes'[c] = row
         /\ \A x \in DOMAIN codes \ {c} : codes'[x] = codes[x]
BY DEF TypeOK

\* What an exchange writes over a row, field by field.
LEMMA RowConsumed ==
  ASSUME NEW row \in Row
  PROVE  /\ Consumed(row) \in Row
         /\ Consumed(row).consumed
         /\ Consumed(row).approver = row.approver
         /\ Consumed(row).status = row.status
BY DEF Row, Consumed

LEMMA ReadStep ==
  ASSUME TypeOK, NEW p \in Worker, NEW r, Read(p, r)
  PROVE  req'[p] = r /\ \A q \in Worker \ {p} : req'[q] = req[q]
BY DEF TypeOK, Read

LEMMA DoneStep ==
  ASSUME TypeOK, NEW p \in Worker, Done(p)
  PROVE  /\ req' \in [Worker -> Request]
         /\ req'[p] = Idle
         /\ \A q \in Worker \ {p} : req'[q] = req[q]
BY DEF TypeOK, Done, Request

-----------------------------------------------------------------------------
(* What the kinds of steps do.                                             *)

\* A handler has read a row, found it in order and not yet written.
Loads(p, r) ==
  /\ r \in Request /\ r # Idle /\ r.code \in DOMAIN codes
  /\ r.op = "confirm" => codes[r.code].status = "pending"
  /\ r.op = "exchange" =>
       /\ ~codes[r.code].consumed
       /\ r.user # NoUser /\ r.user = codes[r.code].approver
  /\ req' = [req EXCEPT ![p] = r]
  /\ UNCHANGED <<now, codes, grants, grantees, approvals>>

LEMMA ConfirmLoads ==
  ASSUME TypeOK, NEW p \in Worker, NEW c \in Code, NEW u \in User,
         NEW approve \in BOOLEAN, ConfirmLoad(p, c, u, approve)
  PROVE  answer' = answer /\ \E r \in Request : Loads(p, r)
<1>1. CASE Expired(c) /\ Read(p, [op |-> "expire", code |-> c, device |-> FALSE])
  <2> DEFINE r == [op |-> "expire", code |-> c, device |-> FALSE]
  <2>1. r \in Request /\ r # Idle
    BY DEF Request, Idle
  <2>2. Loads(p, r)
    BY <1>1, <2>1 DEF Loads, ConfirmLoad, Read
  <2> QED  BY <2>1, <2>2 DEF ConfirmLoad
<1>2. CASE /\ codes[c].status = "pending"
           /\ Read(p, [op |-> "confirm", code |-> c, user |-> u, approve |-> approve])
  <2> DEFINE r == [op |-> "confirm", code |-> c, user |-> u, approve |-> approve]
  <2>1. r \in Request /\ r # Idle
    BY DEF Request, Idle
  <2>2. Loads(p, r)
    BY <1>2, <2>1 DEF Loads, ConfirmLoad, Read
  <2> QED  BY <2>1, <2>2 DEF ConfirmLoad
<1> QED  BY <1>1, <1>2 DEF ConfirmLoad

LEMMA PollLoads ==
  ASSUME TypeOK, NEW p \in Worker, NEW c \in Code, Poll(p, c)
  PROVE  \/ answer' = answer /\ \E r \in Request : Loads(p, r)
         \/ /\ UNCHANGED <<now, codes, req, grants, grantees, approvals>>
            /\ answer' = [answer EXCEPT ![c] = Refusal(codes[c])]
<1>1. CASE Expired(c) /\ Read(p, [op |-> "expire", code |-> c, device |-> TRUE])
           /\ UNCHANGED answer
  <2> DEFINE r == [op |-> "expire", code |-> c, device |-> TRUE]
  <2>1. r \in Request /\ r # Idle
    BY DEF Request, Idle
  <2>2. Loads(p, r)
    BY <1>1, <2>1 DEF Loads, Poll, Read
  <2> QED  BY <1>1, <2>1, <2>2
<1>2. CASE /\ Exchangeable(codes[c]) /\ UNCHANGED answer
           /\ Read(p, [op |-> "exchange", code |-> c, user |-> codes[c].approver])
  <2> DEFINE r == [op |-> "exchange", code |-> c, user |-> codes[c].approver]
  <2>1. codes[c] \in Row
    BY DEF Poll, TypeOK
  <2>2. /\ codes[c].approver \in User /\ codes[c].approver # NoUser
        /\ ~codes[c].consumed
    BY <1>2, <2>1 DEF Exchangeable, Row
  <2>3. r \in Request /\ r # Idle
    BY <2>2 DEF Request, Idle
  <2>4. Loads(p, r)
    BY <1>2, <2>2, <2>3 DEF Loads, Poll, Read
  <2> QED  BY <1>2, <2>3, <2>4
<1>3. CASE ~Exchangeable(codes[c]) /\ UNCHANGED req /\ Told(c, Refusal(codes[c]))
  BY <1>3 DEF Poll, Told
<1> QED  BY <1>1, <1>2, <1>3 DEF Poll

\* A transaction that overwrites one row by `row` and ends.
Writes(p, c, row) ==
  /\ c = req[p].code /\ c \in DOMAIN codes
  /\ row \in Row
  /\ codes' = [codes EXCEPT ![c] = row]
  /\ Done(p)
  /\ now' = now

LEMMA ConfirmWrites ==
  ASSUME TypeOK, RequestsStarted, NEW p \in Worker, ConfirmCommit(p)
  PROVE  \E c \in Code, u \in User, row \in Row :
           /\ Writes(p, c, row)
           /\ req[p].op = "confirm"
           /\ row.consumed = codes[c].consumed
           /\ row.approver \in {u, codes[c].approver}
           /\ \/ row.approver = codes[c].approver
              \/ <<c, u>> \in approvals'
           /\ approvals \subseteq approvals' /\ approvals' \subseteq approvals \cup {<<c, u>>}
           /\ UNCHANGED <<answer, grants, grantees>>
<1> DEFINE c == req[p].code
           u == req[p].user
           row == Decided(codes[c], u, req[p].approve)
<1>1. req[p] \in Request /\ req[p].op = "confirm"
  BY DEF TypeOK, ConfirmCommit
<1>2. c \in Code /\ u \in User /\ c \in DOMAIN codes /\ req[p].approve \in BOOLEAN
  <2>1. req[p].approve \in BOOLEAN
    BY <1>1 DEF Request, Idle
  <2> QED  BY <1>1, <2>1, HeldRequest DEF RequestsStarted
<1>3. codes[c] \in Row
  BY <1>2 DEF TypeOK
<1>4. /\ row \in Row
      /\ row.consumed = codes[c].consumed
      /\ req[p].approve => row.approver = u
      /\ ~req[p].approve => row.approver = codes[c].approver
  <2>1. CASE req[p].approve
    <3>1. row = [codes[c] EXCEPT !.status = "approved", !.approver = u]
      BY <2>1 DEF Decided
    <3> QED  BY <2>1, <3>1, <1>2, <1>3 DEF Row
  <2>2. CASE ~req[p].approve
    <3>1. row = [codes[c] EXCEPT !.status = "denied"]
      BY <2>2 DEF Decided
    <3> QED  BY <2>2, <3>1, <1>2, <1>3 DEF Row
  <2> QED  BY <2>1, <2>2
<1>5. /\ codes' = [codes EXCEPT ![c] = row]
      /\ Done(p) /\ UNCHANGED <<now, answer, grants, grantees>>
  BY <1>2 DEF ConfirmCommit
<1>6. approvals' = IF req[p].approve THEN approvals \cup {<<c, u>>} ELSE approvals
  BY DEF ConfirmCommit
<1>7. Writes(p, c, row)
  BY <1>2, <1>4, <1>5 DEF Writes
<1> QED
  <2> HIDE DEF c, u, row
  <2>1. CASE req[p].approve
    BY <2>1, <1>1, <1>2, <1>4, <1>5, <1>6, <1>7
  <2>2. CASE ~req[p].approve
    BY <2>2, <1>1, <1>2, <1>4, <1>5, <1>6, <1>7
  <2> QED  BY <2>1, <2>2

LEMMA ExchangeWrites ==
  ASSUME TypeOK, RequestsStarted, NEW p \in Worker, NEW delivered \in BOOLEAN,
         ExchangeCommit(p, delivered)
  PROVE  \E c \in Code, u \in User, row \in Row :
           /\ Writes(p, c, row)
           /\ req[p].op = "exchange" /\ u = req[p].user
           /\ row.consumed
           /\ row.approver = codes[c].approver
           /\ row.status = codes[c].status
           /\ grants' = [grants EXCEPT ![c] = @ + 1] /\ grantees' = grantees \cup {<<c, u>>}
           /\ \/ answer' = [answer EXCEPT ![c] = "tokens"]
              \/ answer' = answer
           /\ approvals' = approvals
<1> DEFINE c == req[p].code
           u == req[p].user
           row == Consumed(codes[c])
<1>1. req[p] \in Request /\ req[p].op = "exchange"
  BY DEF TypeOK, ExchangeCommit
<1>2. c \in Code /\ u \in User /\ c \in DOMAIN codes
  BY <1>1, HeldRequest DEF RequestsStarted
<1>3. codes[c] \in Row
  BY <1>2 DEF TypeOK
<1>4. /\ row \in Row /\ row.consumed
      /\ row.approver = codes[c].approver /\ row.status = codes[c].status
  BY <1>2, <1>3, RowConsumed
<1>5. /\ codes' = [codes EXCEPT ![c] = row]
      /\ grants' = [grants EXCEPT ![c] = @ + 1] /\ grantees' = grantees \cup {<<c, u>>}
      /\ Done(p) /\ UNCHANGED <<now, approvals>>
      /\ \/ answer' = [answer EXCEPT ![c] = "tokens"]
         \/ answer' = answer
  BY <1>2 DEF ExchangeCommit, Told
<1>6. Writes(p, c, row)
  BY <1>2, <1>4, <1>5 DEF Writes
<1> QED
  <2> HIDE DEF row
  <2> QED  BY <1>1, <1>2, <1>4, <1>5, <1>6

LEMMA ExpireWrites ==
  ASSUME TypeOK, RequestsStarted, NEW p \in Worker, ExpireCommit(p)
  PROVE  \E c \in Code, row \in Row :
           /\ Writes(p, c, row)
           /\ req[p].op = "expire"
           /\ row.consumed = codes[c].consumed
           /\ row.approver = codes[c].approver
           /\ row.status = "expired"
           /\ \/ answer' = [answer EXCEPT ![c] = "expired_token"]
              \/ answer' = answer
           /\ UNCHANGED <<grants, grantees, approvals>>
<1> DEFINE c == req[p].code
           row == [codes[c] EXCEPT !.status = "expired"]
<1>1. req[p] \in Request /\ req[p].op = "expire"
  BY DEF TypeOK, ExpireCommit
<1>2. c \in Code /\ c \in DOMAIN codes
  BY <1>1, HeldRequest DEF RequestsStarted
<1>3. codes[c] \in Row
  BY <1>2 DEF TypeOK
<1>4. /\ row \in Row /\ row.consumed = codes[c].consumed
      /\ row.approver = codes[c].approver /\ row.status = "expired"
  BY <1>3 DEF Row
<1>5. /\ codes' = [codes EXCEPT ![c] = row]
      /\ Done(p) /\ UNCHANGED <<now, grants, grantees, approvals>>
      /\ \/ answer' = [answer EXCEPT ![c] = "expired_token"]
         \/ answer' = answer
  BY <1>2 DEF ExpireCommit, Told
<1>6. Writes(p, c, row)
  BY <1>2, <1>4, <1>5 DEF Writes
<1> QED
  <2> HIDE DEF row
  <2> QED  BY <1>1, <1>2, <1>4, <1>5, <1>6

-----------------------------------------------------------------------------
(* The invariant, one lemma per kind of step.                              *)

AnswerTyped == answer \in [Code -> Final \cup {"none", "authorization_pending"}]

LEMMA LoadKeeps ==
  ASSUME IInv, AnswerTyped', NEW p \in Worker, NEW r, Loads(p, r)
  PROVE  IInv'
<1>1. req'[p] = r /\ \A q \in Worker \ {p} : req'[q] = req[q]
  BY DEF Loads, IInv, TypeOK
<1>2. TypeOK'
  BY DEF Loads, IInv, TypeOK, AnswerTyped
<1>3. RequestsStarted'
  BY <1>1 DEF Loads, IInv, RequestsStarted
<1>4. ExchangeApproved'
  BY <1>1 DEF Loads, IInv, ExchangeApproved, ApproverApproved
<1>5. GrantsStarted' /\ ApproverApproved' /\ GrantWasApproved' /\ ConsumedIffGranted'
  BY DEF Loads, IInv, GrantsStarted, ApproverApproved, GrantWasApproved,
         ConsumedIffGranted
<1> QED  BY <1>2, <1>3, <1>4, <1>5 DEF IInv

LEMMA WriteTyped ==
  ASSUME IInv, NEW p \in Worker, NEW c \in Code, NEW row, Writes(p, c, row)
  PROVE  /\ DOMAIN codes' = DOMAIN codes
         /\ codes' \in [DOMAIN codes' -> Row]
         /\ codes'[c] = row
         /\ \A x \in DOMAIN codes \ {c} : codes'[x] = codes[x]
         /\ req' \in [Worker -> Request]
         /\ req'[p] = Idle
         /\ \A q \in Worker \ {p} : req'[q] = req[q]
         /\ RequestsStarted'
<1>1. TypeOK /\ RequestsStarted
  BY DEF IInv
<1>2. /\ DOMAIN codes' = DOMAIN codes
      /\ codes' \in [DOMAIN codes' -> Row]
      /\ codes'[c] = row
      /\ \A x \in DOMAIN codes \ {c} : codes'[x] = codes[x]
  BY <1>1, RowUpdated DEF Writes
<1>3. /\ req' \in [Worker -> Request]
      /\ req'[p] = Idle
      /\ \A q \in Worker \ {p} : req'[q] = req[q]
  BY <1>1, DoneStep DEF Writes
<1>4. RequestsStarted'
  BY <1>1, <1>2, <1>3 DEF RequestsStarted
<1> QED  BY <1>2, <1>3, <1>4

LEMMA ConfirmKeeps ==
  ASSUME IInv, AnswerTyped', NEW p \in Worker, ConfirmCommit(p)
  PROVE  IInv'
<1>1. PICK c \in Code, u \in User, row \in Row :
        /\ Writes(p, c, row)
        /\ row.consumed = codes[c].consumed
        /\ row.approver \in {u, codes[c].approver}
        /\ row.approver = codes[c].approver \/ <<c, u>> \in approvals'
        /\ approvals \subseteq approvals' /\ approvals' \subseteq approvals \cup {<<c, u>>}
        /\ UNCHANGED <<grants, grantees>>
  BY ConfirmWrites DEF IInv
<1>2. /\ DOMAIN codes' = DOMAIN codes
      /\ codes' \in [DOMAIN codes' -> Row]
      /\ codes'[c] = row /\ c \in DOMAIN codes
      /\ \A x \in DOMAIN codes \ {c} : codes'[x] = codes[x]
      /\ req' \in [Worker -> Request]
      /\ req'[p] = Idle
      /\ \A q \in Worker \ {p} : req'[q] = req[q]
      /\ RequestsStarted'
  BY <1>1, WriteTyped DEF Writes
<1>3. TypeOK'
  BY <1>1, <1>2 DEF IInv, TypeOK, AnswerTyped, Writes
<1>4. GrantsStarted' /\ GrantWasApproved'
  BY <1>1, <1>2 DEF IInv, GrantsStarted, GrantWasApproved
<1>5. ApproverApproved'
  BY <1>1, <1>2 DEF IInv, ApproverApproved
<1>6. ExchangeApproved'
  BY <1>1, <1>2 DEF IInv, ExchangeApproved, Idle
<1>7. ConsumedIffGranted'
  <2> SUFFICES ASSUME NEW x \in DOMAIN codes
               PROVE  codes'[x].consumed <=> grants[x] > 0
    BY <1>1, <1>2 DEF ConsumedIffGranted
  <2>1. codes'[x].consumed = codes[x].consumed
    BY <1>1, <1>2
  <2> QED  BY <2>1 DEF IInv, ConsumedIffGranted
<1> QED  BY <1>2, <1>3, <1>4, <1>5, <1>6, <1>7 DEF IInv

LEMMA ExpireKeeps ==
  ASSUME IInv, AnswerTyped', NEW p \in Worker, ExpireCommit(p)
  PROVE  IInv'
<1>1. PICK c \in Code, row \in Row :
        /\ Writes(p, c, row)
        /\ row.consumed = codes[c].consumed
        /\ row.approver = codes[c].approver
        /\ UNCHANGED <<grants, grantees, approvals>>
  BY ExpireWrites DEF IInv
<1>2. /\ DOMAIN codes' = DOMAIN codes
      /\ codes' \in [DOMAIN codes' -> Row]
      /\ codes'[c] = row /\ c \in DOMAIN codes
      /\ \A x \in DOMAIN codes \ {c} : codes'[x] = codes[x]
      /\ req' \in [Worker -> Request]
      /\ req'[p] = Idle
      /\ \A q \in Worker \ {p} : req'[q] = req[q]
      /\ RequestsStarted'
  BY <1>1, WriteTyped DEF Writes
<1>3. TypeOK'
  BY <1>1, <1>2 DEF IInv, TypeOK, AnswerTyped, Writes
<1>4. GrantsStarted' /\ GrantWasApproved'
  BY <1>1, <1>2 DEF IInv, GrantsStarted, GrantWasApproved
<1>5. ApproverApproved'
  BY <1>1, <1>2 DEF IInv, ApproverApproved
<1>6. ExchangeApproved'
  BY <1>1, <1>2 DEF IInv, ExchangeApproved, Idle
<1>7. ConsumedIffGranted'
  <2> SUFFICES ASSUME NEW x \in DOMAIN codes
               PROVE  codes'[x].consumed <=> grants[x] > 0
    BY <1>1, <1>2 DEF ConsumedIffGranted
  <2>1. codes'[x].consumed = codes[x].consumed
    BY <1>1, <1>2
  <2> QED  BY <2>1 DEF IInv, ConsumedIffGranted
<1> QED  BY <1>2, <1>3, <1>4, <1>5, <1>6, <1>7 DEF IInv

LEMMA ExchangeKeeps ==
  ASSUME IInv, AnswerTyped', NEW p \in Worker, NEW delivered \in BOOLEAN,
         ExchangeCommit(p, delivered)
  PROVE  IInv'
<1>1. PICK c \in Code, u \in User, row \in Row :
        /\ Writes(p, c, row)
        /\ req[p].op = "exchange" /\ u = req[p].user
        /\ row.consumed
        /\ row.approver = codes[c].approver
        /\ grants' = [grants EXCEPT ![c] = @ + 1] /\ grantees' = grantees \cup {<<c, u>>}
        /\ approvals' = approvals
  BY ExchangeWrites DEF IInv
<1>2. /\ DOMAIN codes' = DOMAIN codes
      /\ codes' \in [DOMAIN codes' -> Row]
      /\ codes'[c] = row /\ c \in DOMAIN codes
      /\ \A x \in DOMAIN codes \ {c} : codes'[x] = codes[x]
      /\ req' \in [Worker -> Request]
      /\ req'[p] = Idle
      /\ \A q \in Worker \ {p} : req'[q] = req[q]
      /\ RequestsStarted'
  BY <1>1, WriteTyped DEF Writes
<1>3. /\ grants' \in [Code -> Nat] /\ grantees' \subseteq Code \X User
      /\ grants'[c] > 0
      /\ \A x \in Code \ {c} : grants'[x] = grants[x]
  BY <1>1 DEF IInv, TypeOK
<1>4. TypeOK'
  BY <1>1, <1>2, <1>3 DEF IInv, TypeOK, AnswerTyped, Writes
<1>5. <<c, u>> \in approvals
  BY <1>1 DEF IInv, ExchangeApproved, Writes
<1>6. GrantsStarted' /\ GrantWasApproved'
  BY <1>1, <1>2, <1>3, <1>5 DEF IInv, GrantsStarted, GrantWasApproved
<1>7. ApproverApproved'
  BY <1>1, <1>2 DEF IInv, ApproverApproved
<1>8. ExchangeApproved'
  BY <1>1, <1>2 DEF IInv, ExchangeApproved, Idle
<1>9. ConsumedIffGranted'
  <2> SUFFICES ASSUME NEW x \in DOMAIN codes
               PROVE  codes'[x].consumed <=> grants'[x] > 0
    BY <1>2 DEF ConsumedIffGranted
  <2>1. CASE x = c
    BY <2>1, <1>1, <1>2, <1>3
  <2>2. CASE x # c
    <3>1. codes'[x] = codes[x] /\ x \in Code
      BY <2>2, <1>2 DEF IInv, TypeOK
    <3>2. grants'[x] = grants[x]
      BY <2>2, <3>1, <1>3
    <3> QED  BY <3>1, <3>2 DEF IInv, ConsumedIffGranted
  <2> QED  BY <2>1, <2>2
<1> QED  BY <1>2, <1>4, <1>6, <1>7, <1>8, <1>9 DEF IInv

LEMMA StartKeeps ==
  ASSUME IInv, AnswerTyped', NEW c \in Code, Start(c)
  PROVE  IInv'
<1> DEFINE row == [status |-> "pending", approver |-> NoUser,
                   consumed |-> FALSE, exp |-> now + Lifetime]
<1>1. row \in Row
  BY LifetimeAssumption DEF Row, IInv, TypeOK
<1>2. /\ c \notin DOMAIN codes
      /\ DOMAIN codes' = DOMAIN codes \cup {c}
      /\ codes'[c] = row
      /\ \A x \in DOMAIN codes : codes'[x] = codes[x]
      /\ codes' \in [DOMAIN codes' -> Row]
      /\ UNCHANGED <<now, req, grants, grantees, approvals>>
  BY <1>1 DEF Start, IInv, TypeOK
<1>3. TypeOK'
  BY <1>2 DEF IInv, TypeOK, AnswerTyped
<1>4. RequestsStarted' /\ GrantsStarted' /\ ExchangeApproved' /\ GrantWasApproved'
  BY <1>2 DEF IInv, RequestsStarted, GrantsStarted, ExchangeApproved,
              GrantWasApproved
<1>5. ApproverApproved'
  BY <1>2 DEF IInv, ApproverApproved
<1>6. ConsumedIffGranted'
  <2> SUFFICES ASSUME NEW x \in DOMAIN codes \cup {c}
               PROVE  codes'[x].consumed <=> grants[x] > 0
    BY <1>2 DEF ConsumedIffGranted
  <2>1. ~row.consumed
    OBVIOUS
  <2>2. ~codes'[c].consumed /\ ~(grants[c] > 0)
    BY <1>2, <2>1 DEF IInv, GrantsStarted
  <2>3. CASE x # c
    <3>1. codes'[x] = codes[x] /\ x \in DOMAIN codes
      BY <2>3, <1>2
    <3> QED  BY <3>1 DEF IInv, ConsumedIffGranted
  <2> QED  BY <2>2, <2>3
<1> QED  BY <1>3, <1>4, <1>5, <1>6 DEF IInv

\* A request ends without effect, the clock ticks or a poll is refused.
LEMMA NothingKeeps ==
  ASSUME IInv, AnswerTyped', now' \in Nat, UNCHANGED <<codes, grants, grantees, approvals>>,
         req' = req \/ \E p \in Worker : Done(p)
  PROVE  IInv'
<1>1. CASE req' = req
  BY <1>1 DEF IInv, TypeOK, AnswerTyped, RequestsStarted, GrantsStarted,
     ApproverApproved, ExchangeApproved, GrantWasApproved, ConsumedIffGranted
<1>2. ASSUME NEW p \in Worker, Done(p)
      PROVE  IInv'
  <2>1. /\ req' \in [Worker -> Request]
        /\ req'[p] = Idle
        /\ \A q \in Worker \ {p} : req'[q] = req[q]
    BY <1>2, DoneStep DEF IInv
  <2>2. TypeOK'
    BY <2>1 DEF IInv, TypeOK, AnswerTyped
  <2>3. RequestsStarted' /\ ExchangeApproved'
    BY <2>1 DEF IInv, RequestsStarted, ExchangeApproved, Idle
  <2>4. GrantsStarted' /\ ApproverApproved' /\ GrantWasApproved' /\ ConsumedIffGranted'
    BY DEF IInv, GrantsStarted, ApproverApproved, GrantWasApproved, ConsumedIffGranted
  <2> QED  BY <2>2, <2>3, <2>4 DEF IInv
<1> QED  BY <1>1, <1>2

LEMMA AnswerStep == ASSUME IInv, [Next]_vars PROVE AnswerTyped'
<1>1. ASSUME NEW p \in Worker, NEW c \in Code, Poll(p, c)
      PROVE  AnswerTyped'
  <2>1. Refusal(codes[c]) \in Final \cup {"none", "authorization_pending"}
    BY DEF Refusal, Final
  <2>2. answer' = answer \/ answer' = [answer EXCEPT ![c] = Refusal(codes[c])]
    BY <1>1, PollLoads DEF IInv
  <2> QED  BY <2>1, <2>2 DEF IInv, TypeOK, AnswerTyped
<1>2. ASSUME NEW p \in Worker, NEW delivered \in BOOLEAN, ExchangeCommit(p, delivered)
      PROVE  AnswerTyped'
  <2>1. answer' = answer \/ \E c \in Code : answer' = [answer EXCEPT ![c] = "tokens"]
    BY <1>2, ExchangeWrites DEF IInv
  <2> QED  BY <2>1 DEF IInv, TypeOK, AnswerTyped, Final
<1>3. ASSUME NEW p \in Worker, ExpireCommit(p)
      PROVE  AnswerTyped'
  <2>1. answer' = answer \/ \E c \in Code : answer' = [answer EXCEPT ![c] = "expired_token"]
    BY <1>3, ExpireWrites DEF IInv
  <2> QED  BY <2>1 DEF IInv, TypeOK, AnswerTyped, Final
<1>4. ASSUME answer' = answer
      PROVE  AnswerTyped'
  BY <1>4 DEF IInv, TypeOK, AnswerTyped
<1> QED
  BY <1>1, <1>2, <1>3, <1>4
  DEF Next, Commit, Start, ConfirmLoad, ConfirmCommit, Abort, Tick, vars

LEMMA StepKeeps == ASSUME IInv, [Next]_vars PROVE IInv'
<1>1. AnswerTyped' /\ TypeOK /\ RequestsStarted
  BY AnswerStep DEF IInv
<1>2. ASSUME NEW c \in Code, Start(c) PROVE IInv'
  BY <1>1, <1>2, StartKeeps
<1>3. ASSUME NEW p \in Worker, NEW c \in Code, NEW u \in User, NEW approve \in BOOLEAN,
             ConfirmLoad(p, c, u, approve)
      PROVE  IInv'
  <2>1. PICK r \in Request : Loads(p, r)
    BY <1>1, <1>3, ConfirmLoads
  <2> QED  BY <1>1, <2>1, LoadKeeps
<1>4. ASSUME NEW p \in Worker, NEW c \in Code, Poll(p, c) PROVE IInv'
  <2>1. CASE \E r \in Request : Loads(p, r)
    BY <1>1, <2>1, LoadKeeps
  <2>2. CASE UNCHANGED <<now, codes, req, grants, grantees, approvals>>
    <3>1. now' \in Nat
      BY <2>2, <1>1 DEF TypeOK
    <3> QED  BY <1>1, <2>2, <3>1, NothingKeeps
  <2> QED  BY <1>1, <1>4, <2>1, <2>2, PollLoads
<1>5. ASSUME NEW p \in Worker, Commit(p) PROVE IInv'
  BY <1>1, <1>5, ConfirmKeeps, ExchangeKeeps, ExpireKeeps DEF Commit
<1>6. ASSUME NEW p \in Worker, Abort(p) PROVE IInv'
  <2>1. now' \in Nat /\ UNCHANGED <<codes, grants, grantees, approvals>> /\ Done(p)
    BY <1>6, <1>1 DEF Abort, TypeOK
  <2> QED  BY <1>1, <2>1, NothingKeeps
<1>7. CASE Tick \/ UNCHANGED vars
  <2>1. now' \in Nat /\ UNCHANGED <<codes, grants, grantees, approvals, req>>
    BY <1>7, <1>1 DEF Tick, vars, TypeOK
  <2> QED  BY <1>1, <2>1, NothingKeeps
<1> QED  BY <1>2, <1>3, <1>4, <1>5, <1>6, <1>7 DEF Next

LEMMA InitInv == Init => IInv
<1> SUFFICES ASSUME Init PROVE IInv
  OBVIOUS
<1>1. TypeOK
  BY DEF Init, TypeOK, Request
<1> QED
  BY <1>1
  DEF Init, IInv, RequestsStarted, GrantsStarted, ApproverApproved,
      ExchangeApproved, GrantWasApproved, ConsumedIffGranted, Idle

LEMMA Inductive == Spec => []IInv
<1>1. IInv /\ [Next]_vars => IInv'
  BY StepKeeps
<1> QED  BY <1>1, InitInv, PTL DEF Spec

-----------------------------------------------------------------------------
(* The action properties, by kind of step.                                 *)

\* The rows and the grants when a request is loaded, ends or leaves no mark.
LEMMA QuietSteps ==
  ASSUME IInv, [Next]_vars,
         ~ \E p \in Worker : Commit(p),
         ~ \E c \in Code : Start(c)
  PROVE  /\ UNCHANGED <<codes, grants, grantees>>
         /\ \/ req' = req
            \/ \E p \in Worker, r \in Request : Loads(p, r)
            \/ \E p \in Worker : Done(p)
<1>1. TypeOK
  BY DEF IInv
<1>2. ASSUME NEW p \in Worker, NEW r, Loads(p, r)
      PROVE  /\ UNCHANGED <<codes, grants, grantees>>
             /\ \E q \in Worker, s \in Request : Loads(q, s)
  BY <1>2 DEF Loads
<1>3. ASSUME NEW p \in Worker, NEW c \in Code, NEW u \in User, NEW approve \in BOOLEAN,
             ConfirmLoad(p, c, u, approve)
      PROVE  \E r \in Request : Loads(p, r)
  BY <1>1, <1>3, ConfirmLoads
<1>4. ASSUME NEW p \in Worker, NEW c \in Code, Poll(p, c)
      PROVE  (\E r \in Request : Loads(p, r)) \/ UNCHANGED <<codes, grants, grantees, req>>
  BY <1>1, <1>4, PollLoads
<1>5. CASE (\E p \in Worker : Abort(p)) \/ Tick \/ UNCHANGED vars
  BY <1>5 DEF Abort, Tick, vars
<1> QED  BY <1>2, <1>3, <1>4, <1>5 DEF Next

LEMMA SpentStep ==
  ASSUME IInv, [Next]_vars, NEW c \in DOMAIN codes, Spent(c)
  PROVE  /\ Spent(c)'
         /\ grants'[c] = grants[c]
<1>1. /\ TypeOK /\ RequestsStarted /\ c \in Code
      /\ codes[c].consumed
      /\ \A p \in Worker : req[p].op = "exchange" => req[p].code # c
  BY DEF IInv, TypeOK, Spent, InFlight
<1>2. ASSUME NEW p \in Worker, NEW d \in Code, NEW row, Writes(p, d, row),
             d = c => row.consumed
      PROVE  Spent(c)'
  BY <1>1, <1>2, WriteTyped DEF Spent, InFlight, Idle
<1>3. ASSUME NEW p \in Worker, ConfirmCommit(p)
      PROVE  Spent(c)' /\ grants' = grants
  BY <1>1, <1>2, <1>3, ConfirmWrites
<1>4. ASSUME NEW p \in Worker, ExpireCommit(p)
      PROVE  Spent(c)' /\ grants' = grants
  BY <1>1, <1>2, <1>4, ExpireWrites
<1>5. ASSUME NEW p \in Worker, NEW delivered \in BOOLEAN, ExchangeCommit(p, delivered)
      PROVE  Spent(c)' /\ grants'[c] = grants[c]
  <2>1. PICK d \in Code, u \in User, row \in Row :
          /\ Writes(p, d, row)
          /\ req[p].op = "exchange" /\ u = req[p].user
          /\ row.consumed
          /\ row.approver = codes[d].approver
          /\ grants' = [grants EXCEPT ![d] = @ + 1] /\ grantees' = grantees \cup {<<d, u>>}
          /\ approvals' = approvals
    <3>1. TypeOK /\ RequestsStarted
      BY <1>1
    <3> QED  BY <3>1, <1>5, ExchangeWrites
  <2>2. d # c
    BY <1>1, <2>1 DEF Writes
  <2>3. grants'[c] = grants[c]
    BY <1>1, <2>1, <2>2 DEF TypeOK
  <2> QED  BY <1>2, <2>1, <2>2, <2>3
<1>6. ASSUME NEW d \in Code, Start(d)
      PROVE  Spent(c)' /\ grants' = grants
  BY <1>1, <1>6 DEF Start, Spent, InFlight
<1>7. CASE /\ ~ \E p \in Worker : Commit(p)
           /\ ~ \E d \in Code : Start(d)
  <2>1. ASSUME NEW p \in Worker, NEW r, Loads(p, r), codes' = codes
        PROVE  Spent(c)'
    <3>1. req'[p] = r /\ \A q \in Worker \ {p} : req'[q] = req[q]
      BY <1>1, <2>1 DEF Loads, TypeOK
    <3>2. r.op = "exchange" => r.code # c
      BY <1>1, <2>1 DEF Loads
    <3> QED  BY <1>1, <2>1, <3>1, <3>2 DEF Spent, InFlight
  <2>2. ASSUME NEW p \in Worker, Done(p), codes' = codes
        PROVE  Spent(c)'
    BY <1>1, <2>2, DoneStep DEF Spent, InFlight, Idle
  <2>3. ASSUME req' = req, codes' = codes
        PROVE  Spent(c)'
    BY <1>1, <2>3 DEF Spent, InFlight
  <2> QED  BY <1>7, <2>1, <2>2, <2>3, QuietSteps
<1> QED  BY <1>3, <1>4, <1>5, <1>6, <1>7 DEF Commit

LEMMA SettledStep ==
  ASSUME IInv, [Next]_vars, NEW c \in DOMAIN codes, Settled(c)
  PROVE  /\ Settled(c)'
         /\ codes'[c].status \in {codes[c].status, "expired"}
         /\ codes'[c].approver = codes[c].approver
<1> DEFINE Kept == /\ codes'[c].status \in {codes[c].status, "expired"}
                   /\ codes'[c].approver = codes[c].approver
<1>1. /\ TypeOK /\ RequestsStarted /\ c \in Code
      /\ codes[c].status # "pending"
      /\ \A p \in Worker : req[p].op = "confirm" => req[p].code # c
  BY DEF IInv, TypeOK, Settled, InFlight
<1>2. ASSUME NEW p \in Worker, NEW d \in Code, NEW row, Writes(p, d, row),
             d = c => /\ row.status \in {codes[c].status, "expired"}
                      /\ row.approver = codes[c].approver
      PROVE  Settled(c)' /\ Kept
  BY <1>1, <1>2, WriteTyped DEF Settled, InFlight, Idle
<1>3. ASSUME NEW p \in Worker, ConfirmCommit(p)
      PROVE  Settled(c)' /\ Kept
  <2>1. PICK d \in Code, u \in User, row \in Row : Writes(p, d, row) /\ req[p].op = "confirm"
    BY <1>1, <1>3, ConfirmWrites
  <2>2. d # c
    BY <1>1, <2>1 DEF Writes
  <2> QED  BY <1>2, <2>1, <2>2
<1>4. ASSUME NEW p \in Worker, ExpireCommit(p)
      PROVE  Settled(c)' /\ Kept
  BY <1>1, <1>2, <1>4, ExpireWrites
<1>5. ASSUME NEW p \in Worker, NEW delivered \in BOOLEAN, ExchangeCommit(p, delivered)
      PROVE  Settled(c)' /\ Kept
  BY <1>1, <1>2, <1>5, ExchangeWrites
<1>6. ASSUME NEW d \in Code, Start(d)
      PROVE  Settled(c)' /\ Kept
  BY <1>1, <1>6 DEF Start, Settled, InFlight
<1>7. CASE /\ ~ \E p \in Worker : Commit(p)
           /\ ~ \E d \in Code : Start(d)
  <2>1. ASSUME NEW p \in Worker, NEW r, Loads(p, r), codes' = codes
        PROVE  Settled(c)'
    <3>1. req'[p] = r /\ \A q \in Worker \ {p} : req'[q] = req[q]
      BY <1>1, <2>1 DEF Loads, TypeOK
    <3>2. r.op = "confirm" => r.code # c
      BY <1>1, <2>1 DEF Loads
    <3> QED  BY <1>1, <2>1, <3>1, <3>2 DEF Settled, InFlight
  <2>2. ASSUME NEW p \in Worker, Done(p), codes' = codes
        PROVE  Settled(c)'
    BY <1>1, <2>2, DoneStep DEF Settled, InFlight, Idle
  <2>3. CASE req' = req /\ codes' = codes
    BY <1>1, <2>3 DEF Settled, InFlight
  <2> QED  BY <1>7, <2>1, <2>2, <2>3, QuietSteps
<1> QED  BY <1>3, <1>4, <1>5, <1>6, <1>7 DEF Commit

-----------------------------------------------------------------------------
(* How many grants a code can yield: the first one closes the code to new  *)
(* exchanges, and every later one uses up a request that held it by then.  *)

Holding(c) == {p \in Worker : req[p].op = "exchange" /\ req[p].code = c}

GrantsFromHolders ==
  \A c \in DOMAIN codes :
    codes[c].consumed => grants[c] + Cardinality(Holding(c)) <= Cardinality(Worker)

LEMMA HoldingFinite ==
  /\ Cardinality(Worker) \in Nat
  /\ \A c \in Code :
       /\ IsFiniteSet(Holding(c)) /\ Cardinality(Holding(c)) \in Nat
       /\ Cardinality(Holding(c)) <= Cardinality(Worker)
<1>1. \A S \in SUBSET Worker :
        IsFiniteSet(S) /\ Cardinality(S) <= Cardinality(Worker)
  BY WorkerAssumption, FS_Subset
<1>2. \A S \in SUBSET Worker : Cardinality(S) \in Nat
  BY <1>1, FS_CardinalityType
<1>3. Cardinality(Worker) \in Nat
  BY WorkerAssumption, FS_CardinalityType
<1>4. \A c \in Code : Holding(c) \in SUBSET Worker
  BY DEF Holding
<1> QED  BY <1>1, <1>2, <1>3, <1>4

\* An exchange of c ends: one request less holds c, and it is one grant.
LEMMA HolderGrants ==
  ASSUME IInv, IInv', GrantsFromHolders, NEW p \in Worker, NEW c \in DOMAIN codes,
         c \in Code, req[p].op = "exchange", req[p].code = c,
         req' = [req EXCEPT ![p] = Idle], grants' = [grants EXCEPT ![c] = @ + 1]
  PROVE  grants'[c] + Cardinality(Holding(c)') <= Cardinality(Worker)
<1>1. grants[c] \in Nat /\ grants'[c] = grants[c] + 1
  BY DEF IInv, TypeOK
<1>2. p \in Holding(c) /\ Holding(c)' = Holding(c) \ {p}
  BY DEF IInv, TypeOK, Holding, Idle
<1>3. Cardinality(Holding(c)') = Cardinality(Holding(c)) - 1
  BY <1>2, HoldingFinite, FS_RemoveElement
<1>4. CASE codes[c].consumed
  <2>1. grants[c] + Cardinality(Holding(c)) <= Cardinality(Worker)
    BY <1>4 DEF GrantsFromHolders
  <2> QED  BY <1>1, <1>3, <2>1, HoldingFinite
<1>5. CASE ~codes[c].consumed
  <2>1. ~(grants[c] > 0)
    BY <1>5 DEF IInv, ConsumedIffGranted
  <2> QED  BY <1>1, <1>3, <2>1, HoldingFinite
<1> QED  BY <1>4, <1>5

\* Every other step leaves a consumed code its grants and gains it no holder.
LEMMA HoldersShrink ==
  ASSUME IInv, IInv', GrantsFromHolders, NEW c \in DOMAIN codes, c \in Code,
         codes[c].consumed, grants'[c] = grants[c], Holding(c)' \subseteq Holding(c)
  PROVE  grants'[c] + Cardinality(Holding(c)') <= Cardinality(Worker)
<1>1. grants[c] \in Nat
  BY DEF IInv, TypeOK
<1>2. /\ Cardinality(Holding(c)') <= Cardinality(Holding(c))
      /\ Cardinality(Holding(c)') \in Nat
  BY HoldingFinite, FS_Subset, FS_CardinalityType
<1>3. grants[c] + Cardinality(Holding(c)) <= Cardinality(Worker)
  BY DEF GrantsFromHolders
<1> QED  BY <1>1, <1>2, <1>3, HoldingFinite

LEMMA HoldersStep ==
  ASSUME IInv, IInv', GrantsFromHolders, [Next]_vars
  PROVE  GrantsFromHolders'
<1> SUFFICES ASSUME NEW c \in DOMAIN codes', codes'[c].consumed
             PROVE  grants'[c] + Cardinality(Holding(c)') <= Cardinality(Worker)
  BY DEF GrantsFromHolders
<1>1. TypeOK /\ TypeOK' /\ RequestsStarted /\ c \in Code
  BY DEF IInv, TypeOK
<1>2. ASSUME c \in DOMAIN codes, codes'[c].consumed = codes[c].consumed,
             grants'[c] = grants[c], Holding(c)' \subseteq Holding(c)
      PROVE  grants'[c] + Cardinality(Holding(c)') <= Cardinality(Worker)
  BY <1>1, <1>2, HoldersShrink
<1>3. ASSUME NEW p \in Worker, Done(p)
      PROVE  Holding(c)' \subseteq Holding(c)
  BY <1>1, <1>3, DoneStep DEF Holding, Idle
<1>4. ASSUME NEW p \in Worker, NEW d \in Code, NEW row, Writes(p, d, row),
             row.consumed = codes[d].consumed
      PROVE  /\ c \in DOMAIN codes /\ codes'[c].consumed = codes[c].consumed
             /\ Holding(c)' \subseteq Holding(c)
  BY <1>1, <1>3, <1>4, WriteTyped DEF Writes
<1>5. ASSUME NEW p \in Worker, ConfirmCommit(p)
      PROVE  grants'[c] + Cardinality(Holding(c)') <= Cardinality(Worker)
  BY <1>1, <1>2, <1>4, <1>5, ConfirmWrites
<1>6. ASSUME NEW p \in Worker, ExpireCommit(p)
      PROVE  grants'[c] + Cardinality(Holding(c)') <= Cardinality(Worker)
  BY <1>1, <1>2, <1>4, <1>6, ExpireWrites
<1>7. ASSUME NEW p \in Worker, NEW delivered \in BOOLEAN, ExchangeCommit(p, delivered)
      PROVE  grants'[c] + Cardinality(Holding(c)') <= Cardinality(Worker)
  <2>1. PICK d \in Code, u \in User, row \in Row :
          /\ Writes(p, d, row) /\ req[p].op = "exchange"
          /\ grants' = [grants EXCEPT ![d] = @ + 1]
    BY <1>1, <1>7, ExchangeWrites
  <2>2. CASE c = d
    BY <1>1, <2>1, <2>2, HolderGrants DEF Writes, Done
  <2>3. CASE c # d
    <3>1. c \in DOMAIN codes /\ codes'[c] = codes[c]
      BY <1>1, <2>1, <2>3, WriteTyped
    <3>2. grants'[c] = grants[c]
      BY <1>1, <2>1, <2>3 DEF TypeOK
    <3>3. Holding(c)' \subseteq Holding(c)
      BY <1>3, <2>1 DEF Writes
    <3> QED  BY <1>2, <3>1, <3>2, <3>3
  <2> QED  BY <2>2, <2>3
<1>8. ASSUME NEW d \in Code, Start(d)
      PROVE  grants'[c] + Cardinality(Holding(c)') <= Cardinality(Worker)
  <2>1. c \in DOMAIN codes /\ codes'[c] = codes[c] /\ grants' = grants
    BY <1>1, <1>8 DEF Start
  <2>2. Holding(c)' = Holding(c)
    BY <1>8 DEF Start, Holding
  <2> QED  BY <1>2, <2>1, <2>2
<1>9. CASE /\ ~ \E p \in Worker : Commit(p)
           /\ ~ \E d \in Code : Start(d)
  <2>1. UNCHANGED <<codes, grants>> /\ c \in DOMAIN codes
    BY <1>9, QuietSteps
  <2>2. ASSUME NEW p \in Worker, NEW r, Loads(p, r)
        PROVE  Holding(c)' \subseteq Holding(c)
    <3>1. req'[p] = r /\ \A q \in Worker \ {p} : req'[q] = req[q]
      BY <1>1, <2>2 DEF Loads, TypeOK
    <3>2. ~(r.op = "exchange" /\ r.code = c)
      BY <2>1, <2>2 DEF Loads
    <3> QED  BY <3>1, <3>2 DEF Holding
  <2>3. ASSUME req' = req
        PROVE  Holding(c)' \subseteq Holding(c)
    BY <2>3 DEF Holding
  <2>4. Holding(c)' \subseteq Holding(c)
    BY <1>3, <1>9, <2>2, <2>3, QuietSteps
  <2> QED  BY <1>2, <2>1, <2>4
<1> QED  BY <1>5, <1>6, <1>7, <1>8, <1>9 DEF Commit

LEMMA BoundInductive == Spec => [](IInv /\ GrantsFromHolders)
<1>1. Init => GrantsFromHolders
  BY DEF Init, GrantsFromHolders
<1>2. IInv /\ IInv' /\ GrantsFromHolders /\ [Next]_vars => GrantsFromHolders'
  BY HoldersStep
<1> QED  BY <1>1, <1>2, Inductive, PTL DEF Spec

LEMMA BoundFollows == IInv /\ GrantsFromHolders => GrantsBounded
<1> SUFFICES ASSUME IInv, GrantsFromHolders, NEW c \in Code
             PROVE  grants[c] <= Cardinality(Worker)
  BY DEF GrantsBounded
<1>1. grants[c] \in Nat
  BY DEF IInv, TypeOK
<1>2. CASE grants[c] > 0
  <2>1. c \in DOMAIN codes /\ codes[c].consumed
    BY <1>2 DEF IInv, GrantsStarted, ConsumedIffGranted
  <2> QED  BY <1>1, <2>1, HoldingFinite DEF GrantsFromHolders
<1> QED  BY <1>1, <1>2, HoldingFinite

-----------------------------------------------------------------------------
(* The theorems.                                                           *)

(* The rows and the requests in flight are well-formed.                    *)
THEOREM TypeCorrect == Spec => []TypeOK
<1>1. IInv => TypeOK
  BY DEF IInv
<1> QED  BY <1>1, Inductive, PTL

(* Tokens are issued only in the name of a user who approved the code.     *)
THEOREM GrantsApproved == Spec => []GrantWasApproved
<1>1. IInv => GrantWasApproved
  BY DEF IInv
<1> QED  BY <1>1, Inductive, PTL

(* A code is marked consumed exactly when tokens were issued for it.       *)
THEOREM ConsumedWithGrant == Spec => []ConsumedIffGranted
<1>1. IInv => ConsumedIffGranted
  BY DEF IInv
<1> QED  BY <1>1, Inductive, PTL

(* Once a code is consumed and no exchange that read it earlier is left, no *)
(* further poll gets tokens for it.                                        *)
THEOREM SpentStaysSpent == Spec => SpentForGood
<1>1. IInv /\ [Next]_vars =>
        [\A c \in DOMAIN codes :
           Spent(c) => Spent(c)' /\ grants'[c] = grants[c]]_vars
  BY SpentStep
<1> QED  BY <1>1, Inductive, PTL DEF Spec, SpentForGood

(* Once a code is decided and no confirmation that read it pending is left, *)
(* it only ever expires.                                                   *)
THEOREM DecisionsStand == Spec => DecisionStands
<1>1. IInv /\ [Next]_vars =>
        [\A c \in DOMAIN codes :
           Settled(c) => /\ Settled(c)'
                         /\ codes'[c].status \in {codes[c].status, "expired"}
                         /\ codes'[c].approver = codes[c].approver]_vars
  BY SettledStep
<1> QED  BY <1>1, Inductive, PTL DEF Spec, DecisionStands

(* A code yields at most as many token sets as there are requests in       *)
(* flight at once.                                                         *)
THEOREM GrantsAreBounded == Spec => []GrantsBounded
BY BoundFollows, BoundInductive, PTL

(* Where requests do not overlap, a code yields one token set, as "Device  *)
(* code already used" says: only two polls in flight can break OneGrant.   *)
THEOREM SerialOneGrant ==
  ASSUME NEW p \in Worker, Worker = {p}
  PROVE  Spec => []OneGrant
<1>1. Cardinality(Worker) = 1
  BY FS_Singleton
<1>2. GrantsBounded => OneGrant
  BY <1>1 DEF GrantsBounded, OneGrant
<1> QED  BY <1>2, GrantsAreBounded, PTL
===============================================================================
