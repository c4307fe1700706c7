---------------------------- MODULE EmailCodeProofs ----------------------------
(***************************************************************************)
(* Proofs about EmailCode for any number of codes, addresses and requests. *)
(*                                                                         *)
(* Everything about overlap rests on AloneUnlessContended: an address, ip  *)
(* or code that two requests have not overlapped on is held by at most one *)
(* request, so what that request has read of it is still true when it      *)
(* commits.                                                                *)
(***************************************************************************)
EXTENDS EmailCode, TLAPS, FiniteSetTheorems, WellFoundedInduction

AloneUnlessContended ==
  \A p, q \in Worker, k \in Email \cup Ip \cup Id :
    k \notin contended /\ k \in Keys(req[p]) /\ k \in Keys(req[q]) => p = q

\* Requests are about rows that are there, and read nothing from the future.
Grounded ==
  /\ IsFiniteSet(DOMAIN rows)
  /\ \A i \in DOMAIN rows : rows[i].sent <= now
  /\ \A p \in Worker :
       /\ req[p].op \in {"counted", "checked"} => req[p].at <= now
       /\ req[p].op \in {"verify", "expire"} => req[p].id \in DOMAIN rows
       /\ req[p].op = "verify" => req[p].attempts < MaxAttempts

\* A code that logged somebody in is consumed, and so one of a row.
LoginConsumed ==
  \A i \in Id : logins[i] > 0 => i \in DOMAIN rows /\ rows[i].consumed

WrongIsOfRow == \A i \in Id : wrong[i] > 0 => i \in DOMAIN rows

\* The count a verification will write back is the row's, increased.
SeenIsCurrent ==
  \A p \in Worker :
    req[p].op = "verify" /\ req[p].id \notin contended =>
      req[p].attempts = rows[req[p].id].attempts

\* A sending under way still has room in both windows.
RoomLeft ==
  \A p \in Worker :
    req[p].op \in {"counted", "checked"} =>
      /\ \A e \in Email \ contended :
           req[p].email = e => Cardinality(SentTo(e)) < PerEmail
      /\ \A a \in Ip \ contended :
           req[p].ip = a => Cardinality(SentFrom(a)) < PerIp

\* A sending that was checked is still the resend interval after the others.
SpacingLeft ==
  \A p \in Worker, e \in Email \ contended :
    req[p].op = "checked" /\ req[p].email = e =>
      \A i \in Pending(e) : rows[i].sent + Resend <= req[p].at

IInv ==
  /\ TypeOK
  /\ AloneUnlessContended /\ Grounded
  /\ LoginConsumed /\ WrongIsOfRow /\ SeenIsCurrent /\ AttemptsCounted
  /\ RoomLeft /\ SendLimit
  /\ SpacingLeft /\ ResendSpacing

-----------------------------------------------------------------------------
(* Facts about one request and one row.                                    *)

LEMMA HeldRequest ==
  ASSUME NEW r \in Request
  PROVE  /\ r.op \in {"counted", "checked"} =>
              /\ r # Idle
              /\ r.email \in Email /\ r.ip \in Ip /\ r.at \in Nat
              /\ Keys(r) = {r.email, r.ip}
         /\ r.op = "verify" =>
              /\ r # Idle
              /\ r.id \in Id /\ r.attempts \in 0..MaxAttempts /\ Keys(r) = {r.id}
         /\ r.op = "expire" => r # Idle /\ r.id \in Id /\ Keys(r) = {r.id}
         /\ r = Idle => r.op = "idle" /\ Keys(r) = {}
         /\ r.op \in {"idle", "counted", "checked", "verify", "expire"}
<1>1. Keys(r) = IF r.op \in {"counted", "checked"} THEN {r.email, r.ip}
                ELSE IF r.op \in {"verify", "expire"} THEN {r.id} ELSE {}
  BY DEF Keys
<1> QED  BY <1>1 DEF Request, Idle

LEMMA NatMin ==
  ASSUME NEW T, T \subseteq Nat, T # {}
  PROVE  \E x \in T : \A y \in T : x <= y
<1>1. PICK x \in T : \A y \in T : ~ (<<y, x>> \in OpToRel(<, Nat))
  BY NatLessThanWellFounded, WFMin
<1>2. \A y \in T : ~ (y < x)
  BY <1>1 DEF OpToRel
<1> QED  BY <1>2

\* There is a latest pending code whenever there is a pending one.
LEMMA SomeLatest ==
  ASSUME TypeOK, Grounded, NEW e, Pending(e) # {}
  PROVE  Latest(e) # {}
<1> DEFINE T == {now - rows[i].sent : i \in Pending(e)}
<1>1. \A i \in Pending(e) : i \in DOMAIN rows /\ rows[i].sent \in Nat /\ rows[i].sent <= now
  BY DEF Pending, TypeOK, Grounded, Row
<1>2. T \subseteq Nat /\ T # {}
  BY <1>1 DEF TypeOK
<1>3. PICK x \in T : \A y \in T : x <= y
  BY <1>2, NatMin
<1>4. PICK i \in Pending(e) : x = now - rows[i].sent
  BY <1>3
<1>5. ASSUME NEW j \in Pending(e)
      PROVE  rows[j].sent <= rows[i].sent
  <2>1. x <= now - rows[j].sent
    BY <1>3
  <2> QED  BY <2>1, <1>1, <1>4 DEF TypeOK
<1>6. i \in Latest(e)
  BY <1>5 DEF Latest
<1> QED  BY <1>6

\* Taking a key into a request and letting go of it.
LEMMA ReadStep ==
  ASSUME TypeOK, AloneUnlessContended,
         NEW p \in Worker, NEW r \in Request, Read(p, r)
  PROVE  /\ req' \in [Worker -> Request]
         /\ req'[p] = r
         /\ \A q \in Worker \ {p} : req'[q] = req[q]
         /\ contended \subseteq contended'
         /\ contended' \subseteq Email \cup Ip \cup Id
         /\ AloneUnlessContended'
<1>1. /\ req' \in [Worker -> Request]
      /\ req'[p] = r
      /\ \A q \in Worker \ {p} : req'[q] = req[q]
  BY DEF TypeOK, Read
<1>2. contended' = contended \cup (Keys(r) \cap UNION {Keys(req[q]) : q \in Worker \ {p}})
  BY DEF Read
<1>3. Keys(r) \subseteq Email \cup Ip \cup Id
  <2>1. CASE r.op \in {"counted", "checked"}
    <3>1. Keys(r) = {r.email, r.ip} /\ r.email \in Email /\ r.ip \in Ip
      BY <2>1, HeldRequest
    <3> QED  BY <3>1
  <2>2. CASE r.op \in {"verify", "expire"}
    <3>1. Keys(r) = {r.id} /\ r.id \in Id
      BY <2>2, HeldRequest
    <3> QED  BY <3>1
  <2>3. CASE r.op = "idle"
    <3>1. Keys(r) = {}
      BY <2>3 DEF Keys
    <3> QED  BY <3>1
  <2> QED  BY <2>1, <2>2, <2>3, HeldRequest
<1>4. contended \subseteq contended' /\ contended' \subseteq Email \cup Ip \cup Id
  BY <1>2, <1>3 DEF TypeOK
<1>5. ASSUME NEW a \in Worker, NEW b \in Worker, NEW k \in Email \cup Ip \cup Id,
             k \notin contended', k \in Keys(req'[a]), k \in Keys(req'[b])
      PROVE  a = b
  <2>1. k \notin contended
    BY <1>4, <1>5
  <2>2. ASSUME NEW q \in Worker \ {p}
        PROVE  ~ (k \in Keys(r) /\ k \in Keys(req[q]))
    BY <1>2, <1>5
  <2> QED  BY <1>1, <1>5, <2>1, <2>2 DEF AloneUnlessContended
<1>6. AloneUnlessContended'
  BY <1>5 DEF AloneUnlessContended, Keys
<1> QED  BY <1>1, <1>4, <1>6

LEMMA DoneStep ==
  ASSUME TypeOK, AloneUnlessContended, NEW p \in Worker, Done(p)
  PROVE  /\ req' \in [Worker -> Request]
         /\ req'[p] = Idle /\ Idle.op = "idle"
         /\ \A q \in Worker \ {p} : req'[q] = req[q]
         /\ contended' = contended
         /\ AloneUnlessContended'
<1>1. /\ req' \in [Worker -> Request]
      /\ req'[p] = Idle
      /\ \A q \in Worker \ {p} : req'[q] = req[q]
      /\ contended' = contended
  BY DEF TypeOK, Done, Request
<1>2. Idle.op = "idle" /\ Keys(Idle) = {}
  BY HeldRequest DEF Request
<1>3. ASSUME NEW a \in Worker, NEW b \in Worker, NEW k \in Email \cup Ip \cup Id,
             k \notin contended, k \in Keys(req'[a]), k \in Keys(req'[b])
      PROVE  a = b
  BY <1>1, <1>2, <1>3 DEF AloneUnlessContended
<1>4. AloneUnlessContended'
  BY <1>1, <1>3 DEF AloneUnlessContended, Keys
<1> QED  BY <1>1, <1>2, <1>4

-----------------------------------------------------------------------------
(* A handler reads.                                                        *)

\* What a handler has found before it holds on to it.
Loads(p, r) ==
  /\ r \in Request /\ Read(p, r)
  /\ r.op \in {"counted", "checked"} =>
       /\ r.at <= now
       /\ \A e \in Email \ contended :
            r.email = e => Cardinality(SentTo(e)) < PerEmail
       /\ \A a \in Ip \ contended :
            r.ip = a => Cardinality(SentFrom(a)) < PerIp
  /\ r.op = "checked" =>
       \A e \in Email : r.email = e =>
         \A i \in Pending(e) : rows[i].sent + Resend <= r.at
  /\ r.op \in {"verify", "expire"} => r.id \in DOMAIN rows /\ ~rows[r.id].consumed
  /\ r.op = "verify" => r.attempts = rows[r.id].attempts /\ r.attempts < MaxAttempts
  /\ UNCHANGED <<now, rows, accounts, wrong, logins>>

LEMMA CountLoads ==
  ASSUME IInv, NEW p \in Worker, NEW e \in Email, NEW a \in Ip, StartCount(p, e, a)
  PROVE  \E r \in Request : Loads(p, r)
<1> DEFINE r == [op |-> "counted", email |-> e, ip |-> a, at |-> now]
<1>1. r \in Request
  BY DEF Request, IInv, TypeOK
<1>2. /\ now \in Nat /\ Read(p, r)
      /\ Cardinality(SentTo(e)) < PerEmail /\ Cardinality(SentFrom(a)) < PerIp
      /\ UNCHANGED <<now, rows, accounts, wrong, logins>>
  BY DEF StartCount, MaySend, IInv, TypeOK
<1>3. r.op = "counted" /\ r.email = e /\ r.ip = a /\ r.at = now
  OBVIOUS
<1> HIDE DEF r
<1>4. Loads(p, r)
  BY <1>1, <1>2, <1>3 DEF Loads
<1> QED  BY <1>1, <1>4

LEMMA CheckLoads ==
  ASSUME IInv, NEW p \in Worker, StartCheck(p)
  PROVE  \/ \E r \in Request : Loads(p, r)
         \/ Done(p) /\ UNCHANGED <<now, rows, accounts, wrong, logins>>
<1> DEFINE e == req[p].email
           r == [req[p] EXCEPT !.op = "checked"]
<1>1. /\ TypeOK /\ Grounded /\ RoomLeft
      /\ req[p] \in Request /\ req[p].op = "counted"
      /\ UNCHANGED <<now, rows, accounts, wrong, logins>>
  BY DEF StartCheck, IInv, TypeOK
<1>2. e \in Email /\ req[p].ip \in Ip /\ req[p].at \in Nat
  BY <1>1, HeldRequest
<1>3. /\ r \in Request /\ r.op = "checked"
      /\ r.email = e /\ r.ip = req[p].ip /\ r.at = req[p].at
  BY <1>1, <1>2 DEF Request, Idle
<1>4. CASE /\ \/ Latest(e) = {}
              \/ \E i \in Latest(e) : rows[i].sent + Resend <= req[p].at
           /\ Read(p, r)
  <2>1. ASSUME NEW i \in Pending(e)
        PROVE  rows[i].sent + Resend <= req[p].at
    <3>1. Latest(e) # {}
      BY <1>1, SomeLatest
    <3>2. PICK j \in Latest(e) : rows[j].sent + Resend <= req[p].at
      BY <1>4, <3>1
    <3>3. rows[i].sent <= rows[j].sent /\ rows[i].sent \in Nat /\ rows[j].sent \in Nat
      BY <1>1 DEF Latest, Pending, TypeOK, Row
    <3> QED  BY <3>2, <3>3, <1>2, SettingsAssumption
  <2>2. req[p].at <= now
    BY <1>1 DEF Grounded
  <2> HIDE DEF e, r
  <2>3. /\ \A x \in Email \ contended :
             r.email = x => Cardinality(SentTo(x)) < PerEmail
        /\ \A a \in Ip \ contended :
             r.ip = a => Cardinality(SentFrom(a)) < PerIp
    BY <1>1, <1>3 DEF RoomLeft, e
  <2>4. Loads(p, r)
    BY <1>1, <1>3, <1>4, <2>1, <2>2, <2>3 DEF Loads
  <2> QED  BY <1>3, <2>4
<1>5. CASE Done(p)
  BY <1>1, <1>5
<1> QED  BY <1>4, <1>5 DEF StartCheck

LEMMA VerifyLoads ==
  ASSUME IInv, NEW p \in Worker, NEW e \in Email, NEW right \in BOOLEAN,
         VerifyLoad(p, e, right)
  PROVE  \E r \in Request : Loads(p, r)
<1>1. PICK i \in Latest(e) :
        \/ Expired(i) /\ Read(p, [op |-> "expire", id |-> i])
        \/ /\ rows[i].attempts < MaxAttempts
           /\ Read(p, [op |-> "verify", id |-> i, right |-> right,
                       attempts |-> rows[i].attempts])
  BY DEF VerifyLoad
<1>2. /\ i \in DOMAIN rows /\ i \in Id /\ ~rows[i].consumed
      /\ rows[i].attempts \in 0..MaxAttempts
      /\ UNCHANGED <<now, rows, accounts, wrong, logins>>
  BY DEF VerifyLoad, Latest, Pending, IInv, TypeOK, Row
<1>3. CASE Read(p, [op |-> "expire", id |-> i])
  <2> DEFINE r == [op |-> "expire", id |-> i]
  <2>1. r \in Request /\ r.op = "expire" /\ r.id = i
    BY <1>2 DEF Request
  <2> HIDE DEF r
  <2>2. Read(p, r)
    BY <1>3 DEF r
  <2>3. Loads(p, r)
    BY <1>2, <2>1, <2>2 DEF Loads
  <2> QED  BY <2>1, <2>3
<1>4. CASE /\ rows[i].attempts < MaxAttempts
           /\ Read(p, [op |-> "verify", id |-> i, right |-> right,
                       attempts |-> rows[i].attempts])
  <2> DEFINE r == [op |-> "verify", id |-> i, right |-> right,
                   attempts |-> rows[i].attempts]
  <2>1. r \in Request /\ r.op = "verify" /\ r.id = i /\ r.attempts = rows[i].attempts
    BY <1>2 DEF Request
  <2> HIDE DEF r
  <2>2. Read(p, r)
    BY <1>4 DEF r
  <2>3. Loads(p, r)
    BY <1>2, <1>4, <2>1, <2>2 DEF Loads
  <2> QED  BY <2>1, <2>3
<1> QED  BY <1>1, <1>3, <1>4

LEMMA LoadKeeps ==
  ASSUME IInv, NEW p \in Worker, NEW r, Loads(p, r)
  PROVE  IInv'
<1>1. /\ req' \in [Worker -> Request]
      /\ req'[p] = r
      /\ \A q \in Worker \ {p} : req'[q] = req[q]
      /\ contended \subseteq contended'
      /\ contended' \subseteq Email \cup Ip \cup Id
      /\ AloneUnlessContended'
  BY ReadStep DEF Loads, IInv
<1>2. UNCHANGED <<now, rows, accounts, wrong, logins>>
  BY DEF Loads
<1>3. TypeOK'
  BY <1>1, <1>2 DEF IInv, TypeOK
<1>4. Grounded'
  BY <1>1, <1>2 DEF IInv, Grounded, Loads
<1>5. LoginConsumed' /\ WrongIsOfRow'
  BY <1>2 DEF IInv, LoginConsumed, WrongIsOfRow
<1>6. SeenIsCurrent' /\ AttemptsCounted'
  BY <1>1, <1>2 DEF IInv, SeenIsCurrent, AttemptsCounted, Loads
<1>7. (\A e : SentTo(e)' = SentTo(e)) /\ (\A a : SentFrom(a)' = SentFrom(a))
      /\ (\A e : Pending(e)' = Pending(e))
  BY <1>2 DEF SentTo, SentFrom, Pending, InWindow
<1>8. RoomLeft'
  BY <1>1, <1>7 DEF IInv, RoomLeft, Loads
<1>9. SendLimit'
  BY <1>1, <1>7 DEF IInv, SendLimit
<1>10. SpacingLeft'
  BY <1>1, <1>2, <1>7 DEF IInv, SpacingLeft, Loads
<1>11. ResendSpacing'
  BY <1>1, <1>2 DEF IInv, ResendSpacing
<1> QED  BY <1>1, <1>3, <1>4, <1>5, <1>6, <1>8, <1>9, <1>10, <1>11 DEF IInv

\* A request ends without effect, or nothing happens.
LEMMA EndKeeps ==
  ASSUME IInv, UNCHANGED <<now, rows, accounts, wrong, logins>>,
         UNCHANGED <<req, contended>> \/ \E p \in Worker : Done(p)
  PROVE  IInv'
<1>1. /\ req' \in [Worker -> Request]
      /\ \A q \in Worker : req'[q].op = "idle" \/ req'[q] = req[q]
      /\ contended' = contended
      /\ AloneUnlessContended'
  <2>1. CASE UNCHANGED <<req, contended>>
    BY <2>1 DEF IInv, TypeOK, AloneUnlessContended, Keys
  <2>2. ASSUME NEW p \in Worker, Done(p)
        PROVE  /\ req' \in [Worker -> Request]
               /\ \A q \in Worker : req'[q].op = "idle" \/ req'[q] = req[q]
               /\ contended' = contended
               /\ AloneUnlessContended'
    BY <2>2, DoneStep DEF IInv
  <2> QED  BY <2>1, <2>2
<1>2. TypeOK'
  BY <1>1 DEF IInv, TypeOK
<1>3. Grounded'
  BY <1>1 DEF IInv, Grounded
<1>4. LoginConsumed' /\ WrongIsOfRow'
  BY DEF IInv, LoginConsumed, WrongIsOfRow
<1>5. SeenIsCurrent' /\ AttemptsCounted'
  BY <1>1 DEF IInv, SeenIsCurrent, AttemptsCounted
<1>6. (\A e : SentTo(e)' = SentTo(e)) /\ (\A a : SentFrom(a)' = SentFrom(a))
      /\ (\A e : Pending(e)' = Pending(e))
  BY DEF SentTo, SentFrom, Pending, InWindow
<1>7. RoomLeft' /\ SendLimit'
  BY <1>1, <1>6 DEF IInv, RoomLeft, SendLimit
<1>8. SpacingLeft'
  BY <1>1, <1>6 DEF IInv, SpacingLeft
<1>9. ResendSpacing'
  BY <1>1 DEF IInv, ResendSpacing
<1> QED  BY <1>1, <1>2, <1>3, <1>4, <1>5, <1>7, <1>8, <1>9 DEF IInv

\* Time only takes codes out of the windows.
LEMMA TickKeeps == ASSUME IInv, Tick PROVE IInv'
<1>1. /\ now \in Nat /\ now' = now + 1 /\ IsFiniteSet(DOMAIN rows)
      /\ UNCHANGED <<rows, accounts, req, wrong, logins, contended>>
  BY DEF Tick, IInv, TypeOK, Grounded
<1>2. \A i \in DOMAIN rows : rows[i].sent \in Nat
  BY DEF IInv, TypeOK, Row
<1>3. TypeOK' /\ AloneUnlessContended'
  BY <1>1 DEF IInv, TypeOK, AloneUnlessContended, Keys
<1>4. Grounded'
  <2>1. \A i \in DOMAIN rows : rows[i].sent <= now'
    BY <1>1, <1>2 DEF IInv, Grounded
  <2>2. \A p \in Worker : req[p].op \in {"counted", "checked"} => req[p].at <= now'
    BY <1>1, HeldRequest DEF IInv, Grounded, TypeOK
  <2> QED  BY <1>1, <2>1, <2>2 DEF IInv, Grounded
<1>5. /\ LoginConsumed' /\ WrongIsOfRow' /\ SeenIsCurrent' /\ AttemptsCounted'
      /\ ResendSpacing'
  BY <1>1 DEF IInv, LoginConsumed, WrongIsOfRow, SeenIsCurrent, AttemptsCounted,
     ResendSpacing
<1>6. ASSUME NEW S, NEW T, T \subseteq S, S \subseteq DOMAIN rows
      PROVE  /\ Cardinality(T) \in Nat /\ Cardinality(S) \in Nat
             /\ Cardinality(T) <= Cardinality(S)
  <2>1. IsFiniteSet(S)
    BY <1>1, <1>6, FS_Subset
  <2> QED  BY <1>6, <2>1, FS_Subset, FS_CardinalityType
<1>7. \A e : SentTo(e)' \subseteq SentTo(e) /\ SentTo(e) \subseteq DOMAIN rows
  BY <1>1, <1>2, SettingsAssumption DEF SentTo, InWindow
<1>8. \A a : SentFrom(a)' \subseteq SentFrom(a) /\ SentFrom(a) \subseteq DOMAIN rows
  BY <1>1, <1>2, SettingsAssumption DEF SentFrom, InWindow
<1>9. /\ \A e : /\ Cardinality(SentTo(e))' \in Nat /\ Cardinality(SentTo(e)) \in Nat
                /\ Cardinality(SentTo(e))' <= Cardinality(SentTo(e))
      /\ \A a : /\ Cardinality(SentFrom(a))' \in Nat /\ Cardinality(SentFrom(a)) \in Nat
                /\ Cardinality(SentFrom(a))' <= Cardinality(SentFrom(a))
  BY <1>6, <1>7, <1>8
<1>10. RoomLeft' /\ SendLimit'
  BY <1>1, <1>9, SettingsAssumption DEF IInv, RoomLeft, SendLimit
<1>11. SpacingLeft'
  BY <1>1 DEF IInv, SpacingLeft, Pending
<1> QED  BY <1>3, <1>4, <1>5, <1>10, <1>11 DEF IInv

-----------------------------------------------------------------------------
(* A verification writes back the row it has read.                         *)

Marks(p, i, row) ==
  /\ req[p].op \in {"verify", "expire"} /\ i = req[p].id
  /\ i \in Id /\ i \in DOMAIN rows /\ row \in Row
  /\ row.email = rows[i].email /\ row.ip = rows[i].ip /\ row.sent = rows[i].sent
  /\ rows[i].consumed => row.consumed
  /\ rows' = [rows EXCEPT ![i] = row]
  /\ Done(p) /\ now' = now

LEMMA MarkKeeps ==
  ASSUME IInv, NEW p \in Worker, NEW i, NEW row, Marks(p, i, row)
  PROVE  /\ DOMAIN rows' = DOMAIN rows
         /\ rows' \in [DOMAIN rows' -> Row]
         /\ rows'[i] = row
         /\ \A j \in DOMAIN rows \ {i} : rows'[j] = rows[j]
         /\ req' \in [Worker -> Request]
         /\ contended' = contended
         /\ AloneUnlessContended' /\ Grounded' /\ SeenIsCurrent'
         /\ RoomLeft' /\ SendLimit' /\ SpacingLeft' /\ ResendSpacing'
<1>1. /\ req' \in [Worker -> Request]
      /\ req'[p] = Idle /\ Idle.op = "idle"
      /\ \A q \in Worker \ {p} : req'[q] = req[q]
      /\ contended' = contended
      /\ AloneUnlessContended'
  BY DoneStep DEF Marks, IInv
<1>2. /\ DOMAIN rows' = DOMAIN rows
      /\ rows' \in [DOMAIN rows' -> Row]
      /\ rows'[i] = row
      /\ \A j \in DOMAIN rows \ {i} : rows'[j] = rows[j]
  BY DEF Marks, IInv, TypeOK
<1>3. \A j \in DOMAIN rows :
        /\ rows'[j].email = rows[j].email
        /\ rows'[j].ip = rows[j].ip
        /\ rows'[j].sent = rows[j].sent
        /\ rows[j].consumed => rows'[j].consumed
  BY <1>2 DEF Marks
<1>4. Grounded'
  BY <1>1, <1>2, <1>3 DEF IInv, Grounded, Marks
<1>5. SeenIsCurrent'
  <2>1. ASSUME NEW q \in Worker \ {p}, req[q].op = "verify", req[q].id \notin contended
        PROVE  req[q].attempts = rows'[req[q].id].attempts
    <3>1. req[q] \in Request /\ req[p] \in Request
      BY DEF IInv, TypeOK
    <3>2. /\ req[q].id \in Keys(req[q]) /\ req[q].id \in Id
          /\ i \in Keys(req[p])
      BY <2>1, <3>1, HeldRequest DEF Marks
    <3>3. req[q].id # i
      BY <2>1, <3>2 DEF IInv, AloneUnlessContended
    <3>4. req[q].id \in DOMAIN rows
      BY <2>1 DEF IInv, Grounded
    <3> QED  BY <2>1, <3>3, <3>4, <1>2 DEF IInv, SeenIsCurrent
  <2> QED  BY <1>1, <2>1 DEF SeenIsCurrent
<1>6. (\A e : SentTo(e)' = SentTo(e)) /\ (\A a : SentFrom(a)' = SentFrom(a))
  BY <1>2, <1>3 DEF SentTo, SentFrom, InWindow, Marks
<1>7. RoomLeft' /\ SendLimit'
  BY <1>1, <1>6 DEF IInv, RoomLeft, SendLimit
<1>8. \A e : Pending(e)' \subseteq Pending(e) /\ Pending(e) \subseteq DOMAIN rows
  BY <1>2, <1>3 DEF Pending
<1>9. SpacingLeft'
  BY <1>1, <1>3, <1>8 DEF IInv, SpacingLeft
<1>10. ResendSpacing'
  BY <1>1, <1>2, <1>3 DEF IInv, ResendSpacing
<1> QED  BY <1>1, <1>2, <1>4, <1>5, <1>7, <1>9, <1>10

\* The request whose verification commits, and its row.
LEMMA HeldRow ==
  ASSUME IInv, NEW p \in Worker, req[p].op \in {"verify", "expire"}
  PROVE  /\ req[p].id \in Id /\ req[p].id \in DOMAIN rows
         /\ rows[req[p].id] \in Row
         /\ req[p].id \in Keys(req[p])
BY HeldRequest DEF IInv, TypeOK, Grounded

\* A wrong guess that could still be made leaves a row of the schema.
LEMMA GuessedRow ==
  ASSUME NEW row \in Row, NEW seen \in 0..MaxAttempts, seen < MaxAttempts
  PROVE  /\ Guessed(row, seen) \in Row
         /\ Guessed(row, seen).email = row.email
         /\ Guessed(row, seen).ip = row.ip
         /\ Guessed(row, seen).sent = row.sent
         /\ row.consumed => Guessed(row, seen).consumed
         /\ Guessed(row, seen).attempts = seen + 1
         /\ seen + 1 >= MaxAttempts => Guessed(row, seen).consumed
<1>1. seen + 1 \in 0..MaxAttempts
  BY SettingsAssumption
<1>2. (row.consumed \/ seen + 1 >= MaxAttempts) \in BOOLEAN
  OBVIOUS
<1> QED  BY <1>1, <1>2 DEF Guessed, Row

LEMMA WrongKeeps ==
  ASSUME IInv, NEW p \in Worker, VerifyWrong(p)
  PROVE  /\ IInv'
         /\ \E row \in Row : Marks(p, req[p].id, row)
         /\ logins' = logins
<1> DEFINE i == req[p].id
           row == Guessed(rows[i], req[p].attempts)
<1>1. /\ i \in Id /\ i \in DOMAIN rows /\ rows[i] \in Row
      /\ req[p].op = "verify" /\ i \in Keys(req[p])
  BY HeldRow DEF VerifyWrong
<1>2. req[p].attempts \in 0..MaxAttempts /\ req[p].attempts < MaxAttempts
  BY <1>1, HeldRequest DEF IInv, TypeOK, Grounded
<1>3. /\ rows' = [rows EXCEPT ![i] = row]
      /\ wrong' = [wrong EXCEPT ![i] = @ + 1]
      /\ Done(p) /\ UNCHANGED <<now, accounts, logins>>
  BY DEF VerifyWrong
<1>4. /\ row \in Row /\ row.email = rows[i].email /\ row.ip = rows[i].ip
      /\ row.sent = rows[i].sent
      /\ rows[i].consumed => row.consumed
      /\ row.attempts = req[p].attempts + 1
      /\ req[p].attempts + 1 >= MaxAttempts => row.consumed
  BY <1>1, <1>2, GuessedRow
<1> HIDE DEF i, row
<1>5. Marks(p, i, row)
  BY <1>1, <1>3, <1>4 DEF Marks, i
<1>6. /\ DOMAIN rows' = DOMAIN rows
      /\ rows' \in [DOMAIN rows' -> Row]
      /\ rows'[i] = row
      /\ \A j \in DOMAIN rows \ {i} : rows'[j] = rows[j]
      /\ req' \in [Worker -> Request]
      /\ contended' = contended
      /\ AloneUnlessContended' /\ Grounded' /\ SeenIsCurrent'
      /\ RoomLeft' /\ SendLimit' /\ SpacingLeft' /\ ResendSpacing'
  BY <1>5, MarkKeeps
<1>7. /\ wrong' \in [Id -> Nat] /\ wrong'[i] = wrong[i] + 1
      /\ \A j \in Id \ {i} : wrong'[j] = wrong[j]
  BY <1>1, <1>3 DEF IInv, TypeOK
<1>8. TypeOK'
  BY <1>3, <1>6, <1>7 DEF IInv, TypeOK
<1>9. LoginConsumed'
  BY <1>3, <1>4, <1>6 DEF IInv, LoginConsumed
<1>10. WrongIsOfRow'
  BY <1>1, <1>6, <1>7 DEF IInv, WrongIsOfRow
<1>11. AttemptsCounted'
  <2>1. ASSUME NEW j \in DOMAIN rows \ contended, j = i
        PROVE  /\ rows'[j].attempts = wrong'[j]
               /\ wrong'[j] >= MaxAttempts => rows'[j].consumed
    <3>1. req[p].attempts = wrong[i]
      BY <1>1, <2>1 DEF IInv, SeenIsCurrent, AttemptsCounted, i
    <3> QED  BY <3>1, <2>1, <1>4, <1>6, <1>7
  <2>2. ASSUME NEW j \in DOMAIN rows \ contended, j # i
        PROVE  /\ rows'[j].attempts = wrong'[j]
               /\ wrong'[j] >= MaxAttempts => rows'[j].consumed
    <3>1. j \in Id
      BY DEF IInv, TypeOK
    <3> QED  BY <3>1, <2>2, <1>6, <1>7 DEF IInv, AttemptsCounted
  <2> QED  BY <2>1, <2>2, <1>6 DEF AttemptsCounted
<1> QED
  BY <1>3, <1>5, <1>6, <1>8, <1>9, <1>10, <1>11 DEF IInv, i

\* A right or an expired code: its row is consumed, its count untouched.
LEMMA ConsumeKeeps ==
  ASSUME IInv, NEW p \in Worker, VerifyRight(p) \/ VerifyExpired(p)
  PROVE  /\ IInv'
         /\ \E row \in Row : row.consumed /\ Marks(p, req[p].id, row)
         /\ \A j \in Id \ {req[p].id} : logins'[j] = logins[j]
<1> DEFINE i == req[p].id
           row == [rows[i] EXCEPT !.consumed = TRUE]
<1>1. /\ i \in Id /\ i \in DOMAIN rows /\ rows[i] \in Row
      /\ req[p].op \in {"verify", "expire"} /\ i \in Keys(req[p])
  BY HeldRow DEF VerifyRight, VerifyExpired
<1>2. /\ rows' = [rows EXCEPT ![i] = row]
      /\ Done(p) /\ UNCHANGED <<now, wrong>>
      /\ \/ UNCHANGED <<accounts, logins>>
         \/ /\ accounts' = accounts \cup {rows[i].email}
            /\ logins' = [logins EXCEPT ![i] = @ + 1]
  BY DEF VerifyRight, VerifyExpired
<1>3. /\ row \in Row /\ row.email = rows[i].email /\ row.ip = rows[i].ip
      /\ row.sent = rows[i].sent /\ row.attempts = rows[i].attempts
      /\ row.consumed
  BY <1>1 DEF Row
<1> HIDE DEF i, row
<1>4. Marks(p, i, row)
  BY <1>1, <1>2, <1>3 DEF Marks, i
<1>5. /\ DOMAIN rows' = DOMAIN rows
      /\ rows' \in [DOMAIN rows' -> Row]
      /\ rows'[i] = row
      /\ \A j \in DOMAIN rows \ {i} : rows'[j] = rows[j]
      /\ req' \in [Worker -> Request]
      /\ contended' = contended
      /\ AloneUnlessContended' /\ Grounded' /\ SeenIsCurrent'
      /\ RoomLeft' /\ SendLimit' /\ SpacingLeft' /\ ResendSpacing'
  BY <1>4, MarkKeeps
<1>6. rows[i].email \in Email
  BY <1>1 DEF Row
<1>7. /\ logins' \in [Id -> Nat]
      /\ \A j \in Id \ {i} : logins'[j] = logins[j]
  BY <1>1, <1>2 DEF IInv, TypeOK
<1>8. TypeOK'
  BY <1>2, <1>5, <1>6, <1>7 DEF IInv, TypeOK
<1>9. LoginConsumed'
  BY <1>1, <1>3, <1>5, <1>7 DEF IInv, LoginConsumed
<1>10. WrongIsOfRow'
  BY <1>2, <1>5 DEF IInv, WrongIsOfRow
<1>11. AttemptsCounted'
  BY <1>1, <1>2, <1>3, <1>5 DEF IInv, AttemptsCounted
<1> QED
  BY <1>3, <1>4, <1>5, <1>7, <1>8, <1>9, <1>10, <1>11 DEF IInv, i

-----------------------------------------------------------------------------
(* A new code takes its place in both windows and after the pending ones.  *)

LEMMA SendFacts ==
  ASSUME IInv, NEW p \in Worker, NEW i \in Id, StartCommit(p, i)
  PROVE  LET row == NewRow(req[p])
         IN  /\ req[p].op = "checked" /\ req[p] \in Request
             /\ row \in Row /\ row.email = req[p].email /\ row.ip = req[p].ip
             /\ row.sent = req[p].at /\ ~row.consumed /\ row.attempts = 0
             /\ i \notin DOMAIN rows
             /\ DOMAIN rows' = DOMAIN rows \cup {i}
             /\ rows' \in [DOMAIN rows' -> Row]
             /\ rows'[i] = row
             /\ \A j \in DOMAIN rows : rows'[j] = rows[j]
             /\ IsFiniteSet(DOMAIN rows')
             /\ UNCHANGED <<now, accounts, wrong, logins>>
<1> DEFINE row == NewRow(req[p])
<1>1. req[p].op = "checked" /\ req[p] \in Request /\ i \notin DOMAIN rows
  BY DEF StartCommit, IInv, TypeOK
<1>2. req[p].email \in Email /\ req[p].ip \in Ip /\ req[p].at \in Nat
  BY <1>1, HeldRequest
<1>3. /\ row \in Row /\ row.email = req[p].email /\ row.ip = req[p].ip
      /\ row.sent = req[p].at /\ ~row.consumed /\ row.attempts = 0
  BY <1>2, SettingsAssumption DEF NewRow, Row
<1>4. /\ rows' = [x \in DOMAIN rows \cup {i} |-> IF x # i THEN rows[x] ELSE row]
      /\ UNCHANGED <<now, accounts, wrong, logins>>
  BY DEF StartCommit
<1> HIDE DEF row
<1>5. /\ DOMAIN rows' = DOMAIN rows \cup {i}
      /\ rows' \in [DOMAIN rows' -> Row]
      /\ rows'[i] = row
      /\ \A j \in DOMAIN rows : rows'[j] = rows[j]
  BY <1>1, <1>3, <1>4 DEF IInv, TypeOK
<1>6. IsFiniteSet(DOMAIN rows')
  BY <1>5, FS_AddElement DEF IInv, Grounded
<1> QED  BY <1>1, <1>3, <1>4, <1>5, <1>6 DEF row

LEMMA SendKeeps ==
  ASSUME IInv, NEW p \in Worker, NEW i \in Id, StartCommit(p, i)
  PROVE  IInv'
<1> DEFINE row == NewRow(req[p])
<1>1. /\ req[p].op = "checked" /\ req[p] \in Request
      /\ row \in Row /\ row.email = req[p].email /\ row.ip = req[p].ip
      /\ row.sent = req[p].at /\ ~row.consumed /\ row.attempts = 0
      /\ i \notin DOMAIN rows
      /\ DOMAIN rows' = DOMAIN rows \cup {i}
      /\ rows' \in [DOMAIN rows' -> Row]
      /\ rows'[i] = row
      /\ \A j \in DOMAIN rows : rows'[j] = rows[j]
      /\ IsFiniteSet(DOMAIN rows')
      /\ UNCHANGED <<now, accounts, wrong, logins>>
  BY SendFacts
<1> HIDE DEF row
<1>2. /\ req' \in [Worker -> Request]
      /\ req'[p] = Idle /\ Idle.op = "idle"
      /\ \A q \in Worker \ {p} : req'[q] = req[q]
      /\ contended' = contended
      /\ AloneUnlessContended'
  BY DoneStep DEF StartCommit, IInv
<1>3. /\ req[p].email \in Email /\ req[p].ip \in Ip /\ req[p].at \in Nat
      /\ Keys(req[p]) = {req[p].email, req[p].ip}
  BY <1>1, HeldRequest
<1>4. TypeOK'
  BY <1>1, <1>2 DEF IInv, TypeOK
<1>5. Grounded'
  BY <1>1, <1>2 DEF IInv, Grounded
<1>6. LoginConsumed' /\ WrongIsOfRow'
  BY <1>1 DEF IInv, LoginConsumed, WrongIsOfRow
<1>7. SeenIsCurrent'
  BY <1>1, <1>2 DEF IInv, SeenIsCurrent, Grounded
<1>8. AttemptsCounted'
  <2>1. wrong[i] = 0
    BY <1>1 DEF IInv, WrongIsOfRow, TypeOK
  <2> QED  BY <2>1, <1>1, <1>2, SettingsAssumption DEF IInv, AttemptsCounted
<1>9. \A e : /\ IsFiniteSet(SentTo(e))
             /\ i \notin SentTo(e)
             /\ SentTo(e)' = SentTo(e) \/ (e = req[p].email /\ SentTo(e)' = SentTo(e) \cup {i})
  <2>1. \A e : SentTo(e) \subseteq DOMAIN rows
    BY DEF SentTo
  <2>2. \A e : IsFiniteSet(SentTo(e))
    BY <2>1, FS_Subset DEF IInv, Grounded
  <2>3. \A e : SentTo(e)' = SentTo(e) \/ (e = req[p].email /\ SentTo(e)' = SentTo(e) \cup {i})
    BY <1>1 DEF SentTo, InWindow
  <2> QED  BY <1>1, <2>1, <2>2, <2>3
<1>10. \A a : /\ IsFiniteSet(SentFrom(a))
              /\ i \notin SentFrom(a)
              /\ SentFrom(a)' = SentFrom(a) \/ (a = req[p].ip /\ SentFrom(a)' = SentFrom(a) \cup {i})
  <2>1. \A a : SentFrom(a) \subseteq DOMAIN rows
    BY DEF SentFrom
  <2>2. \A a : IsFiniteSet(SentFrom(a))
    BY <2>1, FS_Subset DEF IInv, Grounded
  <2>3. \A a : SentFrom(a)' = SentFrom(a) \/ (a = req[p].ip /\ SentFrom(a)' = SentFrom(a) \cup {i})
    BY <1>1 DEF SentFrom, InWindow
  <2> QED  BY <1>1, <2>1, <2>2, <2>3
<1>11. SendLimit'
  <2>1. ASSUME NEW e \in Email \ contended
        PROVE  Cardinality(SentTo(e)') <= PerEmail
    <3>1. CASE SentTo(e)' = SentTo(e)
      BY <3>1 DEF IInv, SendLimit
    <3>2. CASE e = req[p].email /\ SentTo(e)' = SentTo(e) \cup {i}
      <4>1. Cardinality(SentTo(e)) < PerEmail
        BY <3>2, <1>1 DEF IInv, RoomLeft
      <4>2. /\ Cardinality(SentTo(e)) \in Nat
            /\ Cardinality(SentTo(e) \cup {i}) = Cardinality(SentTo(e)) + 1
        BY <1>9, FS_AddElement, FS_CardinalityType
      <4> QED  BY <3>2, <4>1, <4>2, SettingsAssumption
    <3> QED  BY <3>1, <3>2, <1>9
  <2>2. ASSUME NEW a \in Ip \ contended
        PROVE  Cardinality(SentFrom(a)') <= PerIp
    <3>1. CASE SentFrom(a)' = SentFrom(a)
      BY <3>1 DEF IInv, SendLimit
    <3>2. CASE a = req[p].ip /\ SentFrom(a)' = SentFrom(a) \cup {i}
      <4>1. Cardinality(SentFrom(a)) < PerIp
        BY <3>2, <1>1 DEF IInv, RoomLeft
      <4>2. /\ Cardinality(SentFrom(a)) \in Nat
            /\ Cardinality(SentFrom(a) \cup {i}) = Cardinality(SentFrom(a)) + 1
        BY <1>10, FS_AddElement, FS_CardinalityType
      <4> QED  BY <3>2, <4>1, <4>2, SettingsAssumption
    <3> QED  BY <3>1, <3>2, <1>10
  <2> QED  BY <2>1, <2>2, <1>2 DEF SendLimit
<1>12. ASSUME NEW q \in Worker \ {p}, req[q].op \in {"counted", "checked"}
       PROVE  /\ req[q].email \notin contended => req[q].email # req[p].email
              /\ req[q].ip \notin contended => req[q].ip # req[p].ip
  <2>1. req[q] \in Request
    BY DEF IInv, TypeOK
  <2>2. req[q].email \in Email /\ req[q].ip \in Ip /\ Keys(req[q]) = {req[q].email, req[q].ip}
    BY <2>1, <1>12, HeldRequest
  <2> QED  BY <2>2, <1>3 DEF IInv, AloneUnlessContended
<1>13. RoomLeft'
  <2>1. ASSUME NEW q \in Worker \ {p}, req[q].op \in {"counted", "checked"},
               NEW e \in Email \ contended, req[q].email = e
        PROVE  Cardinality(SentTo(e)') < PerEmail
    <3>1. SentTo(e)' = SentTo(e)
      BY <2>1, <1>9, <1>12
    <3> QED  BY <2>1, <3>1 DEF IInv, RoomLeft
  <2>2. ASSUME NEW q \in Worker \ {p}, req[q].op \in {"counted", "checked"},
               NEW a \in Ip \ contended, req[q].ip = a
        PROVE  Cardinality(SentFrom(a)') < PerIp
    <3>1. SentFrom(a)' = SentFrom(a)
      BY <2>2, <1>10, <1>12
    <3> QED  BY <2>2, <3>1 DEF IInv, RoomLeft
  <2> QED  BY <2>1, <2>2, <1>2 DEF RoomLeft
<1>14. SpacingLeft'
  <2>1. ASSUME NEW q \in Worker \ {p}, req[q].op = "checked",
               NEW e \in Email \ contended, req[q].email = e,
               NEW j \in Pending(e)'
        PROVE  rows'[j].sent + Resend <= req[q].at
    <3>1. e # req[p].email
      BY <2>1, <1>12
    <3>2. j \in Pending(e) /\ rows'[j] = rows[j]
      BY <2>1, <3>1, <1>1 DEF Pending
    <3> QED  BY <2>1, <3>2 DEF IInv, SpacingLeft
  <2> QED  BY <2>1, <1>2 DEF SpacingLeft
<1>15. ResendSpacing'
  <2>1. ASSUME NEW j \in DOMAIN rows, rows[j].email = req[p].email,
               req[p].email \notin contended, ~rows[j].consumed
        PROVE  rows[j].sent + Resend <= row.sent
    BY <2>1, <1>1, <1>3 DEF IInv, SpacingLeft, Pending
  <2>2. \A j, k \in DOMAIN rows :
          /\ j # k /\ rows[j].email = rows[k].email
          /\ rows[j].email \notin contended
          /\ ~rows[j].consumed /\ ~rows[k].consumed
          => \/ rows[j].sent + Resend <= rows[k].sent
             \/ rows[k].sent + Resend <= rows[j].sent
    BY DEF IInv, ResendSpacing
  <2> QED  BY <2>1, <2>2, <1>1, <1>2 DEF ResendSpacing
<1> QED
  BY <1>2, <1>4, <1>5, <1>6, <1>7, <1>8, <1>11, <1>13, <1>14, <1>15 DEF IInv

-----------------------------------------------------------------------------
(* The steps together.                                                     *)

\* Every step reads, ends, ticks, sends or marks.
LEMMA StepKinds ==
  ASSUME IInv, [Next]_vars
  PROVE  \/ \E p \in Worker, r \in Request : Loads(p, r)
         \/ /\ UNCHANGED <<now, rows, accounts, wrong, logins>>
            /\ UNCHANGED <<req, contended>> \/ \E p \in Worker : Done(p)
         \/ Tick
         \/ \E p \in Worker, i \in Id : StartCommit(p, i)
         \/ \E p \in Worker : VerifyWrong(p)
         \/ \E p \in Worker : VerifyRight(p) \/ VerifyExpired(p)
<1>1. ASSUME NEW p \in Worker, NEW e \in Email, NEW a \in Ip, StartCount(p, e, a)
      PROVE  \E r \in Request : Loads(p, r)
  BY <1>1, CountLoads
<1>2. ASSUME NEW p \in Worker, StartCheck(p)
      PROVE  \/ \E r \in Request : Loads(p, r)
             \/ Done(p) /\ UNCHANGED <<now, rows, accounts, wrong, logins>>
  BY <1>2, CheckLoads
<1>3. ASSUME NEW p \in Worker, NEW e \in Email, NEW right \in BOOLEAN,
             VerifyLoad(p, e, right)
      PROVE  \E r \in Request : Loads(p, r)
  BY <1>3, VerifyLoads
<1>4. ASSUME NEW p \in Worker, Abort(p)
      PROVE  Done(p) /\ UNCHANGED <<now, rows, accounts, wrong, logins>>
  BY <1>4 DEF Abort
<1>5. CASE UNCHANGED vars
  BY <1>5 DEF vars
<1> QED  BY <1>1, <1>2, <1>3, <1>4, <1>5 DEF Next

LEMMA StepKeeps == ASSUME IInv, [Next]_vars PROVE IInv'
BY StepKinds, LoadKeeps, EndKeeps, TickKeeps, SendKeeps, WrongKeeps, ConsumeKeeps

LEMMA InitInv == Init => IInv
<1> SUFFICES ASSUME Init PROVE IInv
  OBVIOUS
<1>1. /\ rows = [i \in {} |-> 0] /\ DOMAIN rows = {}
      /\ \A p \in Worker : req[p] = Idle /\ Idle.op = "idle" /\ Keys(req[p]) = {}
  BY HeldRequest DEF Init, Request
<1>2. IsFiniteSet({}) /\ Cardinality({}) = 0
  BY FS_EmptySet
<1>3. TypeOK
  BY <1>1 DEF Init, TypeOK, Request
<1>4. AloneUnlessContended /\ Grounded /\ SeenIsCurrent /\ RoomLeft /\ SpacingLeft
  BY <1>1, <1>2
  DEF AloneUnlessContended, Grounded, SeenIsCurrent, RoomLeft, SpacingLeft
<1>5. LoginConsumed /\ WrongIsOfRow /\ AttemptsCounted /\ ResendSpacing
  BY <1>1 DEF Init, LoginConsumed, WrongIsOfRow, AttemptsCounted, ResendSpacing
<1>6. SendLimit
  <2>1. (\A e : SentTo(e) = {}) /\ (\A a : SentFrom(a) = {})
    BY <1>1 DEF SentTo, SentFrom
  <2> QED  BY <2>1, <1>2, SettingsAssumption DEF SendLimit
<1> QED  BY <1>3, <1>4, <1>5, <1>6 DEF IInv

LEMMA Inductive == Spec => []IInv
<1>1. IInv /\ [Next]_vars => IInv'
  BY StepKeeps
<1> QED  BY <1>1, InitInv, PTL DEF Spec

LEMMA UsedStep ==
  ASSUME IInv, [Next]_vars, NEW i \in DOMAIN rows
  PROVE  /\ Used(i) => Used(i)' /\ logins'[i] = logins[i]
         /\ rows[i].consumed => rows'[i].consumed
         /\ logins'[i] > 0 => rows'[i].consumed
<1> DEFINE Kept == /\ Used(i) => Used(i)' /\ logins'[i] = logins[i]
                   /\ rows[i].consumed => rows'[i].consumed
<1>1. i \in Id /\ TypeOK /\ AloneUnlessContended
  BY DEF IInv, TypeOK
<1>2. logins'[i] > 0 => rows'[i].consumed
  BY <1>1, StepKeeps DEF IInv, LoginConsumed
<1>3. ASSUME NEW p \in Worker, NEW r, Loads(p, r)
      PROVE  Kept
  <2>1. req'[p] = r /\ r \in Request /\ \A q \in Worker \ {p} : req'[q] = req[q]
    BY <1>1, <1>3, ReadStep DEF Loads
  <2>2. rows[i].consumed => i \notin Keys(r)
    <3>1. CASE r.op \in {"counted", "checked"}
      <4>1. Keys(r) = {r.email, r.ip} /\ r.email \in Email /\ r.ip \in Ip
        BY <2>1, <3>1, HeldRequest
      <4> QED  BY <4>1, <1>1, KeysAssumption
    <3>2. CASE r.op \in {"verify", "expire"}
      <4>1. Keys(r) = {r.id}
        BY <2>1, <3>2, HeldRequest
      <4> QED  BY <4>1, <3>2, <1>3 DEF Loads
    <3>3. CASE r.op = "idle"
      BY <3>3 DEF Keys
    <3> QED  BY <2>1, <3>1, <3>2, <3>3, HeldRequest
  <2>3. Used(i) => \A q \in Worker : i \notin Keys(req'[q])
    BY <2>1, <2>2 DEF Used
  <2>4. rows' = rows /\ logins' = logins
    BY <1>3 DEF Loads
  <2> QED  BY <2>3, <2>4 DEF Used, Keys
<1>4. ASSUME NEW p \in Worker, Done(p)
      PROVE  (\A q \in Worker : i \notin Keys(req[q]))
               => (\A q \in Worker : i \notin Keys(req[q]))'
  <2>1. /\ req'[p] = Idle /\ Keys(Idle) = {}
        /\ \A q \in Worker \ {p} : req'[q] = req[q]
    BY <1>1, <1>4, DoneStep, HeldRequest DEF Request
  <2>2. (\A q \in Worker : i \notin Keys(req[q]))
          => \A q \in Worker : i \notin Keys(req'[q])
    BY <2>1
  <2> QED  BY <2>2 DEF Keys
<1>5. ASSUME UNCHANGED <<now, rows, accounts, wrong, logins>>,
             UNCHANGED <<req, contended>> \/ \E p \in Worker : Done(p)
      PROVE  Kept
  <2>1. Used(i) => Used(i)'
    BY <1>4, <1>5 DEF Used, Keys
  <2> QED  BY <1>5, <2>1
<1>6. ASSUME Tick
      PROVE  Kept
  BY <1>6 DEF Tick, Used, Keys
<1>7. ASSUME NEW p \in Worker, NEW j \in Id, StartCommit(p, j)
      PROVE  Kept
  <2>1. j # i /\ rows'[i] = rows[i] /\ logins' = logins /\ Done(p)
    BY <1>7, SendFacts DEF StartCommit
  <2> QED  BY <2>1, <1>4 DEF Used
<1>8. ASSUME NEW p \in Worker, NEW row, Marks(p, req[p].id, row),
             \A j \in Id \ {req[p].id} : logins'[j] = logins[j]
      PROVE  Kept
  <2>1. /\ rows[i].consumed => rows'[i].consumed
        /\ Done(p)
    BY <1>1, <1>8, MarkKeeps DEF Marks
  <2>2. Used(i) => req[p].id # i
    BY <1>8, HeldRow DEF Used, Marks
  <2> QED  BY <1>1, <1>4, <1>8, <2>1, <2>2 DEF Used
<1>9. ASSUME NEW p \in Worker, VerifyWrong(p)
      PROVE  Kept
  <2>1. PICK row \in Row : Marks(p, req[p].id, row)
    BY <1>9, WrongKeeps
  <2>2. \A j \in Id \ {req[p].id} : logins'[j] = logins[j]
    BY <1>9 DEF VerifyWrong
  <2> QED  BY <1>8, <2>1, <2>2
<1>10. ASSUME NEW p \in Worker, VerifyRight(p) \/ VerifyExpired(p)
       PROVE  Kept
  <2>1. PICK row \in Row : Marks(p, req[p].id, row)
    BY <1>10, ConsumeKeeps
  <2>2. \A j \in Id \ {req[p].id} : logins'[j] = logins[j]
    BY <1>10, ConsumeKeeps
  <2> QED  BY <1>8, <2>1, <2>2
<1>11. Kept
  BY <1>3, <1>5, <1>6, <1>7, <1>9, <1>10, StepKinds
<1> QED  BY <1>2, <1>11

-----------------------------------------------------------------------------
(* The theorems.                                                           *)

(* The rows and the requests in flight are well-formed; no code counts     *)
(* more attempts than allowed.                                             *)
THEOREM TypeCorrect == Spec => []TypeOK
<1>1. IInv => TypeOK
  BY DEF IInv
<1> QED  BY <1>1, Inductive, PTL

(* Neither an address nor an ip gets more mails in a window than allowed,  *)
(* unless two sendings overlapped on it.                                   *)
THEOREM SendingIsLimited == Spec => []SendLimit
<1>1. IInv => SendLimit
  BY DEF IInv
<1> QED  BY <1>1, Inductive, PTL

(* Pending codes of an address are the resend interval apart, unless two   *)
(* sendings overlapped on it.                                              *)
THEOREM ResendIsSpaced == Spec => []ResendSpacing
<1>1. IInv => ResendSpacing
  BY DEF IInv
<1> QED  BY <1>1, Inductive, PTL

(* Every wrong guess at a code is counted and the limit locks it, unless   *)
(* two verifications of it overlapped.                                     *)
THEOREM GuessesAreCounted == Spec => []AttemptsCounted
<1>1. IInv => AttemptsCounted
  BY DEF IInv
<1> QED  BY <1>1, Inductive, PTL

(* A used code that no request holds any more logs nobody in again.        *)
THEOREM UsedStaysUsed == Spec => UsedForGood
<1>1. IInv /\ [Next]_vars =>
        [\A i \in DOMAIN rows :
           /\ Used(i) => Used(i)' /\ logins'[i] = logins[i]
           /\ rows[i].consumed => rows'[i].consumed
           /\ logins'[i] > 0 => rows'[i].consumed]_vars
  BY UsedStep
<1> QED  BY <1>1, Inductive, PTL DEF Spec, UsedForGood

Uncontended == contended = {}

(* Where requests do not overlap nothing is contended, so the limits on    *)
(* sending hold everywhere and a code takes at most MaxAttempts wrong      *)
(* guesses: only two verifications in flight can break AttemptLimit.       *)
THEOREM SerialLimits ==
  ASSUME NEW p \in Worker, Worker = {p}
  PROVE  Spec => [](Uncontended /\ AttemptLimit)
<1>1. Init => Uncontended
  BY DEF Init, Uncontended
<1>2. IInv /\ Uncontended /\ [Next]_vars => Uncontended'
  <2> SUFFICES ASSUME IInv, contended = {}, [Next]_vars
               PROVE  contended' = {}
    BY DEF Uncontended
  <2>1. ASSUME NEW q \in Worker, NEW r, Read(q, r)
        PROVE  contended' = {}
    <3>1. Worker \ {q} = {}
      OBVIOUS
    <3> QED  BY <2>1, <3>1 DEF Read
  <2>2. ASSUME NEW q \in Worker, Done(q)
        PROVE  contended' = {}
    BY <2>2 DEF Done
  <2>3. ASSUME NEW q \in Worker, NEW r \in Request, Loads(q, r)
        PROVE  contended' = {}
    BY <2>1, <2>3 DEF Loads
  <2>4. ASSUME NEW q \in Worker, NEW i \in Id, StartCommit(q, i)
        PROVE  contended' = {}
    BY <2>2, <2>4 DEF StartCommit
  <2>5. ASSUME NEW q \in Worker, VerifyWrong(q)
        PROVE  contended' = {}
    BY <2>2, <2>5 DEF VerifyWrong
  <2>6. ASSUME NEW q \in Worker, VerifyRight(q) \/ VerifyExpired(q)
        PROVE  contended' = {}
    BY <2>2, <2>6 DEF VerifyRight, VerifyExpired
  <2>7. CASE Tick
    BY <2>7 DEF Tick
  <2>8. ASSUME UNCHANGED <<req, contended>>
        PROVE  contended' = {}
    BY <2>8
  <2> QED  BY <2>2, <2>3, <2>4, <2>5, <2>6, <2>7, <2>8, StepKinds
<1>3. IInv /\ Uncontended => AttemptLimit
  <2> SUFFICES ASSUME IInv, contended = {}, NEW i \in Id
               PROVE  wrong[i] <= MaxAttempts
    BY DEF AttemptLimit, Uncontended
  <2>1. wrong[i] \in Nat /\ MaxAttempts \in Nat
    BY SettingsAssumption DEF IInv, TypeOK
  <2>2. CASE i \in DOMAIN rows
    <3>1. wrong[i] = rows[i].attempts
      BY <2>2 DEF IInv, AttemptsCounted
    <3>2. rows[i].attempts \in 0..MaxAttempts
      BY <2>2 DEF IInv, TypeOK, Row
    <3> QED  BY <2>1, <3>1, <3>2
  <2>3. CASE i \notin DOMAIN rows
    <3>1. ~(wrong[i] > 0)
      BY <2>3 DEF IInv, WrongIsOfRow
    <3> QED  BY <2>1, <3>1
  <2> QED  BY <2>2, <2>3
<1> QED  BY <1>1, <1>2, <1>3, Inductive, PTL DEF Spec
===============================================================================
