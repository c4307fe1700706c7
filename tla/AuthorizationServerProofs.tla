----------------------- MODULE AuthorizationServerProofs ------------------------
(* Theorems about ClientRegistry and AuthorizationServer, for any number of *)
(* processes, clients, addresses, users and logins.                        *)
EXTENDS AuthorizationServer, TLAPS

USE BuiltInAssumption, MissingAssumption, DefaultAssumption, CrashAssumption, InputAssumption,
    AddressAssumption, LoginAssumption, UserAssumption

(***************************************************************************)
(* The registry.                                                           *)
(***************************************************************************)

LEMMA StepsAreClients ==
  ASSUME NEW i \in DOMAIN BuiltIn
  PROVE  BuiltIn[i] \in Client /\ i \in Nat /\ 1 <= i /\ i <= Len(BuiltIn)
OBVIOUS

\* c is registered with what every start-up gives it.
Ready(c) ==
  /\ clients[c] # Missing
  /\ DefaultUri[c] \subseteq clients[c].uris
  /\ DefaultScope \subseteq clients[c].scopes

\* Rows are not deleted and do not lose their defaults: what a start-up has
\* seen of them is still true when it writes.
SeenGrows ==
  \A p \in Process :
    boot[p].at = "write" /\ boot[p].seen # Missing =>
      LET c    == BuiltIn[boot[p].step]
          seen == boot[p].seen
      IN  /\ clients[c] # Missing
          /\ DefaultUri[c] \subseteq seen.uris =>
               DefaultUri[c] \subseteq clients[c].uris
          /\ DefaultScope \subseteq seen.scopes =>
               DefaultScope \subseteq clients[c].scopes

\* A start-up leaves the clients behind it ready.
BootedReady ==
  \A p \in Process :
    /\ boot[p] = Serving => \A i \in DOMAIN BuiltIn : Ready(BuiltIn[i])
    /\ boot[p].at \in {"load", "write"} =>
         \A i \in DOMAIN BuiltIn : i < boot[p].step => Ready(BuiltIn[i])

\* A start-up that holds a row has seen every settled address in it.
SettledSeen ==
  /\ \A cu \in settled : cu[2] # Legacy
  /\ \A p \in Process, cu \in settled :
       Holds(p, cu[1]) /\ boot[p].seen # Missing =>
         cu[2] \in boot[p].seen.uris

\* Where a start-up goes next is a state it can be in.
LEMMA AfterStepType ==
  ASSUME NEW i \in {0} \cup DOMAIN BuiltIn
  PROVE  /\ AfterStep(i) \in BootState
         /\ AfterStep(i) \in {Serving} \cup {Loading(j) : j \in DOMAIN BuiltIn}
         /\ AfterStep(i) = Serving => i = Len(BuiltIn)
         /\ \A j \in DOMAIN BuiltIn : AfterStep(i) = Loading(j) => j = i + 1
<1>1. CASE i = Len(BuiltIn)
  BY <1>1 DEF AfterStep, Serving, Loading, BootState
<1>2. CASE i # Len(BuiltIn)
  <2>1. i + 1 \in DOMAIN BuiltIn
    BY <1>2
  <2>2. AfterStep(i) = Loading(i + 1)
    BY <1>2 DEF AfterStep
  <2> QED  BY <2>1, <2>2 DEF Loading, Serving, BootState
<1> QED  BY <1>1, <1>2

LEMMA DefaultRowType ==
  ASSUME NEW c \in Client
  PROVE  DefaultRow(c) \in Row /\ DefaultRow(c) # Missing
<1>1. DefaultUri[c] \in SUBSET Uri
  OBVIOUS
<1>2. DefaultRow(c) \in Row
  BY <1>1 DEF Row, DefaultRow
<1> QED  BY <1>2

LEMMA RowTypes ==
  ASSUME NEW c \in Client, NEW row \in Row, NEW seen \in Row, NEW want \in Row
  PROVE  /\ Reconciled(c, row) \in Row
         /\ Updated(row, seen, want) \in Row
<1>1. DefaultUri[c] \in SUBSET Uri
  OBVIOUS
<1> QED  BY <1>1 DEF Row, Reconciled, Updated

LEMMA SettledType ==
  ASSUME settled \subseteq Client \X Uri, Settles
  PROVE  (settled \subseteq Client \X Uri)'
BY DEF Settles, Settled

LEMMA RegistryTypeStep ==
  ASSUME RegistryTypeOK, SeenGrows, [RegistryNext]_registryVars
  PROVE  RegistryTypeOK'
<1> USE DEF RegistryTypeOK
<1>1. ASSUME NEW p \in Process, Start(p)
      PROVE  RegistryTypeOK'
  BY <1>1, AfterStepType, SettledType DEF Start
<1>2. ASSUME NEW p \in Process, Load(p)
      PROVE  RegistryTypeOK'
  <2>1. boot[p].step \in DOMAIN BuiltIn
    BY <1>2 DEF Load, BootState, Down, Serving
  <2>2. clients[BuiltIn[boot[p].step]] \in Row \cup {Missing}
    BY <2>1, StepsAreClients
  <2>3. boot'[p] \in BootState
    BY <1>2, <2>1, <2>2 DEF Load, BootState
  <2> QED  BY <1>2, <2>3, SettledType DEF Load
<1>3. ASSUME NEW p \in Process, Write(p)
      PROVE  RegistryTypeOK'
  <2> DEFINE i == boot[p].step
             c == BuiltIn[i]
             seen == boot[p].seen
  <2>1. i \in DOMAIN BuiltIn /\ seen \in Row \cup {Missing} /\ c \in Client
    BY <1>3, StepsAreClients DEF Write, BootState, Down, Serving
  <2>2. seen # Missing => clients[c] # Missing
    BY <1>3 DEF Write, SeenGrows
  <2>3. AfterStep(i) \in BootState /\ Down \in BootState
    BY <2>1, AfterStepType DEF BootState
  <2>4. boot' \in [Process -> BootState] /\ crashes' = crashes
    BY <1>3, <2>3 DEF Write
  <2>5. clients' \in [Client -> Row \cup {Missing}]
    <3>1. CASE seen = Missing /\ clients[c] # Missing
      BY <1>3, <3>1 DEF Write
    <3>2. CASE seen = Missing /\ clients[c] = Missing
      <4>1. clients' = [clients EXCEPT ![c] = DefaultRow(c)]
        BY <1>3, <3>2 DEF Write
      <4> QED  BY <2>1, <4>1, DefaultRowType
    <3>3. CASE seen # Missing
      <4>1. clients' = [clients EXCEPT ![c] =
                          Updated(@, seen, Reconciled(c, seen))]
        BY <1>3, <3>3 DEF Write
      <4>2. Updated(clients[c], seen, Reconciled(c, seen)) \in Row
        BY <2>1, <2>2, <3>3, RowTypes
      <4> QED  BY <2>1, <4>1, <4>2
    <3> QED  BY <3>1, <3>2, <3>3
  <2>6. settled' \subseteq Client \X Uri
    BY <1>3, SettledType DEF Write
  <2> QED  BY <2>4, <2>5, <2>6
<1>4. ASSUME NEW p \in Process, Crash(p)
      PROVE  RegistryTypeOK'
  BY <1>4, SettledType DEF Crash, BootState
<1>5. ASSUME NEW new \in Creation, CreateClient(new[1], new[2])
      PROVE  RegistryTypeOK'
  BY <1>5, SettledType DEF CreateClient
<1>6. ASSUME NEW edit \in Edit, AddUri(edit[1], edit[2])
      PROVE  RegistryTypeOK'
  <2>1. edit[1] \in Client /\ edit[2] \in Uri
    BY <1>6
  <2>2. [clients[edit[1]] EXCEPT !.uris = @ \cup {edit[2]}] \in Row
    BY <1>6, <2>1 DEF AddUri, Row
  <2> QED  BY <1>6, <2>1, <2>2, SettledType DEF AddUri
<1>7. ASSUME NEW c \in Disabling, Disable(c)
      PROVE  RegistryTypeOK'
  <2>1. [clients[c] EXCEPT !.active = FALSE] \in Row
    BY <1>7 DEF Disable, Row
  <2> QED  BY <1>7, <2>1, SettledType DEF Disable
<1>8. CASE UNCHANGED registryVars
  BY <1>8 DEF registryVars
<1> QED  BY <1>1, <1>2, <1>3, <1>4, <1>5, <1>6, <1>7, <1>8 DEF RegistryNext

\* What a step may do to the row of c.
Grows(c) ==
  clients[c] # Missing =>
    /\ clients'[c] # Missing
    /\ DefaultUri[c] \subseteq clients[c].uris =>
         DefaultUri[c] \subseteq clients'[c].uris
    /\ DefaultScope \subseteq clients[c].scopes =>
         DefaultScope \subseteq clients'[c].scopes

\* What a write leaves: whatever was seen of the defaults or is put in place.
LEMMA UpdatedHasDefaults ==
  ASSUME NEW c \in Client, NEW stored \in Row, NEW seen \in Row,
         DefaultUri[c] \subseteq seen.uris => DefaultUri[c] \subseteq stored.uris,
         DefaultScope \subseteq seen.scopes => DefaultScope \subseteq stored.scopes
  PROVE  LET row == Updated(stored, seen, Reconciled(c, seen))
         IN  /\ row # Missing
             /\ DefaultUri[c] \subseteq row.uris
             /\ DefaultScope \subseteq row.scopes
<1> DEFINE row == Updated(stored, seen, Reconciled(c, seen))
<1>1. row \in Row
  BY RowTypes
<1>2. /\ DefaultUri[c] \subseteq Reconciled(c, seen).uris
      /\ DefaultScope \subseteq Reconciled(c, seen).scopes
  BY DEF Reconciled
<1>3. /\ row.uris \in {stored.uris, Reconciled(c, seen).uris}
      /\ row.uris = stored.uris => \/ Reconciled(c, seen).uris = seen.uris
                                  \/ row.uris = Reconciled(c, seen).uris
      /\ row.scopes \in {stored.scopes, Reconciled(c, seen).scopes}
      /\ row.scopes = stored.scopes =>
           \/ Reconciled(c, seen).scopes = seen.scopes
           \/ row.scopes = Reconciled(c, seen).scopes
  BY DEF Updated
<1> QED  BY <1>1, <1>2, <1>3

\* A write that does not fail leaves its client ready.
LEMMA WriteLeavesReady ==
  ASSUME RegistryTypeOK, SeenGrows, NEW p \in Process, Write(p),
         NEW c, c = BuiltIn[boot[p].step]
  PROVE  /\ c \in Client
         /\ \A d \in Client \ {c} : clients'[d] = clients[d]
         /\ boot'[p] # Down => Ready(c)'
         /\ boot'[p] = Down => clients' = clients
<1> DEFINE i == boot[p].step
           seen == boot[p].seen
<1>1. i \in DOMAIN BuiltIn /\ seen \in Row \cup {Missing} /\ c \in Client
  BY StepsAreClients DEF RegistryTypeOK, Write, BootState, Down, Serving
<1>2. AfterStep(i) # Down
  BY <1>1 DEF AfterStep, Down, Serving, Loading
<1>3. CASE seen = Missing /\ clients[c] # Missing
  BY <1>1, <1>3 DEF Write, RegistryTypeOK
<1>4. CASE seen = Missing /\ clients[c] = Missing
  <2>1. clients' = [clients EXCEPT ![c] = DefaultRow(c)] /\ boot'[p] = AfterStep(i)
    BY <1>4 DEF Write, RegistryTypeOK
  <2>2. clients'[c] = DefaultRow(c) /\ \A d \in Client \ {c} : clients'[d] = clients[d]
    BY <1>1, <2>1 DEF RegistryTypeOK
  <2>3. Ready(c)'
    BY <1>1, <2>2, DefaultRowType DEF Ready, DefaultRow
  <2> QED  BY <1>1, <1>2, <2>1, <2>2, <2>3
<1>5. CASE seen # Missing
  <2>1. /\ clients' = [clients EXCEPT ![c] = Updated(@, seen, Reconciled(c, seen))]
        /\ boot'[p] = AfterStep(i)
    BY <1>5 DEF Write, RegistryTypeOK
  <2>2. /\ clients'[c] = Updated(clients[c], seen, Reconciled(c, seen))
        /\ \A d \in Client \ {c} : clients'[d] = clients[d]
    BY <1>1, <2>1 DEF RegistryTypeOK
  <2>3. /\ clients[c] \in Row
        /\ DefaultUri[c] \subseteq seen.uris => DefaultUri[c] \subseteq clients[c].uris
        /\ DefaultScope \subseteq seen.scopes =>
             DefaultScope \subseteq clients[c].scopes
    BY <1>1, <1>5 DEF SeenGrows, Write, RegistryTypeOK
  <2>4. Ready(c)'
    BY <1>1, <1>5, <2>2, <2>3, UpdatedHasDefaults DEF Ready
  <2> QED  BY <1>1, <1>2, <2>1, <2>2, <2>4
<1> QED  BY <1>3, <1>4, <1>5

\* No step deletes a row or takes a default from it.
LEMMA RowsGrow ==
  ASSUME RegistryTypeOK, SeenGrows, [RegistryNext]_registryVars
  PROVE  \A c \in Client : Grows(c)
<1>1. ASSUME NEW p \in Process, Write(p)
      PROVE  \A c \in Client : Grows(c)
  <2> DEFINE c == BuiltIn[boot[p].step]
  <2>1. PICK d : d = c
    OBVIOUS
  <2>2. /\ \A e \in Client \ {d} : clients'[e] = clients[e]
        /\ Ready(d)' \/ clients' = clients
    BY <1>1, <2>1, WriteLeavesReady
  <2> QED  BY <2>2 DEF Grows, Ready
<1>2. ASSUME NEW new \in Creation, CreateClient(new[1], new[2])
      PROVE  \A c \in Client : Grows(c)
  BY <1>2 DEF CreateClient, RegistryTypeOK, Grows
<1>3. ASSUME NEW edit \in Edit, AddUri(edit[1], edit[2])
      PROVE  \A c \in Client : Grows(c)
  <2> DEFINE d == edit[1]
             row == [clients[d] EXCEPT !.uris = @ \cup {edit[2]}]
  <2>1. d \in Client /\ clients[d] \in Row /\ edit[2] \in Uri
    BY <1>3 DEF AddUri, RegistryTypeOK
  <2>2. /\ row \in Row
        /\ clients[d].uris \subseteq row.uris
        /\ row.scopes = clients[d].scopes
    BY <2>1 DEF Row
  <2>3. clients' = [clients EXCEPT ![d] = row]
    BY <1>3 DEF AddUri
  <2> QED  BY <2>1, <2>2, <2>3 DEF RegistryTypeOK, Grows
<1>4. ASSUME NEW d \in Disabling, Disable(d)
      PROVE  \A c \in Client : Grows(c)
  <2> DEFINE row == [clients[d] EXCEPT !.active = FALSE]
  <2>1. d \in Client /\ clients[d] \in Row
    BY <1>4 DEF Disable, RegistryTypeOK
  <2>2. /\ row \in Row
        /\ row.uris = clients[d].uris
        /\ row.scopes = clients[d].scopes
    BY <2>1 DEF Row
  <2>3. clients' = [clients EXCEPT ![d] = row]
    BY <1>4 DEF Disable
  <2> QED  BY <2>1, <2>2, <2>3 DEF RegistryTypeOK, Grows
<1>5. ASSUME UNCHANGED clients
      PROVE  \A c \in Client : Grows(c)
  BY <1>5 DEF Grows
<1> QED
  BY <1>1, <1>2, <1>3, <1>4, <1>5
  DEF RegistryNext, Start, Load, Crash, registryVars

\* Where a step may take a start-up.
LEMMA BootMoves ==
  ASSUME RegistryTypeOK, [RegistryNext]_registryVars, NEW p \in Process
  PROVE  \/ boot'[p] = boot[p]
         \/ boot'[p] = Down
         \/ boot[p] = Down /\ boot'[p] = AfterStep(0)
         \/ /\ Load(p) /\ clients' = clients
            /\ boot'[p] = [at |-> "write", step |-> boot[p].step,
                           seen |-> clients[BuiltIn[boot[p].step]]]
         \/ /\ Write(p)
            /\ boot'[p] = AfterStep(boot[p].step)
<1>1. ASSUME NEW q \in Process, Start(q)
      PROVE  boot'[p] = boot[p] \/ (boot[p] = Down /\ boot'[p] = AfterStep(0))
  BY <1>1 DEF Start, RegistryTypeOK
<1>2. ASSUME NEW q \in Process, Load(q)
      PROVE  \/ boot'[p] = boot[p]
             \/ /\ Load(p) /\ clients' = clients
                /\ boot'[p] = [at |-> "write", step |-> boot[p].step,
                               seen |-> clients[BuiltIn[boot[p].step]]]
  <2>1. CASE q = p
    BY <1>2, <2>1 DEF Load, RegistryTypeOK
  <2>2. CASE q # p
    BY <1>2, <2>2 DEF Load, RegistryTypeOK
  <2> QED  BY <2>1, <2>2
<1>3. ASSUME NEW q \in Process, Write(q)
      PROVE  \/ boot'[p] = boot[p]
             \/ boot'[p] = Down
             \/ Write(p) /\ boot'[p] = AfterStep(boot[p].step)
  <2>1. CASE q = p
    BY <1>3, <2>1 DEF Write, RegistryTypeOK
  <2>2. CASE q # p
    BY <1>3, <2>2 DEF Write, RegistryTypeOK
  <2> QED  BY <2>1, <2>2
<1>4. ASSUME NEW q \in Process, Crash(q)
      PROVE  boot'[p] \in {boot[p], Down}
  BY <1>4 DEF Crash, RegistryTypeOK
<1>5. ASSUME UNCHANGED boot
      PROVE  boot'[p] = boot[p]
  BY <1>5
<1> QED
  BY <1>1, <1>2, <1>3, <1>4, <1>5
  DEF RegistryNext, CreateClient, AddUri, Disable, registryVars

LEMMA SeenGrowsStep ==
  ASSUME RegistryTypeOK, SeenGrows, [RegistryNext]_registryVars
  PROVE  SeenGrows'
<1> SUFFICES ASSUME NEW p \in Process, boot'[p].at = "write", boot'[p].seen # Missing
             PROVE  LET c    == BuiltIn[boot'[p].step]
                        seen == boot'[p].seen
                    IN  /\ clients'[c] # Missing
                        /\ DefaultUri[c] \subseteq seen.uris =>
                             DefaultUri[c] \subseteq clients'[c].uris
                        /\ DefaultScope \subseteq seen.scopes =>
                             DefaultScope \subseteq clients'[c].scopes
  BY DEF SeenGrows
<1>1. CASE boot'[p] = boot[p]
  <2>1. boot[p].step \in DOMAIN BuiltIn
    BY <1>1 DEF RegistryTypeOK, BootState, Down, Serving
  <2>2. Grows(BuiltIn[boot[p].step])
    BY <2>1, RowsGrow, StepsAreClients
  <2> QED  BY <1>1, <2>2 DEF SeenGrows, Grows
<1>2. CASE boot'[p] = [at |-> "write", step |-> boot[p].step,
                       seen |-> clients[BuiltIn[boot[p].step]]] /\ clients' = clients
  BY <1>2
<1>3. boot'[p] # Down /\ boot'[p] # AfterStep(0) /\ boot'[p] # AfterStep(boot[p].step)
  BY DEF Down, AfterStep, Serving, Loading
<1> QED  BY <1>1, <1>2, <1>3, BootMoves

\* A client that is ready stays so.
LEMMA ReadyStays ==
  ASSUME NEW c \in Client, Grows(c), Ready(c)
  PROVE  Ready(c)'
BY DEF Grows, Ready

LEMMA BootedReadyStep ==
  ASSUME RegistryTypeOK, SeenGrows, BootedReady, [RegistryNext]_registryVars
  PROVE  BootedReady'
<1>1. ASSUME NEW i \in DOMAIN BuiltIn, Ready(BuiltIn[i])
      PROVE  Ready(BuiltIn[i])'
  BY <1>1, RowsGrow, ReadyStays, StepsAreClients
<1> SUFFICES ASSUME NEW p \in Process
             PROVE  /\ boot'[p] = Serving =>
                         \A i \in DOMAIN BuiltIn : Ready(BuiltIn[i])'
                    /\ boot'[p].at \in {"load", "write"} =>
                         \A i \in DOMAIN BuiltIn :
                           i < boot'[p].step => Ready(BuiltIn[i])'
  BY DEF BootedReady
<1>2. CASE boot'[p] = boot[p]
  BY <1>1, <1>2 DEF BootedReady
<1>3. CASE boot'[p] = Down
  BY <1>3 DEF Down, Serving
<1>4. CASE boot'[p] = AfterStep(0)
  BY <1>4, StepsAreClients DEF AfterStep, Serving, Loading
<1>5. CASE Load(p) /\ boot'[p] = [at |-> "write", step |-> boot[p].step,
                                  seen |-> clients[BuiltIn[boot[p].step]]]
  BY <1>1, <1>5 DEF BootedReady, Load, Serving
<1>6. CASE Write(p) /\ boot'[p] = AfterStep(boot[p].step)
  <2> DEFINE j == boot[p].step
  <2>1. j \in DOMAIN BuiltIn /\ boot[p].at = "write"
    BY <1>6 DEF Write, RegistryTypeOK, BootState, Down, Serving
  <2>2. PICK k : k = j
    OBVIOUS
  <2>3. Ready(BuiltIn[k])'
    <3>1. AfterStep(j) # Down
      BY DEF AfterStep, Serving, Loading, Down
    <3>2. PICK c : c = BuiltIn[k]
      OBVIOUS
    <3> QED  BY <1>6, <2>2, <3>1, <3>2, WriteLeavesReady
  <2>4. \A i \in DOMAIN BuiltIn : i < k + 1 => Ready(BuiltIn[i])'
    <3> SUFFICES ASSUME NEW i \in DOMAIN BuiltIn, i < k + 1
                 PROVE  Ready(BuiltIn[i])'
      OBVIOUS
    <3>1. i < k \/ i = k
      BY <2>1, <2>2
    <3> QED  BY <1>1, <2>1, <2>2, <2>3, <3>1 DEF BootedReady
  <2>5. CASE k = Len(BuiltIn)
    BY <1>6, <2>2, <2>4, <2>5, StepsAreClients DEF AfterStep, Serving
  <2>6. CASE k # Len(BuiltIn)
    BY <1>6, <2>2, <2>4, <2>6 DEF AfterStep, Serving, Loading
  <2> QED  BY <2>5, <2>6
<1> QED  BY <1>2, <1>3, <1>4, <1>5, <1>6, BootMoves

\* Every step of the registry records what is settled after it.
LEMMA SettledGrows ==
  ASSUME [RegistryNext]_registryVars, NEW cu \in settled'
  PROVE  cu \in settled \/ (Settles /\ cu \in Settled')
BY DEF RegistryNext, Start, Load, Write, Crash, CreateClient, AddUri, Disable,
       Settles, registryVars

\* A write keeps an address of the row that it has seen there.
LEMMA UpdatedKeeps ==
  ASSUME NEW c, NEW stored, NEW seen, NEW u,
         u # Legacy, u \in stored.uris, u \in seen.uris
  PROVE  u \in Updated(stored, seen, Reconciled(c, seen)).uris
BY DEF Updated, Reconciled

\* A settled address stays in its row.
LEMMA SettledKept ==
  ASSUME RegistryTypeOK, SeenGrows, SettledSeen, AddressesStay,
         [RegistryNext]_registryVars, NEW cu \in settled
  PROVE  Registered(cu[1], cu[2])'
<1> DEFINE c == cu[1]
           u == cu[2]
<1>1. /\ c \in Client /\ clients[c] \in Row /\ clients[c] # Missing
      /\ u \in clients[c].uris /\ u # Legacy
  BY DEF RegistryTypeOK, AddressesStay, Registered, SettledSeen
<1>2. ASSUME NEW p \in Process, Write(p)
      PROVE  Registered(c, u)'
  <2> DEFINE d == BuiltIn[boot[p].step]
             seen == boot[p].seen
  <2>1. d \in Client
    BY <1>2, StepsAreClients DEF RegistryTypeOK, Write, BootState, Down, Serving
  <2>2. CASE seen = Missing /\ clients[d] # Missing
    BY <1>1, <1>2, <2>2 DEF Write, Registered
  <2>3. CASE seen = Missing /\ clients[d] = Missing
    <3>1. clients' = [clients EXCEPT ![d] = DefaultRow(d)] /\ c # d
      BY <1>1, <1>2, <2>3 DEF Write
    <3> QED  BY <1>1, <2>1, <3>1 DEF Registered, RegistryTypeOK
  <2>4. CASE seen # Missing /\ c # d
    BY <1>1, <1>2, <2>1, <2>4 DEF Write, Registered, RegistryTypeOK
  <2>5. CASE seen # Missing /\ c = d
    <3>1. /\ clients' = [clients EXCEPT ![c] = Updated(@, seen, Reconciled(c, seen))]
          /\ boot[p].at = "write"
      BY <1>2, <2>5 DEF Write
    <3>2. u \in seen.uris
      BY <2>5, <3>1 DEF SettledSeen, Holds
    <3>3. seen \in Row
      BY <2>5, <3>1 DEF RegistryTypeOK, BootState, Down, Serving
    <3>4. clients'[c] = Updated(clients[c], seen, Reconciled(c, seen))
      BY <1>1, <3>1 DEF RegistryTypeOK
    <3>5. clients'[c] \in Row
      <4>1. Reconciled(c, seen) \in Row
        BY <1>1, <3>3, RowTypes
      <4>2. Updated(clients[c], seen, Reconciled(c, seen)) \in Row
        BY <1>1, <3>3, <4>1, RowTypes
      <4> QED  BY <3>4, <4>2
    <3>6. u \in clients'[c].uris
      BY <1>1, <3>2, <3>4, UpdatedKeeps
    <3> QED  BY <3>5, <3>6 DEF Registered
  <2> QED  BY <2>2, <2>3, <2>4, <2>5
<1>3. ASSUME NEW new \in Creation, CreateClient(new[1], new[2])
      PROVE  Registered(c, u)'
  BY <1>1, <1>3 DEF CreateClient, Registered, RegistryTypeOK
<1>4. ASSUME NEW edit \in Edit, AddUri(edit[1], edit[2])
      PROVE  Registered(c, u)'
  <2> DEFINE row == [clients[c] EXCEPT !.uris = @ \cup {edit[2]}]
  <2>1. row \in Row /\ u \in row.uris
    <3>1. edit[2] \in Uri
      OBVIOUS
    <3> QED  BY <1>1, <3>1 DEF Row
  <2>2. clients'[c] \in {clients[c], row}
    BY <1>1, <1>4 DEF AddUri, RegistryTypeOK
  <2> QED  BY <1>1, <2>1, <2>2 DEF Registered
<1>5. ASSUME NEW d \in Disabling, Disable(d)
      PROVE  Registered(c, u)'
  <2> DEFINE row == [clients[c] EXCEPT !.active = FALSE]
  <2>1. row \in Row /\ u \in row.uris
    BY <1>1 DEF Row
  <2>2. clients'[c] \in {clients[c], row}
    BY <1>1, <1>5 DEF Disable, RegistryTypeOK
  <2> QED  BY <1>1, <2>1, <2>2 DEF Registered
<1>6. ASSUME UNCHANGED clients
      PROVE  Registered(c, u)'
  BY <1>1, <1>6 DEF Registered
<1> QED
  BY <1>2, <1>3, <1>4, <1>5, <1>6
  DEF RegistryNext, Start, Load, Crash, registryVars

LEMMA AddressesStayStep ==
  ASSUME RegistryTypeOK, SeenGrows, SettledSeen, AddressesStay,
         [RegistryNext]_registryVars
  PROVE  AddressesStay'
<1> SUFFICES ASSUME NEW cu \in settled'
             PROVE  Registered(cu[1], cu[2])'
  BY DEF AddressesStay
<1>1. CASE cu \in settled
  BY <1>1, SettledKept
<1>2. CASE cu \in Settled'
  BY <1>2 DEF Settled
<1> QED  BY <1>1, <1>2, SettledGrows

LEMMA SettledSeenStep ==
  ASSUME RegistryTypeOK, SeenGrows, SettledSeen, AddressesStay,
         [RegistryNext]_registryVars
  PROVE  SettledSeen'
<1>1. ASSUME NEW cu \in settled'
      PROVE  cu[2] # Legacy
  BY SettledGrows DEF SettledSeen, Settled
<1>2. ASSUME NEW p \in Process, NEW cu \in settled',
             Holds(p, cu[1])', boot'[p].seen # Missing
      PROVE  cu[2] \in boot'[p].seen.uris
  <2>1. CASE cu \in Settled'
    BY <1>2, <2>1 DEF Settled
  <2>2. CASE cu \in settled
    <3>1. CASE boot'[p] = boot[p]
      BY <1>2, <2>2, <3>1 DEF SettledSeen, Holds
    <3>2. CASE boot'[p] = [at |-> "write", step |-> boot[p].step,
                           seen |-> clients[BuiltIn[boot[p].step]]]
      BY <1>2, <2>2, <3>2 DEF AddressesStay, Registered, Holds
    <3>3. /\ boot'[p] # Down
          /\ boot'[p] # AfterStep(0)
          /\ boot'[p] # AfterStep(boot[p].step)
      BY <1>2 DEF Holds, Down, AfterStep, Serving, Loading
    <3> QED  BY <3>1, <3>2, <3>3, BootMoves
  <2> QED  BY <2>1, <2>2, SettledGrows
<1> QED  BY <1>1, <1>2 DEF SettledSeen

\* The inductive invariant of the registry.
RegistryInv ==
  RegistryTypeOK /\ SeenGrows /\ BootedReady /\ SettledSeen /\ AddressesStay

LEMMA RegistryInitInv == ASSUME RegistryInit PROVE RegistryInv
<1>1. RegistryTypeOK
  <2>1. ASSUME NEW c \in Client
        PROVE  clients[c] \in Row \cup {Missing}
    BY DEF RegistryInit
  <2> QED  BY <2>1 DEF RegistryInit, RegistryTypeOK, BootState
<1>2. \A p \in Process : boot[p].at = "down" /\ boot[p] # Serving
  BY DEF RegistryInit, Down, Serving
<1>3. settled = {}
  BY DEF RegistryInit
<1> QED
  BY <1>1, <1>2, <1>3
  DEF RegistryInv, SeenGrows, BootedReady, SettledSeen, AddressesStay

LEMMA RegistryInvStep ==
  ASSUME RegistryInv, [RegistryNext]_registryVars
  PROVE  RegistryInv'
BY RegistryTypeStep, SeenGrowsStep, BootedReadyStep, SettledSeenStep,
   AddressesStayStep DEF RegistryInv

LEMMA ReadyWhenServing ==
  ASSUME RegistryInv
  PROVE  ServingMeansReady
BY DEF RegistryInv, BootedReady, Ready, ServingMeansReady, Up

(***************************************************************************)
(* The authorization-code flow.                                            *)
(***************************************************************************)

\* A flow's state is one FlowState, whose request is what its login asked for.
LEMMA FlowStates ==
  ASSUME TypeOK, NEW f \in Flow
  PROVE  /\ flow[f] \in FlowState
         /\ flow[f].at # "new" =>
              /\ flow[f].ask \in Asked
              /\ flow[f].at = "refused" \/
                   flow[f] = [at |-> flow[f].at, ask |-> flow[f].ask]
BY DEF TypeOK, FlowState, New

LEMMA StepType ==
  ASSUME TypeOK, NEW f \in Flow, flow[f].at # "new",
         NEW at \in {"authorize", "login", "select", "shown", "returned"},
         Step(f, at)
  PROVE  flow' \in [Flow -> FlowState]
<1>1. [at |-> at, ask |-> flow[f].ask] \in FlowState
  BY FlowStates DEF FlowState
<1> QED  BY <1>1 DEF Step, Goes, TypeOK

LEMMA TypeStep ==
  ASSUME TypeOK, SeenGrows, [Next]_vars
  PROVE  TypeOK'
<1>a. UNCHANGED registryVars => RegistryTypeOK'
  BY DEF TypeOK, registryVars, RegistryTypeOK
<1>1. ASSUME NEW u \in User \cup {NoUser}, SignedInAs(u)
      PROVE  TypeOK'
  BY <1>a, <1>1 DEF SignedInAs, TypeOK, Undecided
<1>2. ASSUME NEW f \in Flow, NEW r \in Login, Open(f, r)
      PROVE  TypeOK'
  <2>1. r \in Asked
    BY DEF Asked
  <2>2. [at |-> "authorize", ask |-> r] \in FlowState
    BY <2>1 DEF FlowState
  <2>3. flow' = [flow EXCEPT ![f] = [at |-> "authorize", ask |-> r]]
    BY <1>2 DEF Open, Goes
  <2>4. preset' \subseteq Flow
    BY <1>2 DEF Open, TypeOK
  <2> QED  BY <1>a, <1>2, <2>2, <2>3, <2>4 DEF Open, TypeOK
<1>3. ASSUME NEW f \in Flow, ToLogin(f) \/ FromLogin(f) \/ ToSelect(f) \/ SelectToLogin(f)
      PROVE  TypeOK'
  <2>1. flow' \in [Flow -> FlowState]
    BY <1>3, StepType
    DEF ToLogin, FromLogin, ToSelect, SelectToLogin, Authorizes
  <2> QED
    BY <1>a, <1>3, <2>1
    DEF ToLogin, FromLogin, ToSelect, SelectToLogin, TypeOK, historyVars
<1>4. ASSUME NEW f \in Flow, Refuse(f)
      PROVE  TypeOK'
  <2>1. flow[f].ask \in Asked
    BY <1>4, FlowStates DEF Refuse, Authorizes
  <2>2. Objection(flow[f].ask) \in {"client", "address", "disabled", "scope", "challenge"}
    BY <1>4 DEF Refuse, Objection, Misfit
  <2>3. [at |-> "refused", ask |-> flow[f].ask, why |-> Objection(flow[f].ask)]
          \in FlowState
    BY <2>1, <2>2 DEF FlowState
  <2> QED  BY <1>a, <1>4, <2>3 DEF Refuse, Goes, TypeOK, historyVars
<1>5. ASSUME NEW f \in Flow, IssueCode(f)
      PROVE  TypeOK'
  <2>1. flow' \in [Flow -> FlowState]
    BY <1>5, StepType DEF IssueCode, Authorizes
  <2>2. flow[f].ask \in Asked /\ account \in User
    BY <1>5, FlowStates DEF IssueCode, Authorizes, TypeOK
  <2>3. [flow |-> f, client |-> flow[f].ask.client, uri |-> flow[f].ask.uri,
         scopes |-> flow[f].ask.scopes, user |-> account] \in Code
    BY <2>2 DEF Code, Asked
  <2> QED  BY <1>a, <1>5, <2>1, <2>3 DEF IssueCode, TypeOK, historyVars
<1>6. ASSUME NEW f \in Flow, ShowAccount(f)
      PROVE  TypeOK'
  <2>1. flow' \in [Flow -> FlowState]
    BY <1>6, StepType DEF ShowAccount
  <2> QED  BY <1>a, <1>6, <2>1 DEF ShowAccount, TypeOK
<1>7. ASSUME NEW f \in Flow, ConfirmAccount(f)
      PROVE  TypeOK'
  <2>1. flow[f].ask \in Asked
    BY <1>7, FlowStates DEF ConfirmAccount
  <2>2. [flow[f].ask EXCEPT !.confirmed = TRUE] \in Asked
    BY <2>1 DEF Asked
  <2>3. [at |-> "authorize", ask |-> [flow[f].ask EXCEPT !.confirmed = TRUE]]
          \in FlowState
    BY <2>2 DEF FlowState
  <2> QED  BY <1>a, <1>7, <2>3 DEF ConfirmAccount, Goes, TypeOK, historyVars
<1>8. ASSUME NEW f \in Flow, SwitchAccount(f)
      PROVE  TypeOK'
  <2>1. flow' \in [Flow -> FlowState]
    BY <1>8, StepType DEF SwitchAccount
  <2> QED  BY <1>a, <1>8, <2>1 DEF SwitchAccount, TypeOK, Undecided
<1>9. ASSUME NEW f \in Flow, NEW k \in codes, Exchange(f, k)
      PROVE  TypeOK'
  <2>1. [to |-> f, code |-> k] \in [to : Flow, code : Code]
    BY DEF TypeOK
  <2> QED  BY <1>a, <1>9, <2>1 DEF Exchange, TypeOK, historyVars
<1>10. ASSUME NEW k \in codes, Expire(k)
       PROVE  TypeOK'
  BY <1>a, <1>10 DEF Expire, TypeOK, historyVars
<1>11. ASSUME RegistryNext, UNCHANGED flowVars
       PROVE  TypeOK'
  <2>1. RegistryTypeOK'
    BY <1>11, RegistryTypeStep DEF TypeOK
  <2> QED  BY <1>11, <2>1 DEF TypeOK, flowVars, historyVars
<1>12. CASE UNCHANGED vars
  BY <1>a, <1>12 DEF vars, flowVars, historyVars, TypeOK
<1> QED
  BY <1>1, <1>2, <1>3, <1>4, <1>5, <1>6, <1>7, <1>8, <1>9, <1>10, <1>11, <1>12
  DEF Next, FlowNext

\* A confirmed request has been through the select-account page, or came so.
ConfirmedWasShown ==
  \A f \in Flow :
    /\ flow[f].at = "shown" => shown[f] # NoUser
    /\ flow[f].at # "new" /\ flow[f].ask.confirmed =>
         f \in preset \/ shown[f] # NoUser

\* Until its answer, a flow that was shown an account is still under it or is
\* known to have been turned.
ShownIsCurrent == \A f \in Undecided : account = shown[f] \/ f \in turned

\* A flow that has its code or its tokens has come to its end.
FlowsReturned ==
  /\ \A k \in codes : flow[k.flow].at = "returned"
  /\ \A g \in grants : flow[g.to].at = "returned"

Selection == /\ ConfirmedWasShown /\ ShownIsCurrent /\ FlowsReturned
             /\ CodeForShownAccount /\ GrantForShownAccount

\* A flow that moves on without a code or a change of account.
LEMMA MoveKeepsSelection ==
  ASSUME TypeOK, Selection, NEW f \in Flow, NEW state,
         flow[f].at \notin {"returned", "refused"}, state.at # "new",
         flow' = [flow EXCEPT ![f] = state],
         preset \subseteq preset', UNCHANGED <<account, codes, grants, shown, turned>>,
         state.at # "shown",
         state.ask.confirmed => f \in preset' \/ shown[f] # NoUser
  PROVE  Selection'
<1>1. flow'[f] = state /\ \A g \in Flow \ {f} : flow'[g] = flow[g]
  BY DEF TypeOK
<1>2. ConfirmedWasShown'
  BY <1>1 DEF Selection, ConfirmedWasShown
<1>3. Undecided' \subseteq Undecided
  BY <1>1 DEF Undecided
<1>4. ShownIsCurrent'
  BY <1>3 DEF Selection, ShownIsCurrent
<1>5. FlowsReturned'
  BY <1>1 DEF Selection, FlowsReturned, TypeOK, Code
<1>6. CodeForShownAccount' /\ GrantForShownAccount'
  BY DEF Selection, CodeForShownAccount, GrantForShownAccount, ShownOr
<1> QED  BY <1>2, <1>4, <1>5, <1>6 DEF Selection

\* A change of account turns the flows that await their answer.
LEMMA TurnKeepsSelection ==
  ASSUME TypeOK, Selection, turned' = turned \cup Undecided,
         UNCHANGED <<codes, grants, preset, shown, flow>>
  PROVE  Selection'
<1>1. Undecided' = Undecided
  BY DEF Undecided
<1>2. ShownIsCurrent'
  BY <1>1 DEF ShownIsCurrent
<1> QED
  BY <1>2 DEF Selection, ConfirmedWasShown, FlowsReturned, CodeForShownAccount,
              GrantForShownAccount, ShownOr

LEMMA SelectionStep ==
  ASSUME TypeOK, Selection, [Next]_vars
  PROVE  Selection'
<1>1. ASSUME NEW u \in User \cup {NoUser}, SignedInAs(u)
      PROVE  Selection'
  BY <1>1, TurnKeepsSelection DEF SignedInAs
<1>2. ASSUME NEW f \in Flow, NEW r \in Login, Open(f, r)
      PROVE  Selection'
  <2> DEFINE state == [at |-> "authorize", ask |-> r]
  <2>1. flow' = [flow EXCEPT ![f] = state] /\ flow[f].at = "new"
    BY <1>2 DEF Open, Goes, New
  <2>2. /\ state.at = "authorize" /\ (state.ask.confirmed => f \in preset')
        /\ preset \subseteq preset'
    BY <1>2 DEF Open
  <2> HIDE DEF state
  <2> QED  BY <1>2, <2>1, <2>2, MoveKeepsSelection DEF Open
<1>3. ASSUME NEW f \in Flow, ToLogin(f) \/ FromLogin(f) \/ ToSelect(f) \/ SelectToLogin(f)
      PROVE  Selection'
  <2>1. PICK at \in {"authorize", "login", "select"} : Step(f, at)
    BY <1>3 DEF ToLogin, FromLogin, ToSelect, SelectToLogin
  <2>2. /\ flow[f].at \in {"authorize", "login", "select"}
        /\ UNCHANGED <<account, codes, grants, historyVars>>
    BY <1>3 DEF ToLogin, FromLogin, ToSelect, SelectToLogin, Authorizes, historyVars
  <2> DEFINE state == [at |-> at, ask |-> flow[f].ask]
  <2>3. flow' = [flow EXCEPT ![f] = state]
    BY <2>1 DEF Step, Goes
  <2>4. /\ state.at \notin {"new", "shown"}
        /\ state.ask.confirmed => f \in preset \/ shown[f] # NoUser
    BY <2>2 DEF Selection, ConfirmedWasShown
  <2> HIDE DEF state
  <2> QED  BY <2>2, <2>3, <2>4, MoveKeepsSelection DEF historyVars
<1>4. ASSUME NEW f \in Flow, Refuse(f)
      PROVE  Selection'
  <2> DEFINE state == [at |-> "refused", ask |-> flow[f].ask,
                       why |-> Objection(flow[f].ask)]
  <2>1. flow' = [flow EXCEPT ![f] = state] /\ flow[f].at = "authorize"
    BY <1>4 DEF Refuse, Goes, Authorizes
  <2>2. /\ state.at = "refused"
        /\ state.ask.confirmed => f \in preset \/ shown[f] # NoUser
    BY <2>1 DEF Selection, ConfirmedWasShown
  <2> HIDE DEF state
  <2> QED  BY <1>4, <2>1, <2>2, MoveKeepsSelection DEF Refuse, historyVars
<1>5. ASSUME NEW f \in Flow, IssueCode(f)
      PROVE  Selection'
  <2> DEFINE ask == flow[f].ask
             k == [flow |-> f, client |-> ask.client, uri |-> ask.uri,
                   scopes |-> ask.scopes, user |-> account]
  <2>1. /\ codes' = codes \cup {k} /\ flow[f].at = "authorize"
        /\ UNCHANGED <<account, grants, preset, shown, turned>>
    BY <1>5 DEF IssueCode, Authorizes, historyVars
  <2>2. /\ flow'[f] = [at |-> "returned", ask |-> ask]
        /\ \A g \in Flow \ {f} : flow'[g] = flow[g]
    BY <1>5 DEF IssueCode, Step, Goes, TypeOK
  <2>3. ConfirmedWasShown'
    BY <2>1, <2>2 DEF Selection, ConfirmedWasShown
  <2>4. Undecided' \subseteq Undecided
    BY <2>1, <2>2 DEF Undecided
  <2>5. ShownIsCurrent'
    BY <2>1, <2>4 DEF Selection, ShownIsCurrent
  <2>6. FlowsReturned'
    BY <2>1, <2>2 DEF Selection, FlowsReturned, TypeOK, Code
  <2>7. k.uri \in CustomUri => ShownOr(f, account)
    <3>1. k.uri \in CustomUri => ask.confirmed
      BY <1>5 DEF IssueCode, MustSelect
    <3>2. ask.confirmed => f \in preset \/ (shown[f] # NoUser /\ f \in Undecided)
      BY <2>1 DEF Selection, ConfirmedWasShown, Undecided
    <3> QED  BY <3>1, <3>2 DEF Selection, ShownIsCurrent, ShownOr
  <2>8. CodeForShownAccount' /\ GrantForShownAccount'
    BY <2>1, <2>7 DEF Selection, CodeForShownAccount, GrantForShownAccount, ShownOr
  <2> QED  BY <2>3, <2>5, <2>6, <2>8 DEF Selection
<1>6. ASSUME NEW f \in Flow, ShowAccount(f)
      PROVE  Selection'
  <2>1. /\ flow[f].at = "select" /\ account # NoUser
        /\ UNCHANGED <<account, codes, grants, preset>>
        /\ shown'[f] = account /\ turned' = turned \ {f}
        /\ \A g \in Flow \ {f} : shown'[g] = shown[g] /\ flow'[g] = flow[g]
        /\ flow'[f] = [at |-> "shown", ask |-> flow[f].ask]
    BY <1>6 DEF ShowAccount, Step, Goes, TypeOK
  <2>2. /\ \A k \in codes : k.flow \in Flow \ {f}
        /\ \A g \in grants : g.to \in Flow \ {f}
    BY <2>1 DEF Selection, FlowsReturned, TypeOK, Code
  <2>3. ConfirmedWasShown'
    BY <2>1 DEF Selection, ConfirmedWasShown
  <2>4. ShownIsCurrent'
    BY <2>1 DEF Selection, ShownIsCurrent, Undecided
  <2>5. FlowsReturned'
    BY <2>1, <2>2 DEF Selection, FlowsReturned
  <2>6. CodeForShownAccount' /\ GrantForShownAccount'
    BY <2>1, <2>2 DEF Selection, CodeForShownAccount, GrantForShownAccount, ShownOr
  <2> QED  BY <2>3, <2>4, <2>5, <2>6 DEF Selection
<1>7. ASSUME NEW f \in Flow, ConfirmAccount(f)
      PROVE  Selection'
  <2> DEFINE state == [at |-> "authorize",
                       ask |-> [flow[f].ask EXCEPT !.confirmed = TRUE]]
  <2>1. flow' = [flow EXCEPT ![f] = state] /\ flow[f].at = "shown"
    BY <1>7 DEF ConfirmAccount, Goes
  <2>2. state.at = "authorize" /\ shown[f] # NoUser
    BY <2>1 DEF Selection, ConfirmedWasShown
  <2> HIDE DEF state
  <2> QED  BY <1>7, <2>1, <2>2, MoveKeepsSelection DEF ConfirmAccount, historyVars
<1>8. ASSUME NEW f \in Flow, SwitchAccount(f)
      PROVE  Selection'
  <2>1. /\ flow[f].at = "shown" /\ turned' = turned \cup Undecided
        /\ UNCHANGED <<codes, grants, preset, shown>>
        /\ \A g \in Flow \ {f} : flow'[g] = flow[g]
        /\ flow'[f] = [at |-> "login", ask |-> flow[f].ask]
    BY <1>8 DEF SwitchAccount, Step, Goes, TypeOK
  <2>2. ConfirmedWasShown'
    BY <2>1 DEF Selection, ConfirmedWasShown
  <2>3. Undecided' \subseteq Undecided
    BY <2>1 DEF Undecided
  <2>4. ShownIsCurrent'
    BY <2>1, <2>3 DEF ShownIsCurrent
  <2>5. FlowsReturned'
    BY <2>1 DEF Selection, FlowsReturned, TypeOK, Code
  <2>6. CodeForShownAccount' /\ GrantForShownAccount'
    BY <2>1 DEF Selection, CodeForShownAccount, GrantForShownAccount, ShownOr
  <2> QED  BY <2>2, <2>4, <2>5, <2>6 DEF Selection
\* The verifier ties a code to the flow it was issued to.
<1>9. ASSUME NEW f \in Flow, NEW k \in codes, Exchange(f, k)
      PROVE  Selection'
  <2>1. /\ grants' = grants \cup {[to |-> f, code |-> k]}
        /\ k.flow = f /\ flow[f].at = "returned"
        /\ UNCHANGED <<account, flow, codes, preset, shown, turned>>
    BY <1>9 DEF Exchange, VerifierMatches, historyVars
  <2>2. k.uri \in CustomUri => ShownOr(f, k.user)
    BY <2>1 DEF Selection, CodeForShownAccount
  <2>3. FlowsReturned'
    BY <2>1 DEF Selection, FlowsReturned
  <2>4. CodeForShownAccount' /\ GrantForShownAccount'
    BY <2>1, <2>2 DEF Selection, CodeForShownAccount, GrantForShownAccount, ShownOr
  <2> QED
    BY <2>1, <2>3, <2>4 DEF Selection, ConfirmedWasShown, ShownIsCurrent, Undecided
<1>10. ASSUME UNCHANGED <<account, flow, codes, grants, historyVars>>
       PROVE  Selection'
  BY <1>10 DEF Selection, ConfirmedWasShown, ShownIsCurrent, Undecided, historyVars,
               FlowsReturned, CodeForShownAccount, GrantForShownAccount, ShownOr
<1> QED
  BY <1>1, <1>2, <1>3, <1>4, <1>5, <1>6, <1>7, <1>8, <1>9, <1>10
  DEF Next, FlowNext, Expire, flowVars, vars

\* A built-in client in order is refused its defaults only when disabled.
LEMMA WelcomeStep ==
  ASSUME TypeOK, ServingMeansReady, BuiltInWelcome, [Next]_vars
  PROVE  BuiltInWelcome'
<1>1. ASSUME NEW f \in Flow, Refuse(f)
      PROVE  BuiltInWelcome'
  <2> DEFINE ask == flow[f].ask
  <2>1. /\ flow'[f] = [at |-> "refused", ask |-> ask, why |-> Objection(ask)]
        /\ \A g \in Flow \ {f} : flow'[g] = flow[g]
    BY <1>1 DEF Refuse, Goes, TypeOK
  <2>2. ASSUME NEW i \in DOMAIN BuiltIn, BuiltIn[i] = ask.client,
               ask.uri \in DefaultUri[ask.client], ask.scopes \subseteq DefaultScope,
               ask.challenge
        PROVE  Objection(ask) = "disabled"
    <3>1. /\ clients[ask.client] # Missing
          /\ ask.uri \in clients[ask.client].uris
          /\ ask.scopes \subseteq clients[ask.client].scopes
      BY <1>1, <2>2 DEF Refuse, Authorizes, ServingMeansReady
    <3>2. Objection(ask) # "none"
      BY <1>1 DEF Refuse
    <3>3. Misfit(ask) \in {"disabled", "none"}
      BY <2>2, <3>1 DEF Misfit
    <3>4. Misfit(ask) = "none" => Objection(ask) = "none"
      BY <2>2, <3>1, Zenon DEF Objection
    <3>5. Misfit(ask) # "none" => Objection(ask) = Misfit(ask)
      BY <2>2, <3>1, Zenon DEF Objection
    <3> QED  BY <3>2, <3>3, <3>4, <3>5
  <2> HIDE DEF ask
  <2> QED  BY <2>1, <2>2 DEF BuiltInWelcome
<1>2. ASSUME NEW f \in Flow, NEW state, state.at # "refused",
             flow' = [flow EXCEPT ![f] = state]
      PROVE  BuiltInWelcome'
  <2>1. flow'[f] = state /\ \A g \in Flow \ {f} : flow'[g] = flow[g]
    BY <1>2 DEF TypeOK
  <2> QED  BY <1>2, <2>1 DEF BuiltInWelcome
<1>3. ASSUME NEW f \in Flow,
             NEW at \in {"authorize", "login", "select", "shown", "returned"},
             Step(f, at)
      PROVE  BuiltInWelcome'
  BY <1>2, <1>3 DEF Step, Goes
<1>4. ASSUME NEW f \in Flow, NEW r \in Login, Open(f, r)
      PROVE  BuiltInWelcome'
  BY <1>2, <1>4 DEF Open, Goes
<1>5. ASSUME NEW f \in Flow, ConfirmAccount(f)
      PROVE  BuiltInWelcome'
  BY <1>2, <1>5 DEF ConfirmAccount, Goes
<1>6. ASSUME UNCHANGED flow
      PROVE  BuiltInWelcome'
  BY <1>6 DEF BuiltInWelcome
<1> QED
  BY <1>1, <1>3, <1>4, <1>5, <1>6
  DEF Next, FlowNext, SignedInAs, ToLogin, FromLogin, ToSelect, IssueCode,
      ShowAccount, SelectToLogin, SwitchAccount, Exchange, Expire, flowVars, vars

(***************************************************************************)
(* The theorems.                                                           *)
(***************************************************************************)

IInv == RegistryInv /\ TypeOK /\ Selection /\ BuiltInWelcome

LEMMA InitInv == Init => IInv
<1> SUFFICES ASSUME Init PROVE IInv
  OBVIOUS
<1>1. RegistryInv
  BY RegistryInitInv DEF Init
<1>2. /\ codes = {} /\ grants = {} /\ expired = {} /\ preset = {} /\ turned = {}
      /\ account = NoUser
      /\ flow = [f \in Flow |-> New]
      /\ shown = [f \in Flow |-> NoUser]
  BY DEF Init
<1>3. TypeOK
  BY <1>1, <1>2 DEF TypeOK, RegistryInv, FlowState
<1>4. Selection
  BY <1>2 DEF Selection, ConfirmedWasShown, ShownIsCurrent, FlowsReturned,
              CodeForShownAccount, GrantForShownAccount, Undecided, New
<1>5. BuiltInWelcome
  BY <1>2 DEF BuiltInWelcome, New
<1> QED  BY <1>1, <1>3, <1>4, <1>5 DEF IInv

\* The flow's steps leave the registry alone.
LEMMA RegistrySteps == ASSUME [Next]_vars PROVE [RegistryNext]_registryVars
BY DEF Next, FlowNext, SignedInAs, Open, ToLogin, FromLogin, ToSelect, Refuse,
       IssueCode, ShowAccount, SelectToLogin, ConfirmAccount, SwitchAccount,
       Exchange, Expire, vars

LEMMA Inductive == Spec => []IInv
<1>1. IInv /\ [Next]_vars => IInv'
  <2> SUFFICES ASSUME IInv, [Next]_vars PROVE IInv'
    OBVIOUS
  <2>1. RegistryInv'
    BY RegistrySteps, RegistryInvStep DEF IInv
  <2>2. TypeOK'
    BY TypeStep DEF IInv, RegistryInv
  <2>3. Selection'
    BY SelectionStep DEF IInv
  <2>4. BuiltInWelcome'
    BY ReadyWhenServing, WelcomeStep DEF IInv
  <2> QED  BY <2>1, <2>2, <2>3, <2>4 DEF IInv
<1> QED  BY <1>1, InitInv, PTL DEF Spec

(* The registry's rows and every flow's state are well-formed.             *)
THEOREM TypeCorrect == Spec => []TypeOK
<1>1. IInv => TypeOK
  BY DEF IInv
<1> QED  BY <1>1, Inductive, PTL

(* No process serves before the built-in clients are in order, however     *)
(* many start-ups race for their rows (main.py lifespan).                  *)
THEOREM ServingIsReady == Spec => []ServingMeansReady
<1>1. IInv => ServingMeansReady
  BY ReadyWhenServing DEF IInv
<1> QED  BY <1>1, Inductive, PTL

(* An address that was in a row while no start-up held a copy of it stays  *)
(* there; one added between a start-up's read and its write need not       *)
(* (bootstrap_service.py).                                                 *)
THEOREM AddressesKept == Spec => []AddressesStay
<1>1. IInv => AddressesStay
  BY DEF IInv, RegistryInv
<1> QED  BY <1>1, Inductive, PTL

(* What may take an address from a row: the removal of the legacy one, or  *)
(* the write of a start-up that read the row before the address was in it  *)
(* (bootstrap_service.py writes the whole list back).                      *)
LostToStaleCopy(c, u) ==
  \/ u = Legacy
  \/ \E p \in Process : Write(p) /\ Holds(p, c) /\ u \notin boot[p].seen.uris

THEOREM AddressLeavesByStaleCopy ==
  Spec => [][\A c \in Client, u \in Uri :
               Registered(c, u) /\ ~Registered(c, u)' => LostToStaleCopy(c, u)]_vars
<1> DEFINE Lost == \A c \in Client, u \in Uri :
                     Registered(c, u) /\ ~Registered(c, u)' => LostToStaleCopy(c, u)
<1>1. ASSUME IInv, [Next]_vars PROVE Lost
  <2> SUFFICES ASSUME NEW c \in Client, NEW u \in Uri,
                      Registered(c, u), ~Registered(c, u)', u # Legacy
               PROVE  LostToStaleCopy(c, u)
    BY DEF LostToStaleCopy
  <2>1. /\ RegistryTypeOK /\ SeenGrows /\ [RegistryNext]_registryVars
        /\ clients[c] # Missing /\ u \in clients[c].uris /\ clients[c] \in Row
    BY <1>1, RegistrySteps DEF IInv, RegistryInv, Registered, RegistryTypeOK
  <2>2. ASSUME NEW p \in Process, Write(p)
        PROVE  Holds(p, c) /\ u \notin boot[p].seen.uris
    <3> DEFINE d == BuiltIn[boot[p].step]
               seen == boot[p].seen
    <3>1. /\ boot[p].step \in DOMAIN BuiltIn /\ d \in Client
          /\ seen \in Row \cup {Missing}
      BY <2>1, <2>2, StepsAreClients DEF RegistryTypeOK, Write, BootState, Down, Serving
    <3>2. c = d
      <4>1. PICK e : e = d
        OBVIOUS
      <4>2. \A x \in Client \ {e} : clients'[x] = clients[x]
        BY <2>1, <2>2, <4>1, WriteLeavesReady
      <4> QED  BY <2>1, <4>1, <4>2 DEF Registered
    <3>3. CASE seen = Missing
      <4>1. clients' = clients
        BY <2>1, <2>2, <3>2, <3>3 DEF Write
      <4> QED  BY <4>1 DEF Registered
    <3>4. CASE seen # Missing
      <4>1. clients' = [clients EXCEPT ![d] = Updated(@, seen, Reconciled(d, seen))]
        BY <2>2, <3>4 DEF Write
      <4>2. clients'[c] = Updated(clients[c], seen, Reconciled(c, seen))
        BY <2>1, <3>2, <4>1 DEF RegistryTypeOK
      <4>3. Updated(clients[c], seen, Reconciled(c, seen)) \in Row
        BY <2>1, <3>1, <3>4, RowTypes
      <4>4. u \notin Updated(clients[c], seen, Reconciled(c, seen)).uris
        BY <4>2, <4>3 DEF Registered
      <4>5. u \notin Reconciled(c, seen).uris
        BY <2>1, <4>4 DEF Updated
      <4>6. u \notin seen.uris
        BY <4>5 DEF Reconciled
      <4>7. Holds(p, c)
        BY <2>2, <3>2 DEF Holds, Write
      <4> QED  BY <4>6, <4>7
    <3> QED  BY <3>3, <3>4
  <2>3. ASSUME \A d \in Client : clients[d] # Missing =>
                 clients'[d] # Missing /\ clients[d].uris \subseteq clients'[d].uris
        PROVE  FALSE
    BY <2>1, <2>3 DEF Registered
  <2>4. ASSUME NEW edit \in Edit, AddUri(edit[1], edit[2])
        PROVE  FALSE
    <3> DEFINE row == [clients[edit[1]] EXCEPT !.uris = @ \cup {edit[2]}]
    <3>1. edit[1] \in Client /\ clients[edit[1]] \in Row /\ edit[2] \in Uri
      BY <2>1, <2>4 DEF AddUri, RegistryTypeOK
    <3>2. row \in Row /\ clients[edit[1]].uris \subseteq row.uris
      BY <3>1 DEF Row
    <3>3. clients' = [clients EXCEPT ![edit[1]] = row]
      BY <2>4 DEF AddUri
    <3> HIDE DEF row
    <3> QED  BY <2>1, <2>3, <3>1, <3>2, <3>3 DEF RegistryTypeOK
  <2>5. ASSUME NEW d \in Disabling, Disable(d)
        PROVE  FALSE
    <3> DEFINE row == [clients[d] EXCEPT !.active = FALSE]
    <3>1. row \in Row /\ row.uris = clients[d].uris
      BY <2>1, <2>5 DEF Disable, RegistryTypeOK, Row
    <3>2. clients' = [clients EXCEPT ![d] = row]
      BY <2>5 DEF Disable
    <3> HIDE DEF row
    <3> QED  BY <2>1, <2>3, <3>1, <3>2 DEF RegistryTypeOK
  <2>6. ASSUME NEW new \in Creation, CreateClient(new[1], new[2])
        PROVE  FALSE
    BY <2>1, <2>3, <2>6 DEF CreateClient, RegistryTypeOK
  <2>7. ASSUME UNCHANGED clients
        PROVE  FALSE
    BY <2>3, <2>7
  <2> QED
    BY <2>1, <2>2, <2>4, <2>5, <2>6, <2>7
    DEF RegistryNext, Start, Load, Crash, registryVars, LostToStaleCopy
<1>2. IInv /\ [Next]_vars => [Lost]_vars
  BY <1>1
<1> QED  BY <1>2, Inductive, PTL DEF Spec

(* A built-in client is refused its defaults only while it is disabled.    *)
THEOREM BuiltInServed == Spec => []BuiltInWelcome
<1>1. IInv => BuiltInWelcome
  BY DEF IInv
<1> QED  BY <1>1, Inductive, PTL

(* A native application's code is for the account its page showed, unless  *)
(* the request came with account_confirmed=1 or the account was changed    *)
(* after the page (routers/oidc.py authorize).                             *)
THEOREM CodeIsForShown == Spec => []CodeForShownAccount
<1>1. IInv => CodeForShownAccount
  BY DEF IInv, Selection
<1> QED  BY <1>1, Inductive, PTL

(* With the same exceptions, tokens are for the account shown to the login *)
(* they go to: PKCE keeps an application from taking one login's code for  *)
(* another's (exchange_authorization_code, _verify_pkce).                  *)
THEOREM GrantIsForShown == Spec => []GrantForShownAccount
<1>1. IInv => GrantForShownAccount
  BY DEF IInv, Selection
<1> QED  BY <1>1, Inductive, PTL
===============================================================================
