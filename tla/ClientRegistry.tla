---------------------------- MODULE ClientRegistry ----------------------------
(***************************************************************************)
(* The table auth_clients and everything that writes it: the start-up of   *)
(* every application process, which puts the built-in clients in order     *)
(* before it serves (main.py lifespan, bootstrap_service.py), the admin    *)
(* API, and an operator's SQL.                                             *)
(*                                                                         *)
(* A start-up reads a client's row, works out what it should be and, after *)
(* an await, inserts it or updates the columns that differ from what it    *)
(* read.  A column is a whole JSON list: an UPDATE overwrites what others  *)
(* have added to the list meanwhile.  Name, secret and pkce_required are   *)
(* left out: no request looks at them.                                     *)
(***************************************************************************)
EXTENDS Naturals, Sequences

CONSTANTS
  Process,      \* application processes
  Client,       \* values of client_id
  BuiltIn,      \* the built-in clients, in the order they are put in order
  Demo,         \* DEMO_CLIENT_ID
  Uri,          \* redirect addresses
  Scope,
  DefaultUri,   \* DEFAULT_REDIRECT_URIS and MINIKB_REDIRECT_URIS, by client
  DefaultScope, \* DEMO_ALLOWED_SCOPES = MINIKB_ALLOWED_SCOPES
  Legacy,       \* LEGACY_DEMO_REDIRECT_URI
  Missing,      \* no row
  Existing,     \* rows an earlier release may have left: (client, row)
  Creation,     \* what POST /admin/clients is asked for: (client, row)
  Edit,         \* addresses the operator may add: (client, address)
  Disabling,    \* clients the operator may disable
  MaxCrashes    \* bound on the crashes of processes

ASSUME BuiltInAssumption == BuiltIn \in Seq(Client)
ASSUME DefaultAssumption ==
  /\ DefaultUri \in [Client -> SUBSET Uri]
  /\ DefaultScope \subseteq Scope
  /\ \A c \in Client : Legacy \notin DefaultUri[c]
ASSUME CrashAssumption == MaxCrashes \in Nat

Row == [uris : SUBSET Uri, scopes : SUBSET Scope, active : BOOLEAN]

ASSUME MissingAssumption == Missing \notin Row

ASSUME InputAssumption ==
  /\ Existing \subseteq Client \X Row
  /\ Creation \subseteq Client \X Row
  /\ Edit \subseteq Client \X Uri
  /\ Disabling \subseteq Client

VARIABLES
  clients,   \* auth_clients: client_id -> row
  boot,      \* how far each process's start-up is
  crashes,   \* crashes so far
  settled    \* history: addresses that were in a row nobody was working on

registryVars == <<clients, boot, crashes, settled>>

Down == [at |-> "down"]
Serving == [at |-> "serving"]
Loading(i) == [at |-> "load", step |-> i]

BootState ==
  {Down, Serving}
  \cup [at : {"load"}, step : DOMAIN BuiltIn]
  \cup [at : {"write"}, step : DOMAIN BuiltIn, seen : Row \cup {Missing}]

RegistryTypeOK ==
  /\ clients \in [Client -> Row \cup {Missing}]
  /\ boot \in [Process -> BootState]
  /\ crashes \in 0..MaxCrashes
  /\ settled \subseteq Client \X Uri

\* The table is empty, or holds what an earlier release has made of it.
RegistryInit ==
  /\ clients \in [Client -> {e[2] : e \in Existing} \cup {Missing}]
  /\ \A c \in Client : clients[c] = Missing \/ <<c, clients[c]>> \in Existing
  /\ boot = [p \in Process |-> Down]
  /\ crashes = 0
  /\ settled = {}

-----------------------------------------------------------------------------
Registered(c, u) == clients[c] # Missing /\ u \in clients[c].uris

\* p's start-up holds a copy of c's row.
Holds(p, c) == boot[p].at = "write" /\ BuiltIn[boot[p].step] = c

(* The legacy address is nobody's to keep: start-up removes it on purpose. *)
Settled ==
  {cu \in Client \X (Uri \ {Legacy}) :
     Registered(cu[1], cu[2]) /\ \A p \in Process : ~Holds(p, cu[1])}

Settles == settled' = settled \cup Settled'

\* Variant of Reconciled: the defaults replace what the row holds.
ReconciledToDefaults(c, row) ==
  [uris |-> DefaultUri[c], scopes |-> DefaultScope, active |-> TRUE]

\* What ensure_demo_oauth_client and ensure_minikb_oauth_client make of a row.
Reconciled(c, row) ==
  [uris   |-> (IF c = Demo THEN row.uris \ {Legacy} ELSE row.uris)
                \cup DefaultUri[c],
   scopes |-> row.scopes \cup DefaultScope,
   active |-> TRUE]

DefaultRow(c) == [uris |-> DefaultUri[c], scopes |-> DefaultScope, active |-> TRUE]

\* The UPDATE names the columns of `want` that differ from `seen`.
Updated(stored, seen, want) ==
  [uris   |-> IF want.uris = seen.uris THEN stored.uris ELSE want.uris,
   scopes |-> IF want.scopes = seen.scopes THEN stored.scopes ELSE want.scopes,
   active |-> IF want.active = seen.active THEN stored.active ELSE want.active]

\* Variant of AfterStep: the last step is taken for the one before the last.
AfterStepPastEnd(i) == IF i > Len(BuiltIn) THEN Serving ELSE Loading(i + 1)

\* Variant of AfterStep: only the first client is put in order.
AfterStepFirstOnly(i) == IF i = 0 THEN Loading(1) ELSE Serving

AfterStep(i) == IF i = Len(BuiltIn) THEN Serving ELSE Loading(i + 1)

\* The container is restarted (restart: unless-stopped); the database answers.
Start(p) ==
  /\ boot[p] = Down
  /\ boot' = [boot EXCEPT ![p] = AfterStep(0)]
  /\ UNCHANGED <<clients, crashes>>
  /\ Settles

\* Variant of Load: the row is looked up under a name nobody has.
LoadNothing(p) ==
  /\ boot[p].at = "load"
  /\ boot' = [boot EXCEPT ![p] =
                [at |-> "write", step |-> boot[p].step, seen |-> Missing]]
  /\ UNCHANGED <<clients, crashes>>
  /\ Settles

Load(p) ==
  /\ boot[p].at = "load"
  /\ LET i == boot[p].step
     IN  boot' = [boot EXCEPT ![p] =
                    [at |-> "write", step |-> i, seen |-> clients[BuiltIn[i]]]]
  /\ UNCHANGED <<clients, crashes>>
  /\ Settles

\* An insert that meets the primary key of another's fails the start-up, and
\* the process exits.
Write(p) ==
  /\ boot[p].at = "write"
  /\ LET i    == boot[p].step
         c    == BuiltIn[i]
         seen == boot[p].seen
     IN  IF seen = Missing /\ clients[c] # Missing
         THEN boot' = [boot EXCEPT ![p] = Down] /\ UNCHANGED clients
         ELSE /\ boot' = [boot EXCEPT ![p] = AfterStep(i)]
              /\ clients' = [clients EXCEPT ![c] =
                   IF seen = Missing THEN DefaultRow(c)
                   ELSE Updated(@, seen, Reconciled(c, seen))]
  /\ UNCHANGED crashes
  /\ Settles

\* At any moment; what was not committed is rolled back.
Crash(p) ==
  /\ boot[p] # Down
  /\ crashes < MaxCrashes
  /\ boot' = [boot EXCEPT ![p] = Down]
  /\ crashes' = crashes + 1
  /\ UNCHANGED clients
  /\ Settles

\* Variant of Up: requests are taken while the start-up is still running.
UpWhileStarting == \E p \in Process : boot[p] # Down

Up == \E p \in Process : boot[p] = Serving

\* create_auth_client; the id of an existing client is answered 500.
CreateClient(c, row) ==
  /\ Up
  /\ clients[c] = Missing
  /\ clients' = [clients EXCEPT ![c] = row]
  /\ UNCHANGED <<boot, crashes>>
  /\ Settles

(* The operator's SQL, for which the repository has no endpoint.           *)

AddUri(c, u) ==
  /\ clients[c] # Missing
  /\ u \notin clients[c].uris
  /\ clients' = [clients EXCEPT ![c].uris = @ \cup {u}]
  /\ UNCHANGED <<boot, crashes>>
  /\ Settles

Disable(c) ==
  /\ clients[c] # Missing
  /\ clients[c].active
  /\ clients' = [clients EXCEPT ![c].active = FALSE]
  /\ UNCHANGED <<boot, crashes>>
  /\ Settles

Boots(p) == Start(p) \/ Load(p) \/ Write(p)

RegistryNext ==
  \/ \E p \in Process : Start(p)
  \/ \E p \in Process : Load(p)
  \/ \E p \in Process : Write(p)
  \/ \E p \in Process : Crash(p)
  \/ \E new \in Creation : CreateClient(new[1], new[2])
  \/ \E edit \in Edit : AddUri(edit[1], edit[2])
  \/ \E c \in Disabling : Disable(c)

RegistrySpec == RegistryInit /\ [][RegistryNext]_registryVars

(* A process that is down is restarted, and a start-up does not hang: the  *)
(* database answers.                                                       *)
BootFairness == \A p \in Process : WF_registryVars(Boots(p))

FairRegistrySpec == RegistrySpec /\ BootFairness

-----------------------------------------------------------------------------
(* Properties.                                                             *)

(* ServingMeansReady: while a process serves, every built-in client is     *)
(* registered with all its default addresses and scopes, however many      *)
(* start-ups race to insert or update it (main.py lifespan).               *)
ServingMeansReady ==
  Up => \A i \in DOMAIN BuiltIn :
          LET c == BuiltIn[i]
          IN  /\ clients[c] # Missing
              /\ DefaultUri[c] \subseteq clients[c].uris
              /\ DefaultScope \subseteq clients[c].scopes

(* AddressesStay: an address that was once in a row no start-up was        *)
(* working on stays there through every later restart: only an address     *)
(* added between a start-up's read and its write can be lost               *)
(* (bootstrap_service merges, it does not replace).                        *)
AddressesStay == \A cu \in settled : Registered(cu[1], cu[2])

(* EveryProcessServes: once crashes stop, every process gets to serve,     *)
(* although a lost race to insert a client makes its start-up fail.        *)
EveryProcessServes == \A p \in Process : <>[](boot[p] = Serving)
===============================================================================
