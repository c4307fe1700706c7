# A formal model of mini-auth

mini-auth is a FastAPI service on PostgreSQL that signs users in (password,
e-mailed code, GitHub, Google), issues access and refresh tokens, and acts as an
OAuth/OIDC provider for other applications (authorization code with PKCE, device
flow). This directory holds TLA+ modules of its state and handlers, TLC
configurations that check small instances, and TLAPS proofs about the core.

Paths below are relative to the repository; `services/` stands for
`app/services/`.

## 1. Inventory

| Part | State it keeps | Operations | What makes it correct |
|---|---|---|---|
| sessions and refresh tokens (`services/auth_service.py`) | `auth_sessions`, `refresh_tokens` | `issue_tokens` (end of every login), `refresh_tokens`, `logout` | a token, once refused, stays refused; rotation chains stay inside one session; a session outlives its tokens |
| OAuth consents (`services/consent_service.py`) | `oauth_consents` | `upsert_oauth_consent`, `revoke_oauth_consent` (and every session of the application) | no application session without a consent row; a revoked consent leaves no session |
| security center (`services/security_service.py`) | reads the tables above | list sessions and operations, revoke a device, revoke an application | revoking a device leaves only the caller; every target belongs to the user |
| audit log (`services/audit_service.py`) | `audit_logs` | one insert in the transaction of the change it describes | every revocation is explained, and no row tells of one that did not happen |
| device flow (`services/oidc_service.py`) | `device_authorization_requests` | start, confirm (approve, deny), poll | tokens only for a user who approved; a code is spent once; the device stops polling |
| authorization code (`services/oidc_service.py`, `routers/oidc.py`) | none: the code is a signed JWT | authorize, exchange | PKCE, redirect and client bound to the code; however often it is exchanged, the tokens are for the account that was shown |
| e-mail code (`services/email_auth_service.py`) | `email_verification_codes` | send, verify | sending and guessing limits; a used code is used up |
| external identities (`services/external_*`, providers) | `external_identities`, signed state in a cookie | begin, callback | one identity, one account; concurrent callbacks agree |
| OAuth clients (`services/admin_service.py`, `bootstrap_service.py`, `main.py`) | `auth_clients` | register; reconcile the built-in clients at start-up | no process serves before they are in order; start-up loses no address that was there before |
| browser session (`routers/auth.py`, `routers/web.py`, `deps.py`, `authClient.ts`) | cookies, and the tokens in them | sign in, refresh on a 401, sign out | tabs that refresh together do not sign each other out; the jar is that of the last login |
| select-account page (`SelectAccountPage.tsx`) | the request it continues | show the account, confirm, switch | a native application gets a code for the account that was shown |
| login, device and security pages, `auth-rn` | browser or application storage | presentation over the endpoints | - |
| digest, notifications, request metadata, migrations, deployment | - | I/O, formatting | - |

**How they interact.** Every login path ends in `issue_tokens`. The token
endpoint writes the consent, the session, its token and the audit row in one
transaction; the device endpoint marks its code in that same transaction. The
security center calls the consent service. The authorize endpoint reads the client
rows that every process puts in order before it serves. There are no calls between
processes other than to the database, the mail provider and the identity
providers. Whatever two requests share, they share through rows; what two tabs
share, they share through the cookie jar.

**What is hard.** One request is one `AsyncSession` in a READ COMMITTED
transaction (`app/database.py`), and every `await` lets other requests run. No
`SELECT` in the code takes a row lock, and most `UPDATE`s do not repeat the
condition they were decided on. So the difficulties are: decisions on stale
rows; two requests that both pass a check; expiries that slide while other
requests act on them; rows written by a request that was overtaken by a
revocation; a transaction that fails half-way; a response that is lost after its
commit. `PROJECT.json` lists each at its line under "hazards".

## 2. Modules

| Module | Models |
|---|---|
| `TokenLedger` | the abstract promise about tokens: each belongs to one session, is spendable from its issue until it is rotated, closed or lapses, and never again |
| `Sessions` | `auth_sessions`, `refresh_tokens`, `oauth_consents`, `audit_logs` and every request that writes them; implements `TokenLedger` |
| `SecurityCenter` | the device and application lists over `Sessions`, and history variables that tell which requests were overtaken |
| `Browser` | one browser's cookies, its tabs, refresh, sign-out and every login that fills the jar, over `TokenLedger` |
| `DeviceFlow` | `device_authorization_requests`, the users who decide, the device that polls |
| `EmailCode` | `email_verification_codes` and its three limits |
| `IdentityDirectory` | the abstract promise about provider logins: a subject is bound once, to an account whose address was vouched for, and every login of it is into that account |
| `ExternalIdentity` | `user_identities` and the callbacks that bind an identity to an account; implements `IdentityDirectory` |
| `ClientRegistry` | `auth_clients`: start-up of several processes, the admin API, an operator's edits |
| `AuthorizationServer` | authorize, account selection, the sign-in detour and the code exchange, over `ClientRegistry` |
| `TokenLedgerProofs`, `SessionsProofs`, `SecurityCenterProofs`, `DeviceFlowProofs`, `EmailCodeProofs`, `ExternalIdentityProofs`, `AuthorizationServerProofs`, `BrowserProofs` | theorems about the module each is named after (`AuthorizationServerProofs` also about `ClientRegistry`) |
| `MC*` | symmetry sets and constants of the small instances; the `.cfg` files give the values |

**Composition.** `SecurityCenter` extends `Sessions` and adds `Records` to each of its
steps, so every property there is about all the requests at once.
`AuthorizationServer` extends `ClientRegistry`: its steps leave the registry alone and
the registry's steps leave the flows alone, but the outcome of authorize depends on
rows a start-up may be rewriting. `Browser` extends `TokenLedger` and uses its actions
`Grant`, `Rotate`, `Close` as the server. That this is enough of a server is what
`ImplementsLedger` (checked and proved for `Sessions`) says: whatever the tables do,
tokens change only as the ledger allows, which includes rotating a token that
another tab has spent since it was looked up (section 5, item 1). That `Browser` in turn
asks nothing of the server the ledger would not do is `KeepsLedger`.

### How a handler becomes actions

A handler is split where its transaction is: a *load* step, which takes the
early returns and keeps in `req[p]` what was read, and a *commit* step, which
makes all its writes from that copy. Between the two any other worker may commit.
`Abort` ends a request without effect at any moment in between: a crash, a lost
connection, a constraint violation, a database deadlock. A refused request has
no step, because it changes nothing.

Why the writes may be one step although they are several statements:

- Whoever changes a session's tokens first updates the session's row and holds
  its lock until the commit (`refresh_tokens` flushes the session, `logout`,
  `revoke_security_session` and `revoke_oauth_consent` update sessions before
  tokens). Two such requests on one session are serialised.
- Whoever opens an application session first inserts or updates the consent's
  row, and `revoke_oauth_consent` writes that row first as well. So an exchange
  and a revocation of the same consent are serialised too, and
  `revoke_oauth_consent` finds the sessions of every exchange that committed
  before it got the row. Its load step is the first `SELECT`; the selection of
  sessions belongs to the commit.
- The exchange of a device code updates its row before anything else; a second
  exchange waits for that update and then repeats it.
- `revoke_security_session` reads twice, the seed and then the candidates, so it
  has two load steps (`RevokeSeed`, `RevokeTargets`). SQLAlchemy's identity map
  keeps the seed's name as first read, and the model does as well.
- SQLAlchemy writes only the columns that changed. A refresh therefore cannot
  bring a revoked session back, and a wrong guess cannot reopen a consumed code
  (variants of `TouchSession` and `Guessed` show the difference).

A response is a step of its own only in `Browser`, where what happens between a
commit and its answer matters. A crash of the service matters to more than one
request only in `ClientRegistry`; elsewhere it is `Abort`.

### Correspondence, `Sessions`

| Action | Code |
|---|---|
| `Login` | `issue_tokens` without a client: register, password, demo, e-mail code, GitHub, Google |
| `RefreshLoad`, `RefreshCommit` | `_load_refresh_bundle`, `refresh_tokens`, `issue_tokens_with_rotation` |
| `LogoutLoad`, `LogoutCommit` | `logout` |
| `RevokeSeed`, `RevokeTargets`, `RevokeCommit` | `revoke_security_session` |
| `ExchangeLoad`, `ExchangeCommit` | `upsert_oauth_consent` and `issue_tokens` with a client (authorization or device code) |
| `UnconsentLoad`, `UnconsentCommit` | `revoke_oauth_consent` |

A row keeps what a decision depends on: owner, client, display name, revoked,
expiry. `Name` stands for what `_display_name` makes of label and user agent; a
refresh may change it. Audit rows form a set: two identical rows, as two
overlapping logouts write, are one.

`SecurityCenter` adds no action. `Snapshot` is `build_security_snapshot` with the
deduplication by name (`_dedupe_devices_by_name`), `Applications` is
`list_authorized_applications`. History: `overtaken` holds the workers during whose request
another one has changed sessions, tokens or consents in any way, `late` the rows such
workers inserted, `survivors` the sessions opened by an exchange that had read its consent
active and found it revoked, `caller` the session a revocation came from. A session hidden behind the caller's own name is on
no page and cannot be revoked from there; that is how the page is designed, and
`RevokedDeviceLeavesPage` speaks of what the page shows.

`DeviceFlow`: `Start`, `ConfirmLoad` and `ConfirmCommit`, `Poll` (which answers
at once where nothing is written), `ExchangeCommit`, `ExpireCommit`. History
variables: `answer` (what the device was told last), `grants` (how many token sets a
code yielded), `grantees` (in whose names), `approvals`. The writes of a grant to the other tables are `Sessions`' `ExchangeCommit`.

`EmailCode`: `StartCount`, `StartCheck`, `StartCommit` (two reads, then insert,
mail and commit; a failing mail provider is `Abort`), `VerifyLoad`,
`VerifyWrong`, `VerifyRight`, `VerifyExpired`. The order of codes sent at the
same instant is open, as in the query. The login that follows is `Sessions`'
`Login`. `contended` records the addresses, ips and codes on which two requests
have overlapped: the limits are claimed for everything else.

`ExternalIdentity`: `Exchange` (the provider's answer, through either adapter),
`LookUp`, `FindUser`, `LinkCommit`, `CreateCommit`, `CreateConflict`, `Issue`. Every
`SELECT` is a step; the inserts of one transaction are one step with its commit,
because an insert that meets an uncommitted row of the same key waits for the other
transaction to end. An account is named by its e-mail, which is unique and never
updated. `claims` is the provider's side and may change at any moment; `Register`
stands for accounts made elsewhere. History: `registered`, `proven` (addresses providers
vouched for), `logins`, and `crashes`, the identities that were bound when a callback of
theirs died in `CreateConflict`. The last part of `resolve_external_identity`,
which looks the user up by e-mail after a conflict, is not reached: the only
constraint its `try` can meet is the one on the identity (`union_id` is never set).

`Browser`: `AskRefresh`, `LoadRefresh`, `CommitRefresh`, `FinishRefresh`
(`getCurrentUser` after a 401, the refresh endpoint, the answer), the same three for
sign-out (`GET /logout`), `ScriptLogin` and `FinishScriptLogin` (e-mail code and demo,
whose tokens `setSessionCookies` stores), `StartProvider`, `ReturnAccepted`,
`ReturnRejected`, `ProviderRefuses`, `CommitProvider`, `NativeRefused`,
`FinishProvider`, `FinishRejected` (the two provider routers with the context of
`external_auth_state.py`), `Lose` (an answer that never arrives), `RevokedElsewhere`,
`Tick`. A cookie remembers whether it is `HttpOnly`. History: `latest`, the session of
the last login that finished; `muddled`, requests that set session cookies have
overlapped; `shadowed`, a script met an `HttpOnly` cookie; `lost`; `crossed`, two logins
through one provider met. Expiry of a session on the server and its revocation are
both `RevokedElsewhere`: the jar cannot tell them apart. Passwords have no page. The 401
and the refresh that follows it are one step, `AskRefresh`: a page overtaken between the two
by another tab's answer, which then refreshes with a jar already renewed, is left out.

`ClientRegistry`: `Start`, `Load`, `Write` (`lifespan` and the two `ensure_*_client`
functions, one client after the other), `Crash`, `CreateClient` (the admin endpoint),
`AddUri` and `Disable`. The last two are SQL of the operator: the code reads
`is_active` and a list of addresses that may have grown, and has no endpoint for
either. `Updated` writes only columns that differ from the copy, as SQLAlchemy does,
and a JSON list is one column. History: `settled`, addresses that were in a row no
start-up was working on.

`AuthorizationServer`: `Open` (any request of `Login`: with a challenge or without, and
with `account_confirmed=1` or without, which authorize takes from whatever address it is
called by), the outcomes `ToLogin`, `ToSelect`, `Refuse`,
`IssueCode` of `GET /oauth/authorize` in the order of its checks, `FromLogin`, the
select-account page (`ShowAccount`, `SelectToLogin`, `ConfirmAccount`,
`SwitchAccount`), `SignedInAs` (another window), `Exchange`, `Expire`. A code is a
record with the claims of the JWT that are compared. The PKCE verifier is named by the
flow that made it. Requests have `response_type=code` and the scope `openid`; the other two
refusals of authorize are not followed. The exchange does not look at scopes again, and neither does the
model. What it writes is `Sessions`' `ExchangeCommit`. History: `grants`, `shown`,
`preset` (the request came confirmed), `turned` (the browser changed accounts after the page
was shown).

## 3. Runs

| Run | Instance | Question |
|---|---|---|
| `sessions_race` | 2 sessions, 4 tokens, 2 requests, clock to 2, TTL 1 | do the tokens of a session stay one tree of rotations, with no more successors than requests overlap, and do expiries and the ledger survive, across expiry? |
| `security_page` | 3 sessions, 3 tokens, 2 requests, clock to 1 | is the audit log complete and true; does a second successor, or a device left on the page, take a request the tables changed under, and an unlisted session an exchange whose consent was revoked? |
| `sessions_rotation` | 1 session, 3 tokens, 2 requests | **violated**: one token, two successors |
| `sessions_batch` | 4 sessions under one name | **violated**: the audit row of three targets does not fit its column |
| `device_race` | 1 code, 2 users, 2 requests, lifetime 1, clock to 2, fairness | approvals, denials, double polls, expiry, lost token answers; grants bounded by the requests in flight; every device is answered |
| `device_double` | 1 code, 1 user, 2 requests | **violated**: two token sets for one code |
| `email_race` | 3 codes, 1 address, 2 ips, 2 requests, 2 attempts, limits 2 and 1 | limits without overlap, a used code with overlap |
| `email_guess` | 1 code, 2 attempts, 2 requests | **violated**: three wrong guesses |
| `identity_race` | 1 identity, 2 e-mails, 3 callbacks, fairness | do racing callbacks implement the directory, leave no orphan, and sign in whoever keeps trying? |
| `browser_tabs` | 2 tabs, 2 sessions, 3 tokens, 2 providers, 2 addresses, clock to 1 | does the jar stay alive, of one session, and the last login's, when tabs refresh, sign in and sign out across one another? |
| `authserver_code` | 2 processes, 2 built-in clients and 1 other, 2 logins out of 4 requests, 2 users, 1 crash, fairness | is the registry ready when it is used, do addresses stay, are codes and tokens for the account shown; does every process come up? |
| `identity_conflict` | 1 identity, 1 e-mail, 2 callbacks | **violated**: the second of two overlapping first callbacks dies, though the first has bound the identity |

**Bounds and why they are enough.** Conflicts in this code are pairwise: one
request reads, another commits, the first acts. Two workers give every such
pair, and a worker can run many requests one after the other, so chains of stale
reads occur as well (in `sessions_race` one worker's refresh is overtaken by
several requests of the other). Four tokens allow a chain of three rotations in
one session, or a fork with a further rotation. Three sessions allow a caller, a
seed and a third session of the same or another name. The clock reaches one tick
beyond a lifetime, so expired rows meet live requests. `Horizon`, `MaxWrong`
and, in `DeviceFlow`, starting only codes that expire within the horizon, are the
only bounds on counters. Row ids and workers are interchangeable; symmetry is
used in the safety runs and not in `device_race`, `identity_race` and
`authserver_code`, which check liveness. In `browser_tabs` three tokens allow two
refreshes of one session to overlap, or a refresh and a second login; two tabs and
two providers give a login that meets another of its provider and one that meets
another of the other; the clock reaches the expiry of an access cookie and of a
context. `authserver_code` follows the registry in full, starting from an empty table
or from what an earlier release left (the demo client with its one legacy address).
Logins are followed only while the third client and the legacy address, which they
do not ask for, are absent, and the second login only while one process runs
(`SmallWithLogins`); so `EveryProcessServes`, which concerns both processes, is
exercised with at most one login under way. The theorems need neither restriction.
`security_page` has one user and one display name, so that a name covers several
sessions; a refresh that renames a session is left to the theorem `RevokedDeviceLeaves`,
which holds for any names. `sessions_batch` has the three targets. The four requests of
`authserver_code` are a native one as an application should send it, the same one confirmed
on arrival, one for a web address, and one without a challenge. In `identity_race` one identity races with itself; to it, another identity
is somebody who makes accounts, as `Register` does, and the theorems cover any
number of identities.

`CHECK_DEADLOCK FALSE` is given everywhere: a finite instance runs out of fresh
row ids, of time or of crashes, and then stops. It hides no deadlock of the program: requests
do not wait for one another in these models, and the one place where they do
(row locks of two batches) is listed as a hazard without a property.

**Fairness.** `DeviceFlow`, for `Answered`: time passes. Each request in
flight ends, by commit or rollback. A device keeps polling until it has a final
answer (the endpoint answers `authorization_pending` for this), gets through again and
again (strong fairness: workers may be busy at any moment), and its commits are
not rolled back for ever. Nothing obliges a user to decide or the answer
with the tokens to arrive; an answer that writes nothing is one step with its poll. Without the assumption on rollbacks a database that aborts every commit
would refute any progress. `ExternalIdentity`, for `FirstLoginSucceeds`: callbacks end,
the owner of an identity keeps trying while the e-mail is verified, and is not rolled
back for ever at the same point. Between attempts anything may fail, in particular
after the account is committed and before the session is. `ClientRegistry`, for
`EveryProcessServes`: a process that is down is restarted (`restart: unless-stopped`,
`deploy/docker-compose.yml:69`), and a start-up that runs gets its answers from the
database (weak fairness of `Start`, `Load` and `Write` for each process). Crashes stop:
`MaxCrashes`. No user and no operator has to act.

## 4. Proofs

`SessionsProofs` proves for every number of sessions, tokens, users, clients,
names and workers, and every lifetime:

| Theorem | Statement |
|---|---|
| `TypeCorrect`, `ReferencesHold` | `Spec => []TypeOK`, `Spec => []References` |
| `LineageHolds`, `TreeHolds`, `ExpiryHolds` | `Spec => []RotationLineage`, `[]RotationTree`, `[]SessionOutlivesTokens` |
| `AuditAgreesHolds`, `AppConsentHolds` | `Spec => []AuditAgrees`, `[]AppSessionHasConsent` |
| `DeadStaysDead` | a token the endpoints would refuse is never accepted again: `[][\A t \in DOMAIN tokens : Usable(t)' => Usable(t)]_vars` |
| `SuccessorsAreBounded` | `Spec => []SuccessorsBounded` |
| `LedgerImplemented` | `Spec => ImplementsLedger` |
| `SerialRotatedOnce` | if `Worker = {p}`: `Spec => []RotatedOnce` |
| `SmallBatchesFit` | for every `k` with `37 * k - 1 <= TargetIdWidth`: `Spec`, and no user ever has more than `k` open sessions, give `[]BatchIsRecordable` |

Assumptions: `TTLAssumption` (a positive lifetime), `WidthAssumption`,
`HorizonAssumption`, and that `NoToken`, `NoClient` are no ids. `WorkerAssumption`, which
only the theorems that count requests use (`SuccessorsAreBounded`, `SerialRotatedOnce`),
says that finitely many requests are in flight. Nothing else is assumed finite.

**Argument.** `Consistent == TypeOK /\ References` is inductive by itself
(`ConsistentStep`, one step per action). Under it, lemma `StepKinds` reduces
`Next` to what a step does to the tables: it changes none of them (*Quiet*), opens
one session with one token, rotates one token, or closes a set of sessions with
the audit rows that say so. Every later lemma argues over these four kinds instead
of one per action. The inductive invariant is

    IInv == Consistent, ExchangeSawRow, ExpiryBounded, SessionOutlivesTokens,
            RotationLineage, OneRoot, AuditCoversRevocation, AuditIsTruthful,
            AppSessionHasConsent

Two conjuncts are there only to make it inductive. `ExchangeSawRow`: an exchange
that read the consent's row finds it still there at its commit, for rows are never
deleted; without it `AppSessionHasConsent` is lost at a commit that saw the row
active. `ExpiryBounded`: no token expires later than `now + TTL`; without it
nothing relates the new expiry of a session touched by a refresh to its other
tokens, or a successor's to its parent's. `DeadStaysDead` needs that a rotation's
new token is not yet in the table and that touching a session does not revive a
token: the session's expiry grows, but by `SessionOutlivesTokens` a token that has
not expired never had an expired session. For the
same reason a refresh maps to `Rotate` of the ledger: among the spendable tokens it
changes only the rotated one and its successor.

`RotationTree` says that a set of a session's tokens that holds the first one and every
successor of a member is all of them. `OneRoot`, exactly one token of a session has no
parent, does not give that, because a circle of tokens has no root to miss. `Grounded`
excludes it: every nonempty set of tokens has a member whose parent is outside. It is
inductive, because a rotation inserts a token nobody descends from yet; and the tokens
that a closed set leaves out would be such a set without a way in (`GroundedTree`).

How far the disagreements of section 5 can go is proved as well. A second successor needs
a refresh that loaded the token before the first one rotated it. `SuccessorsFromLoads`
counts them: once a token has a successor, its successors and the requests that still hold
it are together at most as many as there are workers, for a revoked token is not
loaded again (`OnlyRefreshRotates`) and every rotation uses up its load. With one worker
the bound is one, which is `RotatedOnce`. `SmallBatchesFit` finds the size at which
`BatchIsRecordable` breaks: `k` ids and the commas between them take `37 * k - 1`
characters, and the targets of a batch are among the sessions of its user that are active
when it reads them. For the column's 100 characters `k` is two.

`TokenLedgerProofs` proves about the ledger itself `ClosedIsOver` (no token of a closed
session is spendable, also one inserted after the closing) and `SpentIsOver` (nothing that
is not spendable becomes so again, no token changes its session, no session is reopened).
`Sessions` implements the ledger and `Browser`, by `KeepsLedger` (`Spec => LedgerSpec`),
uses nothing else, so both inherit them.

`ExternalIdentityProofs` proves for any number of identities, e-mails and callbacks,
without assumptions: `TypeCorrect`, `NoOrphans` (`[]NoOrphanAccount`), `BoundForGood`
(an identity never changes its account) and `DirectoryImplemented` (`ImplementsDirectory`).
The invariant joins to the types: `LoginsFollowIdentity`, logins and callbacks about to
log in are those of the account bound; `LinkedByProof`, a callback on its way holds an
address its provider has vouched for; and `LinkTargetExists`, a callback about to link found
its account, and accounts are not deleted. Lemmas `MoveStep`, `SignInStep` and `BindStep`
say what a step must satisfy; each action is then one of them. In the refinement a commit
that links or creates is `Bind`, a link that lost its race changes nothing in the
directory, and the login it goes on to is `SignIn` into the account the winner bound.

`AuthorizationServerProofs` proves for any number of processes, clients, flows and
users, any addresses and any number of crashes: `TypeCorrect`, `ServingIsReady`
(`[]ServingMeansReady`), `AddressesKept` (`[]AddressesStay`), `BuiltInServed`
(`[]BuiltInWelcome`), `CodeIsForShown` (`[]CodeForShownAccount`) and `GrantIsForShown`
(`[]GrantForShownAccount`). `AddressesKept` is about addresses that were in a row no start-up
was working on; `AddressLeavesByStaleCopy` is about all of them: an address leaves a row only
if it is the legacy one, or by the write of a start-up that read the row before the address
was in it. Three parts of the invariant are added. `SeenGrows`: a row a
start-up has read is still there when it writes, and still has the default addresses
and scopes if the copy had them: writing only the columns that differ is enough. `BootedReady`: a start-up that is past a client has
left it ready; so is everybody's row once one process serves. `SettledSeen`: whoever
holds a copy of a row holds every settled address of it, which is why a merge that
overwrites the whole list loses none of them. On the other side `ConfirmedWasShown`,
`ShownIsCurrent` and `FlowsReturned` follow a flow from the page to the tokens: a
request is confirmed only if a page was shown or it came so, the browser's account is the
one shown or the flow is among those that have `turned`, and a flow with a code is over.
That the tokens are for the account shown to the login that gets them then rests on PKCE:
the verifier makes the code's flow and the exchanging one the same.

`DeviceFlowProofs` proves for any number of codes, users and requests: `TypeCorrect`,
`GrantsApproved`, `ConsumedWithGrant` (`[]ConsumedIffGranted`), `SpentStaysSpent`
(`SpentForGood`) and `DecisionsStand` (`DecisionStands`). The invariant adds that
requests and grants are about started codes, and that a row's approver and the user an
exchange has read did approve: a denial leaves the approver in the row, so without
the second an exchange that read the row earlier would be unexplained. The two action
properties are proved by kinds of steps: a step loads, writes one row, or leaves the
rows alone (`Loads`, `Writes`, `QuietSteps`). `GrantsAreBounded` (`[]GrantsBounded`) counts as
above: a consumed code is not loaded for exchange again, so its grants and the exchanges
that hold it (`GrantsFromHolders`) never exceed the requests in flight, which
`WorkerAssumption` says are finitely many. `SerialOneGrant` is the case of one worker:
`OneGrant`, the property `device_double` refutes, needs an overlap.

`EmailCodeProofs` proves for any number of codes, addresses, ips and requests and all
settings: `TypeCorrect`, `SendingIsLimited` (`[]SendLimit`), `ResendIsSpaced`
(`[]ResendSpacing`), `GuessesAreCounted` (`[]AttemptsCounted`) and `UsedStaysUsed`
(`UsedForGood`). Everything rests on `AloneUnlessContended`: a key no two requests
overlapped on is held by at most one request, so what that request has read
(`RoomLeft`, `SpacingLeft`, `SeenIsCurrent`) is true until it commits. Counting codes
in a window needs that the table is finite, and the spacing that a nonempty set of
pending codes has a latest one (`SomeLatest`, from the well-foundedness of the
naturals). `KeysAssumption` says that ids are no addresses. `SerialLimits` is the case of
one worker: nothing is ever contended, so the limits hold without exception and so does
`AttemptLimit`, which `email_guess` refutes with two.

`SecurityCenterProofs` extends `SessionsProofs` and proves for any number of requests
in flight `SuccessorsAreLate` (`[]SecondSuccessorIsLate`), `ApplicationsListed`
(`[]ApplicationIsListed`), `RevokedDeviceLeaves` (`RevokedDeviceLeavesPage`) and
`PageAuditAgrees` (`[]AuditAgrees`). `SecuritySpec` implies `Spec`, so `IInv` holds. Added
for the first and the third is `Current`: what a request has read is still so in the tables
unless the request is among the `overtaken`. A refresh that commits without being overtaken
therefore finds its token unrevoked, and by `RotationLineage` the token has no successor
yet; a revocation's targets are still all of the open sessions of the name but the caller's.
`ApplicationsListed` does not need it: an exchange leaves the consent active unless it had
read it so, and a revocation ends every session of its application. What is left is an
exchange that read the consent active before the revocation (`SurvivorOpens`), which by
`ExchangeSawRow` finds it revoked, and its session is among the `survivors`.

`BrowserProofs` proves for any number of tabs, sessions, tokens, providers and pages all
of `Browser`'s properties: `TypeCorrect`, `ReturnsToOwnAddress` (`[]OwnReturnAddress`),
`RefusedOnlyIfCrossed` (`[]SoleLoginAccepted`), `CookiesAgree` (`[]CookiesMatch`),
`JarIsAlive` (`[]JarStaysAlive`), `LogoutHasClosed` (`[]LogoutCloses`) and
`JarIsLastLogin` (`[]JarFollowsLogin`). `NoneAssumption` says that `None` is no id and no
cookie. `LoginInv` adds that a tab comes back with the context it left with unless another
tab crossed it. For `JarStaysAlive` the invariant `AliveInv` has to say where every
unspent token of a session is: until the first answer of a session has arrived nobody else
knows a token of it (`NewAlone`); a token that a refresh's answer brings is in nobody
else's hands before it arrives (`RotatedAlone`); a token brought by an answer is spendable
unless its session was closed (`CarriedAlive`); and a session's refresh cookies are all
set by responses or all by scripts (`SameKind`), so that an answer for the session the jar
holds is never ignored. For the last two theorems `Undisturbed` says that while nothing
has overlapped at most one tab is busy, and what it carries is what the jar holds.

**Model-checked only.** `ConflictIsRequeried`; of the other violated properties the
theorems above say when they hold. `Answered`, `FirstLoginSucceeds` and
`EveryProcessServes`: liveness under fairness is outside what the proof system handles.
Every safety invariant and action property of a passing run is a theorem.

## 5. Where code and documents disagree

1. **One refresh token, two successors** (`sessions_rotation`). `refresh_tokens`
   selects the token unrevoked and revokes it without repeating the condition.
   Two overlapping refreshes both succeed, and both successors are usable.
   `docs/auth-platform-design.md:329` promises that the old token is invalid at once.
   What survives the overlap is the tree of rotations, the ledger, and
   `SuccessorsBounded`: as many successors as requests overlap, and one if none do.
2. **A device with three sessions cannot be revoked** (`sessions_batch`).
   `revoke_security_session` joins the ids of its targets into `target_id`,
   a `String(100)`; three UUIDs with commas take 110 characters. The insert fails and
   the revocation with it. `SmallBatchesFit`: two sessions per user are safe.
3. **Two token sets for one device code** (`device_double`). `consumed_at` is
   read, not claimed: two overlapping polls both pass. `SpentForGood` and
   `SerialOneGrant` show that nothing but overlap can do this, `GrantsBounded` that it
   yields no more than one token set for each request in flight.
4. **More guesses than allowed** (`email_guess`). `attempt_count` is incremented on
   a copy; overlapping guesses count once. `AttemptsCounted` shows the limit holds
   for a code on which no two verifications overlap.
5. **The second of two first logins dies** (`identity_conflict`). Two callbacks of one
   identity find neither it nor an account; the first creates both. The second one's flush
   of the new user meets the unique e-mail, outside the `try` that was written for this
   race, and dies. `docs/superpowers/specs/2026-08-14-external-oauth-provider-design.md:138`
   asks for the identity to be looked up again, and the identity is there by then:
   `ConflictIsRequeried` counts no other case, in particular not an account that somebody
   registered in between, where a second lookup would fail as well.
   `FirstLoginSucceeds` shows that trying again helps.

Observed on the way, and not counted above, because no document excludes them, or
because the claim is only a design note. Each is an exception some property names:

- An exchange that read its consent active may commit after the consent was revoked,
  and leaves an open session under a revoked consent. `ApplicationIsListed` shows that
  nothing else can leave one.
- A code can be exchanged again within its lifetime, though
  `docs/auth-platform-design.md:37` calls it one-time (`一次性 code`): it is a signed JWT, and
  `exchange_authorization_code` has nowhere to record that it was used. `Exchange` does
  repeat it, and `GrantForShownAccount` says what holds all the same.
- `account_confirmed=1` counts whoever sends it (`routers/oidc.py:72`, `:89`): a native
  request that arrives with it in a signed-in browser gets a code and shows no page
  (`preset`). Section 5 of
  `docs/superpowers/specs/2026-08-17-oauth-select-account-design.md` (line 92) knows this and
  relies on `state` and PKCE. Line 54 has the mark ignored where nobody is signed in; the
  code signs the user in and comes back with it (`next_url = str(request.url)`,
  `routers/oidc.py:85`), so no page is shown then either, and a flow confirmed for one
  account whose browser changes accounts is not asked again (`turned`).
  `CodeForShownAccount` and `GrantForShownAccount` except these two cases and no other.
- After a provider login the cookies are `HttpOnly`. A later e-mail or demo login in the
  same jar stores its tokens with `document.cookie`, which the browser ignores: the
  earlier session stays (`shadowed`).
- A sign-out that races a refresh may close a session whose tokens the refresh then
  puts back into the jar, or find its token already used and close nothing (`muddled`).
  An access token stays valid until it expires, whatever happened to its session.
- A native callback with an address that is not allowed is found out after the tokens
  were issued; nobody receives them (`NativeRefused`).
- An error of a provider callback that is not an `ExternalAuthError` is answered by the
  framework and keeps the context cookie; `Lose` is that outcome.
- Start-up activates a built-in client again that an operator had disabled, and an
  address added between its read and its write is lost. `AddressesStay` says that an
  address nobody was working on is not.

## 6. Not modelled

- Passwords, hashing, signatures, JWT claims beyond those of the code, token hashing:
  a token is its row.
- Access tokens on the server: stateless until they expire; `RevokeSeed` allows a caller
  whose session is already revoked.
- `users.deleted_at`: read by the code, never set by it.
- Userinfo, discovery, keys, the operation list, the overview and the settings of the
  security center: they only read.
- User-agent parsing, ip location, labels: they end in a display name.
- Row locks and lock order: abstracted to atomic commits as argued above. The two batch
  revocations lock sessions in different orders and can deadlock; PostgreSQL ends one
  of them, which is `Abort`. A model of the locks would be a model of PostgreSQL.
- `auth-rn`: a client of the endpoints without state of its own; the digest, Feishu,
  Umami, the mail text, the OAuth relay, migrations, deployment, and the pages that only
  present: input and output.

## 7. Plan

What the code allows to be modelled is modelled, every safety property is proved, and so
is how far each disagreement of section 5 that has a bound can go. What comes next:

1. Abstract specifications for `DeviceFlow` and `EmailCode`, as `TokenLedger` and
   `IdentityDirectory` are for their modules, with the refinements proved.
2. `Browser` over `Sessions` itself instead of the ledger. `LedgerImplemented` and
   `KeepsLedger` are the two halves of that argument; joining them needs one module that
   has both state spaces.
3. The disagreements of section 5: a fix in the code (a conditional `UPDATE` for the
   refresh token and the device code, a wider `target_id`) turns its run into a passing
   one, and lets the exceptions that properties make for `overtaken` requests go.
