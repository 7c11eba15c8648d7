# Media Bridge: a TLA+ model

Media Bridge stands between clients and language models. A request that carries
images or PDF files is routed by what its target model has been verified to
accept: media go through unchanged, or they are converted to text by OCR and
vision backends and only the text goes on. A control plane administers the
providers, models, policies, users and credentials and publishes them as signed
snapshots; a data-plane gateway serves requests from the snapshot in force.

This directory models the parts of the system in which several actors share
state, checks them with TLC on small instances and proves the most important
properties for every instance with TLAPS. `PROJECT.json` maps every definition
to the lines it models and lists the runs, the mutants that show each property
can fail, the hazards, the findings and the theorems.

## 1. Inventory

### Components, their state and their operations

| component | state | operations | modelled in |
|---|---|---|---|
| Asset store (`media_bridge/assets.py`) | files under the asset root, records in memory | put, consume, delete, purge_expired, clear | `AssetPromise`, `AssetStore` |
| Gate and workspace (`gate.py`, `workspace.py`, `acquisition.py`) | temporary directories, texts collected so far | acquire, render, OCR, vision, cleanup, sanitize | `PreRequestGate` |
| Routing (`router.py`, `capabilities.py`, `detector.py`) | capability registry | plan of a request | `GatewayTransaction` |
| Gateway transaction (`media_bridge_gateway/transaction.py`, `state.py`) | requests in flight, follow-up state | prepare, execute, stream, record | `GatewayTransaction` |
| V2 preparation (`transaction.py`, `idempotency.py`, `receipts.py`, `interop_v2.py`) | entries and locks by idempotency key | execute, retry, expire, trim | `IdempotentPreparation` |
| Delivery (`app.py`, `downstream.py`, `events.py`, `openai_chat.py`) | receipts seen, open downstream responses, events | refuse, seal, invoke, read, stream, emit | `GatewayDelivery` |
| Rate limiter (`rate_limit.py`) | buckets by credential and route | allow | `RateLimiter` |
| Gateway runtime (`runtime.py`, `entrypoints.py`) | generation in force, fingerprint of the snapshot file | refresh_if_changed, load, authenticate | `ConfigPublication` |
| Providers (`entrypoints.py`, `provider_selection.py`, `downstream.py`, `backends.py`, `llm_backends.py`) | provider table, generation, backends built at start | resolve auto, choose provider and effort, call | `ProviderExecution` |
| Publication (`snapshots.py`, `configuration.py`, `credentials.py`) | PostgreSQL tables, the snapshot file | issue, revoke, delete, draft, publish, rollback | `ConfigPublication` |
| Managed configuration (`configuration.py`, `api.py`, `schemas.py`) | providers, profiles, models, policies, drafts | create, update, delete, draft | `ManagedConfiguration` |
| Control access (`bootstrap.py`, `security.py`, `api.py`) | users, sessions, recovery codes, login limiter | login, TOTP, recovery, refresh, logout, create and update user | `ControlAccess` |
| Connections and test lab (`connections.py`, `credentials.py`, `audit.py`, `test_lab.py`, `gateway_client.py`) | connection rows and their status, audit events, assets at the gateway | create, update, revoke, test, preview, upload, clean up | `GatewayConnections` |
| Personal runtime (`npm_runtime.py`, `credential_store.py`) | `config.json`, stored keys, the runtime in use and the lock around it | save settings, reload, invoke; init, start, stop | `PersonalRuntime` |
| Personal conversation (`npm_runtime.py`, `solar_responses.py`, `media_bridge_local/`) | recorded texts of earlier responses | ask, extract, answer, stream, record | `PersonalConversation` |
| Personal supervision (`supervisor.py`, `local_state.py`, `web_app.py`, `data_entrypoint.py`) | child processes, profile snapshots | save, start, reconcile, stop | `PersonalProfile` |
| `mb` command (`packaging/npm/`) | state file, process, runtime directory, secret | install, start, stop, restart, uninstall | `ServiceLauncher`, `PersonalRuntime` |
| Adapters (`media_bridge_adapters/`) | another program's configuration, marker, backups; decisions | apply, remove, clean; decide, follow | `ProviderConfig`, `PreUpstreamAdapter` |
| Deployment scripts (`deploy/scripts/`) | secret files, schema revision, backups | bootstrap, migrate, back up, verify, restore | `SecretBootstrap`, `DatabaseOperations` |
| Cryptography, text filters, web console, schema, error analyzer | none of their own | calls whose outcomes the modules above choose | not modelled |

`media_bridge_local/` is a copy of the core and gateway packages. What the
personal edition uses of it is in `PersonalConversation`; of the rest, what is
said of the core and the gateway holds where the files agree.

### How they interact

The control plane and the gateway are separate processes. Their only channel for
configuration is the snapshot file, which the control plane replaces atomically
and the gateway looks at before every request; client credentials travel inside
the snapshot. Control-plane routes run in a thread pool and meet in PostgreSQL
at READ COMMITTED, with row locks where the code asks for them and an advisory
lock around the numbering of snapshots. The gateway is one event loop: a request
is suspended at its awaits, where others run and the generation may be swapped.
The asset store is called from several threads and guards its dictionary, but
not its file writes, with a lock.

### What is hard, and what makes each part correct

- Asset store: a file is written before its record exists, the clock is read
  before the lock is taken, deletions may fail in the middle of a purge, and the
  records do not survive a restart. An asset must be delivered once, to its
  owner, before it expires, and be gone when it was delivered; every file must
  belong to a record or a call in progress unless a named failure lost it.
- Publication: the file is replaced after the commit has released the lock;
  reads fail; both processes crash. Only committed versions may become visible,
  a version number must be used once, a running gateway must move forward only,
  and what was published should come into force and stay.
- Transaction: follow-ups inherit what their predecessors saw, providers choose
  response identifiers, streams break after their headers are out. Media and
  text must not reach a model or a client they are not meant for.
- Gate: one of several parts or pages fails, a removal fails while another
  failure is pending, the client leaves. A result is complete or there is none,
  and original media do not stay behind unreported.
- Personal runtime: two programs write one configuration file, saves are built
  before they wait for the lock requests hold, and a save can be cut short
  anywhere. A request must not run on a closed runtime, the newest save must win,
  keys must be there before the settings that need them, and the lock must
  always be passed on.
- Access: limits are checked before they are counted and kept in a table that
  overflows, rows are read without locks, administrators change each other's
  accounts, the process restarts.
- Managed configuration and connections: a request reads rows and writes later;
  a draft reads table after table; a connection test ends after the connection
  was revoked; the audit event is written in a second transaction. A draft must
  be closed, what was revoked stay revoked, the audit log tell the truth.
- Preparation and delivery: entries, receipts and the replay guard have lifetimes
  and capacities of their own. A preparation must run once for its key and a
  sealed request open one call, and a client must see when a stream broke; what a
  client sees of a source that itself says it failed depends on the route.
- Providers: settings are published, keys are read live, backends are built at
  start, and the model that `auto` stands for is chosen by other conditions than
  the provider that is called for it. The provider that is called must be one the
  generation routes to and can use.
- Personal conversation: texts pass through five translations and a follow-up of
  a follow-up is rebuilt from what was recorded, which is less than what was sent.
  No text of a current message may get lost, and no answer be doubled.
- Supervision and launcher: processes die, numbers are reused, inspections fail,
  commands overlap and are killed anywhere, files are replaced one after the other.
- Adapters and scripts: they change files that belong to others, ask first and
  act later on an answer that has gone stale, or read a file twice.

## 2. Modules

Each component module is a state machine with one action per step that other
actors can come between. Definitions whose comment begins with "A faulty ..." are
the mutated forms named in `PROJECT.json`; no action of a specification uses
them. Variables marked "history" record what happened for the properties and
never enable or disable an action, except where they implement a named bound
(`Max...`).

**AssetPromise** is the abstract specification of the store: an identifier is
held for a tenant, then taken by it, once, or given up. `AssetStore` implements
it under the mapping `Place`.

**AssetStore.** `Begin` is the entry of a call up to the clock read of
`purge_expired`; `Purge` its locked section; then `Write` and `AddRecord` for a
put, `Consume`, or `Delete`. The `...Fails` actions are file system calls that
raise (a bounded number, `MaxFaults`); `PurgeFails` keeps the records the failed
purge had not come to. `Clear` is the shutdown, `Crash` the loss of the process:
the records go, the files stay.

**ConfigPublication.** A snapshot body is abstracted to the credentials it lets
in. `Issue`, `Revoke`, `Delete` change credential rows, `CreateValidatedDraft`
freezes them in a draft. A publish or rollback call takes the advisory lock and
numbers its snapshot (`Number`), commits (`Commit`) and then, without the lock,
replaces the file (`AtomicWrite`). The gateway starts, compares the fingerprint
(`GwStat`, which remembers it at once), reads (`GwRead`), and swaps if the
version is newer (`GwSwap`); `GwLoadFails` is a read or a build that raises.
The fingerprint is a counter of replacements, since a replaced file has a new
inode.

**GatewayTransaction.** Up to `Slots` requests are in flight. A step reaches from
one await to the next: authentication and pinning of a generation, lookup of the
previous response, the routing decision, conversion, the call, the stream, and
the recording of the new state. Texts are abstracted to the conversations they
come from and media to their modalities. The downstream is the one that takes
identifiers from the provider, of which the variant with local identifiers is a
special case.

**PreRequestGate.** A conversion is a coroutine over the parts and pages of a
request; `Cancel` may end it wherever it is suspended. Whether a part is a PDF
that has to be rendered shows when it is acquired. What OCR or vision
returns is a choice between enough text, too little, and a failure.

**ControlAccess.** A transaction that reads only rows it has locked is one step;
one that also reads others is a read and a commit. Operator and viewer are one
role, since the user routes tell apart administrators only. `NeedsTotp`,
`MayBecome`, `Accepts` are the conditions of the code; `Abandon` is any refusal
or rolled-back transaction; the limiter counts by client address and account
(`Keys`), and `Evict` is its table at the limit, where another key pushes the
oldest out; `Restart` empties the limiter and runs
`ensure_default_admin`, which resets the default administrator except for its
TOTP secret. `AuditWrite` ends a change; the audit log itself is the subject of
`GatewayConnections`. Passwords are numbers, 1 being the system default, and a TOTP code
is knowledge of a secret. The routes for the first-user bootstrap and for
password recovery answer 410 and 405, so those service methods are not actions.

**PersonalRuntime.** Requests and saves are tasks of one event loop; a save up
to its wait for the lock is one step, since nothing in it awaits, and `CutAt`
lists what it leaves on disk when it raises (`SaveFails`) or the process dies in
it (`SaveCut`). `FirstRuntime` and `Replacement` are the runtimes that a start and
a save build. A configuration is abstracted to the number of the write, the
port, whether the provider constructors accept it (`kind`), whether it names
environment references (`refs`), and for each role the credential reference
(`ref`) and the write that supplied the key it stood for (`key`). A payload gives
the references (`Payloads`: those of the JSON route are one of `Assignments`,
which may give both roles the same one; the form names the default ones), and
the credential file keeps one key for each. `built` lists the runtimes of one process, so that an index identifies one;
`Swap` and `Reloaded` or `CloseFails` are `reload()` inside the lock. A process
started without a file has no `reload()` and no lock (`InvokeUnlocked`). Streams
are complete texts by the time the lock is released, so they need no step.
`Stop` is `mb stop`, a kill or a crash.

**ManagedConfiguration.** A request plans its writes from what it reads (`Plan`)
and commits or rolls back; the foreign keys of the tables are checked at the
commit. A draft is a REPEATABLE READ transaction: `DraftBegins` fixes what it
sees, `DraftEnds` checks that it is complete and numbers it.

**GatewayConnections.** A route is a read, a commit, an audit event and an answer,
each of them a step, and the process may stop after any of them (`Crash`). The
ORM writes only the columns a transaction changed, which `Flushed` says. The
test of a connection is a call to the gateway between two transactions; the
file preview of the test lab uploads (`Preview`, `Upload`), asks or not, and cleans
up (`PreviewEnds`, `CleanUp`), and the upload may be lost or expire.

**IdempotentPreparation.** `Call` is the lookup, `Lock` the wait for the key's
lock and the second lookup; `Prepares`, `Blocks` and `Raises` are the outcomes of
the operation, which holds only the key's lock, and `Store` ends the call.

**GatewayDelivery.** Time is in fractions of a second, since the replay guard
reads a fractional clock and a receipt counts whole seconds. `Seal` makes the
receipt, `Send` verifies and uses it; `Replay` presents a sealed request again.
Responses are read whole or streamed in chunks, and break at any of them
(`StreamBreaks`). A source may also end by itself in three ways (`Ends`): complete,
with its own report of a failure, or early. `Passes` is what the client sees of
that: the responses route passes it on as it is, the chat route's conversion
closes every source with "stop" and looks complete. `ChatStops` is the chat
stream that ends before its source does, and `Collect` the garbage collector
that closes such a source later.

**RateLimiter.** `allow` runs under a lock and is one step. Tokens are counted in
whole numbers; the history of what was granted in each second is what the bound
is about.

**ProviderExecution.** A provider row, the published snapshot and the running
generation are three copies of one setting. `Accept` resolves `auto` and pins the
generation, `Execute` chooses the provider and the effort and reads the key. A
row may be fit for a call, without the capability "text", or without a value that
a call needs (`fit`). `AutoModel` looks at the switches only and `ProviderFor` at
all of it, so that `auto` can stand for a model for which nobody can be called:
`AutoIsRouted` says that this is the only way in which an `auto` request fails for
want of a provider. A snapshot brings its routing with it (`Load`);
routings are enumerated by shape (`Routings`).

**PersonalConversation.** A text is a token that names the request and the place
it came from, so that loss and confusion are visible; a message is the set of its
tokens, which leaves the order of the texts in it out, and what a client is shown
is counted, so that a doubled answer is visible too. `Ask` is the
normalizer (`Rejected`), the state lookup and the plan (`Prepared`), `Extract` the
gate, `ProviderAnswers` and
`Event` the answer, `StreamIsOver` the end of a stream with its record. Only the
current message of a request, the last one of the user, is kept along a chain of
follow-ups: the other items that a client sends along are left out where there
is a medium or a previous response
(`media_bridge_local/gateway/transaction.py:106-120`) and never
recorded (`382-384`). `CurrentMessagesKept` says no more than that.

**PersonalProfile.** `SaveBegins` and `SaveEnds` are the two file replacements of a
save; the second may fail before or after the file was replaced, since the
directory is synchronized afterwards. `Damage` spoils a file. `Reconcile` is one call of the supervisor's
loop, which restarts with a growing delay; `MaxFailures` stands for the 1024
failures after which the computation of the delay raises.

**ServiceLauncher.** Commands run step by step next to each other and may be
killed (`Killed`) anywhere. A process has a number and an age (`born`), so a
reused number is another process. `MoveAside`, `MoveIn` are the renames that
replace the runtime (`MoveInFails` may fail once more in its error path, and then
restores nothing); `WriteState`, `StopRead` the state file. `Finds` is a look at
the service: the inspection of a process may fail for any reason, which counts as
"not running", and the state file of a running service is removed; the history
variable `orderly` remembers it. `StopRead` inspects and `Kill` signals, with
everything else in between, so that the signal can reach a program that got the
number meanwhile; `NoForeignKill` names this one case and excludes all others.
`CreateSecret` and `FillSecret` are the creation of the secret's file and the
write into it: a command killed between them leaves an empty file, with which no
service listens.

**SecretBootstrap**, **DatabaseOperations.** The scripts ask, and act later on what
they were told. Secrets carry the run that made them; a dump carries the data
and the revision it was taken at. `restore.py` verifies the archive and then opens
it a second time without a digest (`RestoreVerifies`, `RestoreLoads`): a file
damaged in between is loaded. The history variable `slipped` holds what was loaded
in this way, and `NeverMixed` excepts exactly that. `Upgrade` reads the revision
again, as alembic does, and upgrades from there.

**ProviderConfig**, **PreUpstreamAdapter.** `apply` and `remove` of the OpenCodex
manager file by file, next to a user who edits; the decision of the adapter
service as the plugin in the router receives it, while the network mixes up,
changes or loses answers and the router changes the body it asked about.

**Side by side.** Components that share no state are checked by one run: the
modules `MCControl`, `MCGatewayTransaction`, `MCRequestPath` and `MCInstallation`
put their machines side by side with a variable `part` that says which one moves,
the others staying in their initial states. The state space is the sum, not the
product, and every invariant is checked of each. The machines share model values
so that one symmetry set serves them all. These modules also state the properties
that are conjunctions over several machines.

## 3. Runs

| run | bounds | shows |
|---|---|---|
| `asset_store` | 2 tenants, 2 assets, 2 threads, TTL 1, clock to 2, 1 file system failure, crashes | `OneShot`, `DeletedOnceReturned`, `EveryFileAccounted`, `ExpiredNeverDelivered`, and the refinement `KeepsPromise` |
| `publication_concurrent` | 2 publishers, 3 versions, 1 rollback, 1 failed transaction or write, 1 failed read, 1 crash | `OnlyCommittedVisible`, `SignedVersionFree`, `NeverBackwards`, and the liveness property `AppliedUnlessReadFails` |
| `control` | access: 2 accounts, 2 client addresses, 2 requests, 2 sessions, 1 recovery code, limit 1, 3 failures, 2 further events; configuration: 2 requests, 2 providers, 1 profile, 1 model, 2 policies, 1 draft; connections: 2 tasks, 1 connection, 4 requests of which the first 2 may be lab runs, crashes at any time | `LoginGuarded`, `DraftIsClosed`, `ChangesAreAudited`, `NothingRevokedReturns` |
| `gateway_transaction` | responses: 2 slots, 2 clients, 3 models, 2 generations, 2 identifiers, 3 requests, store of 2, clock to 1; preparation: 2 callers, 2 keys, 2 requests, TTL 2, 1 entry, clock to 3, 4 calls | `MediaOnlyToCapableTarget`, `ConversationsKeptApart`, `IdempotencyHolds`, `RetryIsNotRepeated` |
| `request_path` | gate: 2 requests of up to 2 parts and 2 pages that may share an asset, 1 mishap (a failed removal or a cancellation); delivery: 2 messages, replay guard of 1, responses of 2 chunks, 3 seconds; rate: 2 keys, 1 bucket kept, 6 seconds; execution: 2 language model providers, 1 reader, 1 viewer, 2 endpoints, 2 models, 3 routings, 2 edits; conversation: 3 requests, 5 shapes of conversation, texts to length 4 | `GateKeepsItsWord`, `DeliveredOnce`, `RateIsBounded`, `RoutedAsPublished`, `ConversationKept` |
| `personal_runtime` | 2 requests, 2 savers, 2 ports, 2 credential references, 2 assignments of them, 2 configurations written | `RuntimeSwapsSafely`, and the liveness property `LockIsPassedOn` |
| `personal_profile` | 2 saves, 2 processes, 3 failures, delay to 2 | `LastKnownGoodSurvives`, `BackoffRespected`, and the liveness property `CrashedIsRelaunched` |
| `installation` | launcher: 2 commands, 2 process numbers, 2 processes between boots; secrets: 3 runs, 3 secrets; database: 2 revisions, 2 writes; provider: 2 contents, 2 formats, 3 edits; adapter: 2 calls, 2 models | `LauncherKeepsTrack`, `SecretsAreSound`, `DatabaseOfOnePiece`, `AdaptersAreSafe`, `NothingIsDestroyed` |
| `publication_out_of_order` | 2 publishers | violated: `PublishedIsUsed` |
| `publication_stale_draft` | 1 credential, 2 drafts | violated: `BarredStaysOut` |
| `access_last_admin` | 2 concurrent requests, 3 events | violated: `LastAdminStays` |
| `personal_restart` | 1 saver, 2 configurations written | violated: `RestartAccepted` |

Every passing run also checks the type invariant of each of its modules. The
properties that name a promise of a component are conjunctions of named parts,
each stated with its comment in the component's module, and each part has a
mutant in `PROJECT.json`: for instance `ConversationsKeptApart` is
`TaintFollowsConversation`, `NoForeignText`, `NoStateFromFailedRequest` and
`StoreBounded`; `DeliveredOnce` is `NoReplay`, `OneEventEach`, `Released`,
`FailureIsVisible` and `SentIsBounded`.

**Why the bounds are enough to be interesting.** Two actors suffice for each race
the code is exposed to: the conflicts are between a step of one and a pair of
steps of another. Two assets let one be purged while another is consumed; three
versions let a slow publisher put back the first after the second and a third
overtake both; three requests make a follow-up of a follow-up; two parts of two
pages put a failure before, between and after others; a store of two records is
full and evicts. A clock that passes each TTL once reaches both sides of every
expiry test. A replay guard, a bucket table and an entry table with room for one
are full as soon as there are two; three runs of the secret bootstrap let one
take the lock from another that is still alive; three requests of a conversation
make the longest chain whose rebuilding differs from that of a shorter one. Two
writes suffice for a mixture of databases, each of which holds one of them. Two
client addresses show that an account sees the limit of failures once for each.

**Violations.** Each is a disagreement between the code and what the repository
says of it; `PROJECT.json` quotes the line under `findings`.
1. Two publishers replace the file in the other order than they committed: both
   calls return, and the newer snapshot is not the one in the file.
2. A draft freezes credentials with everything else; published after a
   revocation it puts the revoked credential back in force.
3. `update_user` locks the row it changes and counts the administrators without
   a lock, so two concurrent demotions leave none.
4. A save in the settings console empties the environment references that the
   command line insists on, so the restart the manual prescribes stops the
   service and cannot start it again.

Further differences that the models show and no run is kept for:
- `refresh_if_changed` remembers the fingerprint before it loads
  (`media_bridge_gateway/runtime.py:247`), so a failed read of a valid file is
  not retried until the file changes again; `docs/manuals/developer/gateway.md:13`
  says a valid snapshot is applied. `AppliedUnlessReadFails` states what does
  hold.
- A request cancelled while a backend call is suspended skips the removal of its
  workspace (`media_bridge/gate.py:338` follows a `try` that catches `Exception`
  only), where `docs/design/DESIGN.md:147` promises deletion.
- A provider's key and its switch are read when a call is made
  (`media_bridge_gateway/entrypoints.py:235`), so they take effect before the
  publication that `docs/manuals/MEDIA_BRIDGE_OPERATIONS_MANUAL.md:135` asks for.
- The reasoning effort of a policy comes before that of the provider
  (`media_bridge_gateway/downstream.py:582-599`), against `docs/WORK_STATUS.md:216`.
- `auto` takes the first model with an enabled provider
  (`media_bridge_gateway/runtime.py:56-97`), and the call then asks for the
  capability "text" and for values that may be missing
  (`media_bridge_gateway/downstream.py:753-779`): a request fails although another
  model would have been served, where
  `docs/superpowers/plans/2026-09-23-omniroute-compatible-model-routing.md:26` wants
  the choice to look at capabilities.
- The chat stream ends a source that reports a failure, or that ends early, with
  `finish_reason` "stop" and `[DONE]` (`media_bridge/openai_chat.py:323-364`): the
  client cannot tell it from a complete answer. `FailureIsVisible` states it so.
- "Restore only a verified archive" (`deploy/scripts/restore.py:1`) holds of the
  first of two readings of the file (`119-125`).
- An error in the inspection of a process
  (`packaging/npm/lib/process.cjs:180-182`) makes `mb status` and `mb stop` remove
  the state file of a running service (`305-307`, `333-336`).
- The login limit is one of a client address and an account together, so that an
  account sees it once for every address (`media_bridge_control/bootstrap.py:278`,
  `385`).

**Fairness.** `FairSpec` of `PersonalRuntime` assumes that the event loop runs a
task that holds or was granted the lock, and that a call ends: every HTTP client
of this runtime has a timeout of 60 seconds. `FairSpec` of `ConfigPublication`
assumes weak fairness of the gateway's `Refresh` steps. The reloader runs before every request, so it stands
for requests that keep arriving at a gateway that is started again when it is
down. `FairProfileSpec` of `PersonalProfile` assumes that the owner of the
supervisor keeps calling `reconcile()`, which is how it is meant to be used
(`tests/personal/test_supervisor.py:70` polls it), and that time passes. Nothing is
assumed of administrators, publishers, users, crashes or failures.

**Deadlock** is not checked where a behaviour ends because its bounds are used
up or all requests are done; `asset_store` checks it.

## 4. Proofs

Every safety invariant and every action property that a passing run checks is
also a theorem, for all sets of clients, requests, keys, processes and values and
for all bounds that meet the assumptions below; the table names the module and its inductive invariants. What TLC
checks on a small instance and the proof for every one is the same definition.

| module | theorems about | inductive invariants |
|---|---|---|
| `AssetStoreProofs`, `AssetPromiseProofs` | the asset store, and that it implements `AssetPromise` | `AInv`, `Purged`, `OwnerInv` |
| `ConfigPublicationProofs` | publication | `PublishInv`, `CInv` |
| `ControlProofs` | access, managed configuration, connections | `AccessInv`, `ManagedInv`, `ConnectionInv` |
| `GatewayTransactionProofs` | the response transaction, idempotent preparation | `TransactionInv`, `IdemInv` |
| `RequestPathProofs` | gate, rate limiter, delivery, provider execution, personal conversation | `GateInv`, `RateInv`, `DeliveryInv`, `ExecutionInv`, `ConversationInv` |
| `PersonalProofs` | personal runtime, profile and supervision | `RuntimeInv`, `ProfileInv` |
| `InstallationProofs` | launcher, secrets, database, the two adapters | `LauncherInv`, `SecretInv`, `DatabaseInv`, `ConfigInv`, `AdapterInv` |

### The arguments

Hardly any property is inductive as it stands. What each needs beside it is where
the reason lies that the code is right:

- **Asset store.** That an asset is not delivered twice needs to know that a record
  names an asset nobody has got yet and belongs to its owner (`RecordInv`), that
  identifiers in use were issued (`IssuedInv`) and that a put in progress holds an
  identifier no record and no other call has (`InFlight`, `CallInv`). Expiry needs
  `Purged`: a call that is about to act has seen a purge after which every record
  outlives the moment at which the call read the clock, although others have added
  records since. `StoreKeepsPromise` maps a step that drops records to a `GiveUp` of
  exactly those (`Dropping`), `AddRecord` to `Hold`, `Consume` to `HandOut`, and
  every other step to a stutter.
- **Publication.** A call that has numbered its snapshot holds the lock and has the
  next number, and a call about to write has a committed number (`PublishInv`).
- **Access.** The bound on failures, for each address and account, counts the wrong
  thing to be kept by the steps: a request passes the limiter before it fails.
  `Bounded` therefore bounds the failures in the window together with the requests that have passed the limiter
  (`Spared`). A code that opened a session is used up (`SessionInv`).
- **Managed configuration.** A draft is closed because the foreign key holds at every
  commit (`Linked`) and a draft reads one state (`RequestInv`); that its revision is
  within the bound needs revisions without gaps (`Gapless`).
- **Connections.** What a request relies on between its steps (`WorkInv`): the rows it
  read are still there, what it will write takes no revocation back, what it will
  report has happened. `Grows` says what no step takes back.
- **Transaction.** The lineage of a request, the media of the state it continues and
  its own, was checked against its model in its own generation, which never changes
  (`RequestOK`); a record covers what its providers saw (`RecordOK`); every request
  number is in one place only (`IdsOK`).
- **Idempotency.** An entry was made by an operation of its fingerprint (`CallOK`),
  and a result that is finished and neither expired nor trimmed is in its entry, which
  every caller finds after its wait (`EntryOK`).
- **Gate.** At its part and page, a conversion has read all before (`ConvOK`); what it
  has taken is out of the asset store and nobody else took it (`AssetsOnce`).
- **Rate limiter.** For every window that ends now, the calls let in and the tokens
  that would be left together are within the bound (`KeyOK`); dropping a bucket keeps
  this because it would be full by then, the hypothesis on the settings.
- **Delivery.** A receipt that opened a call is remembered until the moment it can no
  longer be valid (`ReceiptOK`), also when the guard makes room: a full guard refuses.
- **Execution.** A request that is under way and left its model to the gateway was
  resolved to a model that its generation serves (`Resolved`).
- **Conversation.** The state of a response holds the texts of the current messages of
  all the requests before it (`StateOK`, `Covers`). `Chain`, the least set closed under the predecessor, makes
  this provable without induction over the length.
- **Personal runtime.** Runtimes are built in the order of the writes, and savers wait
  in the order in which they built them (`QueueOK`), so that the last swap is the
  newest; an open runtime is the current one, leaked, or held by a waiting saver.
- **Profile.** An undamaged file is the last snapshot or its base (`FilesOK`); the time
  a process has waited and the time it still has make up its backoff (`ChildOK`).
- **Launcher.** While a command is alone, and no inspection of a running service has
  failed, it knows the services: none before it spawns and after it has stopped, only
  its own in between (`AloneAt`). A command about to signal remembers how many
  processes had been born when it looked, so that a stranger with that number is
  younger; the only secret that was written is the first one, since another is made
  only where the file is missing.
- **Secrets.** The run whose first file is there generates all of them
  (`FirstDecides`), and a run that goes on to link knows whether there was a volume
  (`RunOK`).
- **Database.** A copy that verifies holds what the database held once (`CopyOK`); what
  restore loads is such a copy, or was damaged after it had verified it (`slipped`).
- **Adapters.** The marker names what the manager wrote and the backup holds what it
  replaced (`ConfigInv`). A token is signed for a decision only, and what it says of
  the body it was signed for is true (`Genuine`); whatever the network changes, a
  valid answer carries such a token.

The modules that put components side by side need no argument of their own: a step
is one of some part and leaves the others as they are (`InstallationPart` and its
like), so each keeps its invariant.

### The assumptions

They are stated with the constants, and TLC evaluates each in a run.
- Bounds of the models (`Max...`) are natural numbers. Sentinels (`None`, `Absent`,
  `Gone`, ...) are none of the values they stand beside, as `None` and `null` are not.
- Limits are positive: the code refuses others for the idempotency time to live
  (`media_bridge/idempotency.py:32`), and uses 1024 entries
  (`media_bridge_gateway/transaction.py:412`), a receipt lifetime of 30 and a
  retention of 300 seconds (`DeliveryAssumption`), a full bucket within the idle time
  (`SettingsAssumption`, see section 5).
- Threads of the control plane and tasks of the personal runtime are finitely many.
- Identifiers that the code compares (`OrderAssumption`) are numbers; the published
  routings have the shape of a snapshot (`RoutingsAssumption`).
- `PowerAssumption` is a fact of arithmetic that the provers do not know: a power of
  two is a natural number.

### What the attempts showed

The first form of `RunsVerifiedRuntime` said that every service runs the artifact of
the manifest. It is not provable, since it is false for three overlapping commands:
one moves the previous runtime aside; a second installs the current one and is about
to spawn, which makes the rename of the first fail; a third uninstalls; the first finds
nothing there and restores the previous runtime; the second spawns it. With two commands this cannot happen (`PairsOK`), and
TLC had found nothing with two. The property now says what does hold: every service
runs a runtime that was verified when it was installed, the manifest's unless three
commands overlap (`Crowded`).

Removing a task from the queue of the lock is by position (`Without`), which is what
keeps the order of the others evident.

### What stays with TLC

Liveness (`AppliedUnlessReadFails`, `LockIsPassedOn`, `CrashedIsRelaunched`), since it
rests on fairness and ENABLED, and the four violated properties.

## 5. What is not modelled

Texts, pages, keys, signatures and wire formats are abstract. Extraction
backends, model providers, PostgreSQL and the file system appear as the outcomes
the code distinguishes. The web console, the declarative schema and the offline
error analyzer keep no protocol state; secrets, TOTP codes, redaction and the
sanitizer are functions. The HTTP and MCP services of the core are thin routes
over the gate and the asset store. The autostart entries that the npm package
writes for the login of a user, and its removal of a runtime that is cut short,
are left out. The personal edition leaves out the provider
test routes and the operator's environment overrides; of the adapters the command
line, and of the npm package the scripts that build and verify a release, are left
out. `SettingsAssumption` of `RateLimiter` excludes settings under which an idle
bucket is dropped before it would be full; the entry point accepts them, and a
client then gets a fresh bucket early.

## 6. Plan

1. Abstract specifications: a version register for `ConfigPublication` and an
   all-or-nothing conversion for `PreRequestGate`, each shown to be implemented.
2. The composition of publication and provider execution, so that a rollback
   during a request is covered by one model.
3. The provider test routes of the personal edition, and the autostart entries of
   the npm package.
