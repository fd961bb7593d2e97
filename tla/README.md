# Provenward in TLA+

Provenward is a product-provenance registry: a Soroban contract on Stellar keeps
manufacturers, batches, recalls and ownership receipts; a backend mirrors the
contract's events into Postgres, answers verifications and sends recall alerts; a
frontend submits transactions with the user's wallet. This directory holds
specifications of the parts that make decisions, TLC configurations that check
them on small instances, and TLAPS proofs that most of what is checked holds for every
value of the constants.

Run a check with `tlc -config <run>.cfg <module>` (the pairs are in
`PROJECT.json` under "runs") and the proofs of a module with `tlapm <module>Proofs.tla`.

## 1. Inventory

| part | source | state | operations | talks to |
|---|---|---|---|---|
| contract | `contract/src/{contract,storage,types}.rs` | admin, two counters, records of manufacturers, batches, recalls, receipts per owner, and the lists that index them | `initialize`, `register_manufacturer`, `register_batch`, `issue_recall`, `register_ownership_receipt`; reads | publishes events; is called by wallets and, for reads, by the backend |
| indexer | `backend/src/indexer.ts` | tables `manufacturers`, `batches`, `recalls`, `ownership_receipts`; the cursor row | a poll: read cursor, `getEvents`, handle each event, write cursor | reads the RPC node; writes Postgres |
| notifier | `backend/src/notifier.ts`, `services/delivery.ts` | `recalls.notified`, `recall_alerts`, the job in progress | a poll: take pending recalls; per recall: owners, preferences, and per owner an alert row, e-mail, webhook | reads what the indexer and the preferences route write; SMTP, webhooks |
| read API | `backend/src/routes/{verify,recalls}.ts`, `services/*` | the TTL cache, `verification_scans`, requests in progress | `GET /api/verify`, `GET /api/recalls` | simulates contract calls; reads Postgres |
| alert preferences | `frontend/src/components/register-purchase.tsx`, `lib/wallet.ts`, `backend/src/routes/alertPreferences.ts`, `services/alertService.ts` | `alert_preferences`; the page's wallet, fields and save in progress | check and connect the wallet, prefill, sign and save; signed upsert, masked read | Freighter, the purchase page, Postgres |
| wallet client | `frontend/src/lib/contract.ts`, the dashboard's forms, the purchase form | form state, the transaction in progress | `invoke`, `waitForTransaction` | RPC node, Freighter |
| verify form, QR scanner | `frontend/src/components/{scan-form,qr-scanner}.tsx`, `lib/api.ts` | fields, the verdict shown, requests in progress; the camera of each mounted scanner | type, submit, scan, open and close the scanner | read API, camera |
| dashboard | `frontend/src/app/dashboard/page.tsx`, `components/dashboard`, `lib/contract.ts` | wallet, manufacturer id, batches, tab, loads and submissions in progress | connect, refresh, change tab, register a batch, issue a recall | Freighter, RPC node |
| deploy script | `scripts/deploy-testnet.mjs` | `deployments/testnet.json`; the stage of the run | upload, instantiate, initialize, record | RPC node |
| manufacturers, analytics, health | `backend/src/routes/{manufacturers,health}.ts` | — | reads | Postgres |
| other pages | `frontend/src/app`, `frontend/src/components` | what was fetched | fetch and show | read API |

What is hard, part by part, and what must hold:

- **Contract.** One invocation is atomic, so the difficulty is in sequences of
  calls: every record is written to several lists, ids come from counters, the
  overlap test walks one of the lists. It must hold that the lists enumerate the
  records, that no serial is genuine in two batches of a manufacturer, that recalls
  lie in their batch, that receipts are unique, that verdicts never change, and that
  the events alone suffice to rebuild the storage (the backend has nothing else).
- **Indexer.** Pages that end inside a ledger, calls that fail in the middle of a
  handler, a crash between handling and writing the cursor, events read twice,
  a retention window. What it writes must be on the chain; what the cursor has
  passed must be in the tables; everything must get there.
- **Notifier.** It reads three tables one after the other while two other writers
  change them; deliveries fail or lose their answer; it may die anywhere. It must
  not mark a recall before everyone entitled has a settled alert, must not repeat
  messages without cause, and must get to every recall.
- **Read API.** Concurrent requests share a cache; the contract call may fail and
  the fallback lags. A verdict may be old but not wrong, an indexed recall must be
  shown.
- **Wallet client.** A transaction may be slow, expire, fail or be applied with its
  answer lost, and the user will press the button again. A recall may be issued
  twice, a batch and a receipt may not.
- **Alert preferences.** The page gets a mask of the address on record and saves from
  the same field; the wallet may have another account by the time it signs; nothing
  orders two saves at the API. Only the signer's own row may change, no mask may
  be stored, and a save reported as stored must stand.
- **Verify form and scanner.** A scan starts a verification whatever is in progress,
  and answers come in any order; a camera takes time to load, start and stop while
  its scanner is closed or opened again. The verdict shown must be of the last
  request, the form must not stay busy, and no camera may run unattended.
- **Dashboard.** Wallet requests, loads and submissions overlap, and Refresh or another
  tab drops a form that is submitting. What is shown must be the connected account's;
  a recall must not be repeated without cause.
- **Deploy script.** A run may stop between any two of its three transactions, and what
  it sent may still be applied while the next run is on. The record must be true.

`PROJECT.json` lists these as hazards, each at its line, with the properties that
cover it.

## 2. Modules

    ProvenanceLedger          abstract: products, notices, holdings
          ^ refinement
    RegistryRefinement  ---> Registry <--- RegistryProofs (TLAPS)
                              |  the order of its events (EventsCausallyOrdered)
                              v         refinement
                           Indexer <--- IndexerRefinement ---> Mirror (abstract: facts, rows)
                              |  rows appear some time after the chain has them
                              |  (MirrorSound)
                        +-----+------+
                        v            v
                     Notifier     VerifyApi
                        ^            ^
                        |            |
             AlertPreferences     ScanForm         Dashboard ---> WalletClient

    Deploy                    the contract before its first manufacturer
    MC<module>                symmetry sets and constant functions for TLC
    <module>Proofs            theorems about the module: Registry, Indexer, Notifier,
                              VerifyApi, AlertPreferences, WalletClient, Deploy
    PageProofs                theorems about Dashboard and ScanForm

`Indexer`, `Notifier` and `VerifyApi` are not composed into one specification: each
has the others as an environment of a few actions that may happen at any time, and
that is justified by a property checked of the part that plays the environment. So
the indexer's chain publishes events only in an order the contract allows; in the
notifier and the API, rows appear at any time after the transaction, which covers
every schedule of the indexer. `AlertPreferences` is what `SavePreferences` of the
notifier may do; `ScanForm` takes any answer of the API, in any order; `Dashboard`
takes a submission's outcome as `WalletClient` has it and the contract's acceptance
as `Registry` has it.

### Registry

One action per entrypoint that writes, one operator per entrypoint that reads. An
invocation is a ledger transaction: it applies whole or panics, and panics roll
back, so the guard of an action is the conjunction of the code's checks (`Accepts...`)
and a rejected call is a stutter. A storage entry is a partial function from keys to
values, `Put` writes one, `unwrap_vec` reads a list that may be missing. `U64Max`
is the largest u64, which ends the counters; `Serial` is the set of serials that
callers pass. `require_auth` is the choice of the acting address. The
contract's events are kept in the sequence `events`; `MaxEvents` bounds a behaviour,
and nothing else does. Timestamps, which no decision reads, and the extension of
storage lifetimes are left out.

`AcceptsManufacturer`, `AcceptsBatch`, `AcceptsRecall` and `AcceptsReceipt` keep the
order and the sense of the panics; `OverlapsNone` is the loop of `register_batch`
over the manufacturer's list, and fails on an indexed batch that is missing, as the
`expect` does.

### ProvenanceLedger, RegistryRefinement

What the contract promises, without ids, counters and lists: a set of makers, of
products with their serials, of notices about serials of a product, and of holdings;
each only grows. `RegistryRefinement` gives the mapping and states
`ImplementsLedger`.

### Indexer

`pc` follows `pollOnce`: `readCursor`, `getEvents`, one `HandleNext` per event,
`writeCursor`. The step between two awaits is one action. `handleEvent` has the four
handlers as functions of the tables, with the unique keys of `schema.prisma`
deciding when an upsert throws. `HandleNextFails` is a database call that fails (the
catch logs and the loop goes on), after the placeholder manufacturer or before.
`getEventsFails` is the RPC refusing a ledger out of its window or being down. `Crash`
is the process ending, by a signal or by an exception outside the try blocks (a query
of `readCursor` or `writeCursor`), and `Start` the container's restart. The chain is
external: `PublishEvent` puts an event that the contract may publish next (one of
`NewManufacturers`, `NewBatches`, `NewRecalls`, `NewReceipts`) into the
ledger that closes next, and the node answers for the last `Retention` ledgers only.
The events of a range of ledgers are a stretch of the chain (`EventsFrom`). At first
there is no cursor row, as after the migration.
Accounts and batches are interchangeable: the chain takes new ones in a fixed order
(`Some`), which leaves out renamings of behaviours and, unlike a symmetry set, is
sound under the liveness properties. The history variable `lost` holds the events that
a poll passed over (`PassedOver`: before the first cursor, or behind the end of a page)
or failed on;
`LossesHaveCause` says that nothing else is missing.

### Mirror, IndexerRefinement

What the tables promise those that read them, without ledgers, pages, cursors and
placeholders: facts (products, notices, holdings) that the contract publishes one at a
time, and rows that are copies of them, which may come any time later or never, but a
recall's only after its batch's, and are not taken back. `IndexerRefinement` reads the
facts off the chain's events and the rows off the tables, the maker of a batch through the
row of its manufacturer, and states `ImplementsMirror`.

### Notifier

`pc` follows `processOne`; `queue` is what `pollOnce` took. The writers of the tables
(`IndexRecall`, `IndexReceipt`, `SavePreferences`) may act between any two steps.
A unit stands for one serial of one batch, and `Affects` says which units each recall
affects. `Deliver` accepts the message; or returns without it having been accepted
(a webhook's non-2xx answer); or throws, before or after acceptance. Two history
variables serve the properties: `sent` counts accepted messages, `entitled` records
who had a receipt and a preference when the recall was indexed.

### VerifyApi

Requests are records with a `pc` that stops at every await of the routes: the
contract call, the fallback query, the write of the cache after it, the contract's
recalls, the indexed recalls, the answer. The chain, the indexer and the clock are
the environment. Time is counted in units of which `TTL` is the lifetime of a cache
entry; `MaxDuration` bounds how long a request may take. `Decodes` says what
`decodeRecall` does with the contract's encoding of a severity: it throws, so only an
empty list of recalls is decoded. `Asked` are the serials that requests are about;
the others are there for the ranges of batches and recalls.

### WalletClient

A form holds one operation; the user submits until the form says it is done, and may
decline to sign or take any time. The network is external: it applies a transaction
at most once, in the account's sequence, not after its time bound; it may drop it,
and answers may be lost (`CallFails`). `WaitAssumption` relates the constants of the
code: 60 s of validity plus a poll's pause are less than the 90 s of waiting. The
dashboard's forms and the purchase form all go through `invoke`; a form is one that
may be repeated on the ledger (a recall) or not (a batch, a receipt).

### AlertPreferences

The purchase page and the route behind it. `checking` is the look at the wallet on
mount, `connecting` and `fetches` are calls without an answer, `posts` are the saves on
their way: to the wallet, to the API, or back. `SwitchAccount` is the user at the
extension, at any time. A signature is who signed and what; the schema is `WellFormed`,
to which a mask is not an e-mail address. `AnswerLost` tells the page of a failure while
the request goes on. The history variables record who wrote each row and what was
reported.

### ScanForm

Each request and each mount of the scanner has a number. `Decode` is the library's
callback, which may come for the frame in hand when the camera was told to stop;
it stops the scanner, fills the fields and starts a verification without looking at
`loading`, the model's `checking`. `ref` is the `scannerRef` of a mount: `stop` does nothing without it, and is
refused while the camera starts. The library is external. History: the first of
the requests that overlap by a scan (`since`; the last request while none do) and cameras
told to stop while starting (`cut`) are what the properties excuse. The names every specification has are `ScanInit`,
`ScanNext`, `ScanSpec` and `ScanTypeOK` here, so that one module of proofs extends both
pages.

### Dashboard

`loads` are the calls of `loadManufacturer` in progress, each with the answers it has so
far; the two simulated reads are two steps. A form exists while its tab is chosen, a
wallet is connected and nothing is being loaded; otherwise `Unmount` drops it, and its
submission goes on without it. The contract takes or refuses a submission as `Registry`
does. The user issues each recall and registers each batch once, and tries again until
the page says it is done.

### Deploy

The script's `pc` follows `main` through its three transactions, each built with the
sequence number just read, simulated, sent and waited for. `Interrupted` ends a run at
any point, with what it sent on its way. The network applies a transaction in the
account's sequence or lets it expire. Another account may initialize a contract that
has been created, as `contract.rs` allows. `given_up` records the transactions the
script reported as failed or timed out.

## 3. Runs

Small instances; every bound is a constant of the configuration. A model value or a
symmetry set is used where the code only compares for equality. "passes" means that
TLC explored every state.

| run | instance | what it shows |
|---|---|---|
| `Registry_contract` | 2 addresses, 2 batch ids and zero, serials 0, 1 and 3 of u64 0..3, names of 0, 64 and 129 bytes, 6 events | types, indexes, `IInv`; disjoint ranges; recalls, receipts and `get_my_recalls`; events that rebuild the storage and are causally ordered; verdicts and recalls that never change; the abstract ledger is implemented |
| `Indexer_faults` | 2 manufacturers, 2 batches, 4 events, up to 2 per ledger, 4 ledgers of which the node keeps 2, pages of 2, 1 failing call, 1 crash, joining late | rows are sound and re-reading changes nothing; what is missing up to the cursor has a cause; every event gets there unless the retention leaves the indexer behind for good; the abstract mirror is implemented |
| `Indexer_backfill` | START_LEDGER 1, pages of 2, 3 events | violated: the second page is never read |
| `Notifier_safety` | 1 recall, 2 owners, 1 fault, 1 crash | who must be settled when a recall is marked, and how often a message is repeated |
| `Notifier_live` | 2 recalls, polls of 1, 1 owner, 1 fault, 1 crash | every recall is notified, once and for all; messages only to owners on record |
| `VerifyApi_answers` | 2 concurrent requests about 1 of 2 serials, 1 recall, lifetime 1, time to 4 | verdicts never contradict the chain; unregistered is gone within TTL + 2 MaxDuration; indexed recalls are shown |
| `VerifyApi_merge` | no outage | violated: recalls of the chain are not merged |
| `WalletClient_submit` | a recall and a batch form, 3 transactions, 1 lost answer | timeouts are final, repeats need a lost answer, reports are true |
| `ScanForm_overlaps` | 2 codes, 3 requests, 2 mounts of the scanner | the verdict shown is of the last request, or of one that a scan overlapped with it; busy means pending; cameras are attended |
| `Dashboard_page` | 2 accounts, 2 batches, 2 connects, 2 loads, 2 submissions, 1 failure | what is shown is the wallet's unless two wallet requests were open; loads do not overlap; recalls are repeated only after a lost form or answer |
| `AlertPreferences_saves` | 2 accounts, an address, a webhook, 2 connects, 2 saves, 1 lost answer | rows hold no mask, only owners write theirs, the last save reported stands |
| `Deploy_runs` | 3 runs, 2 possible admins, 2 interruptions | the record is true, the deployer is the only admin recorded, what was given up has no effect, every run ends |

Why these bounds. The contract's decisions compare two batches, or a batch and a
recall or a receipt, and boundaries of ranges: two batches and three serials give ranges
that are apart, adjacent, overlapping, nested and equal, and six events suffice for two
manufacturers with a batch each, a recall and a receipt, or one manufacturer with two
batches, a recall and two receipts. The
indexer's and the notifier's difficulties need one failure and one crash, a page that
does not hold everything, and a second manufacturer or owner; four ledgers and a
retention of two let the window move past a saved cursor (1, with the fourth ledger the
latest), and without the excuse of `LeftBehind` TLC finds the indexer stuck there. Three requests give
an answer between two others, two mounts a camera that outlives its scanner; two
connects, loads and submissions are the least that overlap; in the deployment, two
interrupted runs leave transactions for a third. The bound of
`UnregisteredExpires` is tight: with one time unit less TLC finds the two requests
(one that writes an old verdict late, one that reads it at the last moment). The
deadlock check is off where the bounds on events or attempts let a behaviour end.
No run with a liveness property uses a symmetry set.

`TypeOK` of each module is the first conjunct of one of the invariants checked: of
`IInv` in the runs of `Registry` and `Deploy`, and of `CameraIsAttended`, `MirrorSound`,
`SendsAreOnRecord`, `VerdictsNeverContradictChain`, `ReportsAreTrue`,
`RecallsNameOwnBatches` and `MaskNeverStored` in the others. The `IInv` (or
`ScanInv`) that a configuration does not list was checked on that run's instance by
listing it there: that of `Dashboard`, for one, in 2.1 million states.

Each property has at least one mutant in `PROJECT.json`: a small change to a
definition, such as a dropped guard, under which the same run fails. The mutated forms
stand beside the definitions, marked "Planted bug for mutation"; no specification uses
them.

### Fairness

- Indexer (`FairSpec`): weak fairness of each of its own steps, because `main` polls
  for ever, every call returns or throws, and the container restarts the process.
  Failures and crashes are bounded. Nothing is assumed of the chain: an event need
  only be mirrored once its ledger has closed.
- Notifier (`FairSpec`): weak fairness of its own steps on the same grounds. Nothing
  is assumed of the writers of the tables.
- Deploy script (`Spec`): the process runs on until it is interrupted, and the time
  bounds of a transaction that is not applied pass.
- `Indexer_backfill`, a violated liveness property, is checked under the same
  specification, so its counterexample is an indexer that polls for ever.

## 4. What disagrees

Two runs are expected to be violated; the text each contradicts is under "findings" in
`PROJECT.json`: a configured start ledger is read again at every poll
(`Indexer_backfill`), and recalls the contract reports are never merged into an answer,
because a recall's severity is decoded as a symbol and arrives as a vector
(`VerifyApi_merge`).

The models show more that a reader of the code should know, without a run for each. Of
the backend and the contract:

- a page that ends inside a ledger loses the rest of that ledger (`indexer.ts:193-197`),
  where `README.md:86` says that the indexer mirrors the contract's events; `lost`
  excuses it in `LossesHaveCause`;
- receipts are kept per owner, so two owners may hold one serial, where
  `docs/ARCHITECTURE.md:46` has one owner per serial;
- an indexer that was down for longer than the node's retention never gets on, as
  `getEvents` refuses its cursor at every poll (`LeftBehind` in `EventuallyMirrored`);
- without a cursor row every poll starts at the ledger that is the latest then, and asks
  for one that has not closed yet;
- a failing database call while an event is handled loses the event
  (`HandleNextFails` moves the cursor on), and a recall skipped for want of its batch
  does not return, whatever the log line at `indexer.ts:106` says;
- without a cursor row the indexer starts at the latest ledger, where
  `docs/DEPLOYMENT.md:102` says the earliest;
- an owner whose receipt or preference arrives just after a recall was processed is
  not alerted of it, and a delivery that failed is not retried; a webhook that answers
  non-2xx counts as delivered;
- a cached `unregistered`, or one of the fallback, hides a registration for up to the
  bound of `UnregisteredExpires`, where `services/cache.ts:4` says that the cache
  affects latency only;
- a scan answered by the fallback before the batch is indexed is stored as unregistered
  and counts as non-genuine in the analytics (`manufacturers.ts:103`);
- `contract.rs:33` has `initialize` callable by the deploying address; any address may
  call it (`InitializeByOther`).

Of the script and the frontend:

- with an `--admin` other than the deployer (`docs/DEPLOYMENT.md:31`) a deployment never
  completes, as only the deployer signs (`RecordIsTrue`);
- a scanner closed while its camera is starting leaves the camera on, as the stop is
  refused and the reference dropped (`qr-scanner.tsx:32`; `cut` in `CameraIsAttended`):
  nothing stops it later, and a code it reads still fills the form and is verified;
- a code scanned while a verification is in progress starts a second one, and the older
  answer may be the one that stays until the next request (`since`);
- the dashboard's connect button can be pressed again while the wallet asks, and then the
  address and the batches may be of different accounts (`reconnected`); Refresh and the
  tabs drop a form that is submitting, and with it the answer (`abandoned`); an account
  may be shown as not onboarded with batches listed, as the two are read one after the
  other;
- the purchase page fills the e-mail field with the mask of the address, which the API
  then refuses: an owner with an address on record cannot add a webhook without typing the
  address again, and saving without the webhook clears it;
- `checkWallet` reports a wallet that has granted no access as connected with an empty
  address, and the page then has no connect button (`NoKey`).

Several of these are hazards that the properties do not catch but excuse, each through a
history variable or a named condition, so that what they say beyond it is checked: `lost`
in `LossesHaveCause` and in `LastSaveStands`, `LeftBehind` in `EventuallyMirrored`, `cut`
in `CameraIsAttended`, `reconnected` in `ShownIsOfWallet`. Their hazards in `PROJECT.json`
carry a note. `since` in `VerdictIsOfLastRequest` confines its hazard to the overlap.

## 5. Proofs

Each module of proofs has `THEOREM Invariant == Spec => []IInv` by three facts (the
initial states satisfy `IInv`; every action keeps it, with one lemma per action; it
implies the properties), and from it the theorems below. `PageProofs` has two of these,
`Invariant` of the dashboard and `ScanInvariant` of the verify form. Every property of the
passing runs but the three of liveness is stated by a theorem. The constants are any that the
module's `ConstantsAssumption` allows, and the bounds of the runs are among them: the
theorems hold for any number of addresses, requests, faults, crashes and events. The assumptions
say that bounds are naturals and that `None`, `NoCode` and `NoKey` are none of the values they
stand beside; those that carry an argument are named below.

| module | theorem | property |
|---|---|---|
| `RegistryProofs` | `TypeCorrect`, `Invariant` | `TypeOK`, `IInv` |
| | `IndexesAlwaysConsistent` | every list enumerates the records it indexes |
| | `SerialAlwaysGenuineOnce`, `RecallsAlwaysCoverGenuineSerials`, `ReceiptsAlwaysHeldOnce` | the invariants of these names |
| | `EventsAlwaysMirrorStorage`, `EventsAlwaysCausallyOrdered` | the events rebuild the storage, in the order the indexer relies on |
| | `VerdictAlwaysStable` | `VerdictStable`, an action property |
| | `RecallStorageAlwaysAppendOnly` | no step changes, withdraws or reorders a stored recall |
| | `RecallsAlwaysAppendOnly` | `RecallsAppendOnly`: nor does a reader see that, an action property |
| | `MyRecallsAlwaysExact` | `MyRecallsExact`: what the two loops of `get_my_recalls` return |
| | `LedgerImplemented` | `ImplementsLedger`: the contract implements `ProvenanceLedger` |
| `IndexerProofs` | `MirrorAlwaysSound`, `LossesAlwaysHaveCause` | `MirrorSound`, `LossesHaveCause` |
| | `RerunAlwaysChangesNothing` | `RerunChangesNothing`, an action property |
| | `MirrorImplemented` | `ImplementsMirror`: the indexer implements `Mirror` |
| `NotifierProofs` | `NotifiedAlwaysCoversEntitled`, `ResendsAlwaysBounded`, `SendsAlwaysOnRecord` | the invariants of these names |
| | `NotifiedAlwaysFinal` | `NotifiedIsFinal`, an action property |
| `VerifyApiProofs` | `VerdictsNeverContradict`, `UnregisteredAlwaysExpires`, `AnswersAlwaysShowRecalls` | the invariants of these names |
| `WalletClientProofs` | `TimeoutAlwaysFinal`, `ReportsAlwaysTrue`, `RepeatsAlwaysNeedLostAnswers` | the invariants of these names |
| `AlertPreferencesProofs` | `MaskIsNeverStored`, `LastSaveAlwaysStands` | the invariants of these names |
| | `OnlyOwnersWrite` | `OnlyOwnerWrites`, an action property |
| `PageProofs` | `ShownAlwaysOfWallet`, `RecallsAlwaysNameOwnBatches`, `RepeatsAlwaysNeedALostForm` | the dashboard's invariants of these names |
| | `ListOnlyGrows` | `ListNeverShrinks`, an action property |
| | `ScanInvariant` | `ScanInv` |
| | `VerdictAlwaysOfLastRequest`, `CheckingAlwaysMeansPending`, `CameraAlwaysAttended` | the verify form's invariants of these names |
| `DeployProofs` | `RecordAlwaysTrue`, `GivenUpAlwaysFinal` | `RecordIsTrue`, `GivenUpIsFinal` |

The arguments, and why the invariants are what they are:

- **Registry.** `SerialGenuineOnce` is not inductive: the overlap test of
  `register_batch` walks the manufacturer's list of batches, so disjointness is kept only
  if that list has every batch of the manufacturer, and the list is found by the
  manufacturer's id, so ids must be one per address. `IInv` adds this: each list
  enumerates, without repetition, the records it indexes (`IndexesConsistent`), ids are
  below their counters, nothing is stored before `initialize`, ranges of one
  manufacturer's batches are disjoint, recalls and receipts lie in their batches. It rests
  on lemmas about `Append` on sequences without repetition and about `Put`. The events are
  a history of the storage: each action adds one record and its event, and ids below the
  counters make the event new. For the refinement, the initial states map to initial
  states and every action maps to one action of the ledger or, when the contract refuses,
  to a stutter.
- **The reads of the Registry.** `Records`, `AddRecallsOf` and `get_my_recalls` are loops,
  written as functions of the number of rounds done. The prover has no induction over
  predicates, so two lemmas stand in for it: `IntervalInduction` (a set that has 0 and is
  closed under the successor up to `L` is all of `0..L`, by its cardinality) and
  `StepByStep` (a function defined round by round exists). Each read is shown to run
  through its rounds (`RecordsOfPresent`, `AddRecallsLoop`, `MyRecallsLoop`), and each
  round of `get_my_recalls` to keep its result an enumeration, without duplicates, of the
  recalls met so far that cover a receipt (`RecallRoundEnumerates`). That no id is skipped,
  which the reader's list needs to grow only at its end, is `RecallIndex` of `IInv`.
- **Indexer.** `LossesHaveCause` speaks of the cursor row, which only the end of a poll
  writes. `PollOK` says what the poll has established at each of its places: while it
  handles events, the rest of its page is a stretch of the chain and all events before that
  stretch, or behind it in the last ledger, are accounted for (`PageFollows`); before the
  row is written, all up to the next cursor are. A batch whose manufacturer has no row needs
  the manufacturer's event to have been lost, which holds as the chain has that event
  earlier (`ChainOK`) and everything earlier is accounted for; so a placeholder stands for a
  lost event (`RowsHaveCause`), which in turn excuses the manufacturer's later collision
  with it. `ChainOK` and `CountersOK` are what the contract guarantees of its events. That a
  second reading changes nothing follows from the subjects of events being unique and from
  rows having their events, not from the handlers alone.
- **Mirror.** A step of the indexer publishes one fact, adds one row or is a stutter. That
  a batch keeps its maker, though manufacturers come and go as placeholders, is the unique
  key of the rows (`MakerStays`); that the maker is the published one is `MirrorSound` and
  the uniqueness of events (`MakersAreTrue`). A call that fails and a crash leave at most a
  placeholder, which the mirror does not see (`MakersAlone`).
- **Notifier.** A recall is marked after its last owner: `CoverageOK` says that each
  entitled owner is in the list of owners read, waits in the job's list or has an alert, and
  that an alert is pending only for those who wait and the one at hand. That rests on
  receipts and preferences being there to stay (`AlertsOK`) and on a list with
  each owner once (`JobOK`, `QueueOK`). `SendsOK` charges every message sent before the
  present attempt to an earlier fault or crash.
- **VerifyApi.** `CacheOK`, `ScansOK` and `RequestOK` bound what a cache entry, a scan
  on record and a request may not know yet. An entry of unregistered was made by a request
  that answers within `MaxDuration` and lasts for `TTL`, so it expires at most
  `MaxDuration + TTL` after the batch was indexed; a request that finds it came in before
  that and answers within `MaxDuration`: the bound of `UnregisteredExpires`.
- **WalletClient.** `WaitAssumption` (60 s of validity and a pause are less than 90 s of
  waiting) gives `WaitOutlastsTx`: a form gives up only when its transaction's time bounds
  are over and it was not applied. `TransactionsOnce` has a transaction applied
  once, and `AbandonedByFaults` charges each one a form let go of, though it may be applied,
  to a lost answer.
- **AlertPreferences.** `PageOK` has the types of a save on its way, and
  `OneSaveAtATime` says that a save not lost is the page's last, and that what is on
  its way back as stored is on record, or was overwritten by a later or a lost one. That
  is what `LastSaveStands` needs to survive a late answer.
- **ScanForm.** `OneRequestAtATime` has the requests pending among those a scan overlapped
  and the last, and the form busy while that is one; and `RefIsOfScanner` the `scannerRef` of the scanner shown for every camera
  that starts or runs, but those cut off while starting.
- **Dashboard.** `ShownIsOfWallet` needs `LoadsAreOfWallet`: until two wallet requests are
  open at once there is one load at a time, for the account connected, and what it has read
  is that account's. `RepeatsNeedALostForm` is not inductive, as it does not say why each
  recall of a batch was sent: `RepeatsAccountedFor` takes those issued or underway, leaves
  out the ones whose form was dropped and the one the form waits for, and charges the rest
  to lost answers, but for one if the page has said that the recall is issued.
  `SubmissionsOK` says that a submission is one operation, done at most once, and that the
  form waits for one that is not known to be done. The counts are cardinalities of sets of
  submissions, which is where the library's theorems on finite sets come in.
- **Deploy.** A run sends one transaction per stage, in order (`OneOfAStage`); a status is
  true of the ledger (`ResultsAreTrue`); what was given up is not pending, so cannot be
  applied later (`GivenUpAtTheEnd`); and the record is written with the contract
  initialized (`WriteIsLast`).

Left to TLC: all liveness (`EventuallyMirrored`, `EventuallyNotified`, `RunEnds`, and the
violated `BackfillCompletes`), as the prover has neither fairness nor ENABLED.

## 6. Not modelled

- Ledger timestamps and storage lifetimes of the contract; resource limits and
  archival of entries.
- Texts of alerts, transaction and event encodings, parsing of parameters and bodies, JSON, rendering, configuration,
  rate limits, logging, containers and CI.
- The manufacturers, analytics and health routes and the analytics panel: each is one
  read of the tables or the contract, with no state of its own and nothing to race with.
- The home, verification and recall pages and the user-interface components, which show
  what one request returned.
- Cryptography: a signature is who signed what, and a salt is fresh.

## 7. Plan

In order; done so far: 1 to 15.

1. `Registry`: the contract, its invariants, `IInv`, and the proofs of the safety
   invariants and of `VerdictStable`.
2. `ProvenanceLedger` and `RegistryRefinement`.
3. `Indexer`, with the causes of losses and a node whose retention is shorter than an
   outage.
4. `Notifier`.
5. `VerifyApi`.
6. `WalletClient`.
7. `AlertPreferences`: the purchase page, the masked address that the form is filled
   with, the signed upsert, and the wallet changing under it.
8. `ScanForm`: overlapping verifications, and the cameras.
9. `Dashboard`: connections, loads and forms that overlap.
10. `Deploy`: interrupted and repeated deployments.
11. Proofs of the safety properties of `Deploy`, `AlertPreferences`, `ScanForm`,
    `WalletClient`, `VerifyApi`, `Notifier` and `Indexer`.
12. Of the contract, `EventsMirrorStorage`, `EventsCausallyOrdered`, the append-only storage
    of recalls and `ImplementsLedger`.
13. `RecallsAppendOnly` and `MyRecallsExact`: what the contract's loops return.
14. `Dashboard`: an inductive invariant for `ShownIsOfWallet`, `RepeatsNeedALostForm` and
    `RecallsNameOwnBatches`, checked by TLC and then proved.
15. `Mirror`, an abstract specification of the tables, implemented by `Indexer`: checked,
    then proved.
16. Indexer and Notifier composed over shared tables, so that a recall on chain leads to
    alerts, with the rows of `Mirror` as the notifier's environment.
