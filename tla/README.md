# APIPool portal: specification and proofs

TLA+ specifications of the part of APIPool that handles money: the gateway that serves
API requests through New API and bills them, the asynchronous image tasks, the prices
and the usage they are billed by, the prepaid wallet, the top-up payments and the
administrators' adjustments; of the worker that compares the bills with New API's log;
and of the part that gives the gateway its access to New API: the users' bindings, the
runtime credentials, the users' keys and the quota.  The modules are checked with TLC on
small instances, and the central ones are proved for every instance with TLAPS.  Paths
below are relative to the repository (`src/features/...` of the portal).

## 1. The system and its parts

The portal is a Next.js process (one or several) over one SQLite file.
SQLite has a single writer, so **one statement or one transaction is one atomic
step**; everything else interleaves: request handlers at every `await`, the
background workers, webhooks, browsers' callbacks, administrators.  New API
(the upstream), the payment provider and the users' clients are external.

| component | state it keeps | operations | talks to |
| --- | --- | --- | --- |
| wallet (`features/wallet/server`) | `wallet_account` (balance, freeze), `wallet_ledger` (append only) | append an entry, freeze, unfreeze, adjust, reverse a charge | called inside the transactions of settlement and payment |
| request ledger (`gateway/server/admission.ts`, `settlement.ts`) | `request_ledger` (status, New API id, charge) | admit, capture id, mark failed, settle | wallet |
| gateway handler (`handler.ts`, `auth.ts`, `forward.ts`) | module counter `inflight`; the handler's own variables | authenticate, check, admit, forward, capture, relay, finalize | request ledger, wallet (read), New API, credentials |
| image tasks (`image-tasks.ts`) | `gateway_task` (status, lease) | register, claim, fetch, retry, fail, complete | request ledger, New API |
| usage worker (`backfill.ts`) | none | waive old and abandoned rows | request ledger |
| reconcile worker (`reconcile.ts`) | watermark, `reconcile_orphan_observation`, observation columns | replay New API's usage log | request ledger, New API |
| job loop (`jobs.ts`) | `gateway_job_lock` (holder, heartbeat) | acquire, renew, run the workers in turn | all workers |
| runtime credentials (`credentials.ts`) | credential and retirement rows, a cache | ensure, provision, retire, invalidate, rotate, disable | New API, bindings |
| portal keys (`portal.ts`) | `portal_api_key`, `newapi_key_binding` (keys from before the wallet) | create, disable, delete; legacy keys at New API first | New API |
| runtime quota pool (`runtime-pool.ts`) | columns `runtime_pool_*` of the binding; the quota itself lives at New API | provision, watch, replenish | New API |
| routing, snapshots (`routing.ts`, `catalog-route-snapshot.ts`) | versioned routes and prices | resolve, snapshot, retire | catalog |
| pricing and metering (`gateway/lib`) | none | normalise usage, compute a charge | — |
| payments (`app/api/payment`, `shared/services/payment.ts`, `shared/models/order.ts`) | `order.status` | checkout, notify, callback | provider, wallet |
| New API bridge (`features/newapi-bridge/server`) | user bindings, adjustment ledger | bind, disable, restore, sync e-mail, adjust quota | New API |
| catalog and its administration | catalog, prices, groups | edit, publish | snapshots |
| accounts, roles, UI, content, extensions, deployment, metadata filter | — | — | — |

### What is hard, and what makes each part correct

* **Request ledger and wallet.**  Four parties end a row: its handler, the usage
  worker, the reconcile worker and, for images, the task worker.  Correct means:
  one of them wins, for good; a settled row and its wallet entry are one fact;
  nobody is charged twice or for a call that is not known; the balance is the sum
  of the ledger; a user never holds more risk slots than allowed.
* **Handler.**  The wallet is read once and used later; the in-flight slot is given
  back on some twenty paths, in part before the last write; terminal writes are
  retried and then given up; the process may stop at every `await`.  Correct means:
  slots are neither leaked nor returned twice, debt has a bound, every row converges.
* **Image tasks.**  Leases expire while a batch is polled, stale polls write
  last, the sweeper ends rows behind the worker's back.  Correct means: task and row
  agree, the end a client was told stays, and every end is told.
* **Payments.**  Notifications are repeated, late, concurrent with callbacks, and
  work on an order read earlier; some writes of the status are not guarded; a payment
  in another currency or of too small an amount is refused on every delivery.
  Correct means: paid and credited are one fact, once, only for a full payment, and a
  full payment that was announced arrives.
* **Adjustments.**  Calls with one idempotency key race between lookup and unique
  index and are retried on a locked database.  Correct means: applied once, and every
  answer is true.
* **Bindings.**  Any page or worker may provision a binding; each provisioning voids
  the access token of the one before, remote calls stand between every read and its
  write, and most writes are by id.  Correct means: an active binding works, a disable
  lasts until it is lifted, and is lifted once.
* **Runtime credentials.**  A worker finds or creates tokens in several remote steps
  while requests, rotations and disables change the rows, and may fail, stop or lose
  its lock after each.  Correct means: a retired token is not used again, a disabled
  credential is not brought back behind the administrator's back, retirements and
  waiting rows come to an end.
* **Reconcile worker and job lock.**  The log is written late and between two pages,
  slices are halved, the list of all users fails and the users are listed one by one;
  the lock is a heartbeat without a fencing token, so a process that was replaced still
  writes.  Correct means: the watermark leaves no entry behind and never moves back,
  what was read leaves a trace that fits the row, every settled call is compared.
* **Route and price versions.**  Configuration, active route and active price are three
  reads, publishing is a transaction later, and an administrator edits meanwhile.
  Correct means: one configuration in force routes and prices a request, whatever is
  published later, and what was admitted can be charged.
* **Usage.**  It is read from an answer that passes by in chunks, cut and broken off
  anywhere, in a buffer with a limit, in five shapes; totals contain their parts, long
  contexts have prices of their own, charges are rounded up.  Correct means: what is
  extracted is what was said, however it was cut; what is billed is what was reported,
  and a recomputation from the row arrives at the same amount.
* **Portal keys.**  A user's calls race over rows they have read; the deletion of a
  legacy key is a request to New API that may be lost, refused or late, before the row
  is written.  Correct means: what the user was told is revoked, or is no longer shown,
  works nowhere any more.
* **Quota pool.**  The quota is measured, and overridden by a later request that may be
  lost or late; the worker, the hourly pass and the operator's script may do so at once,
  and a failed pass is repeated.  Correct means: nothing is taken away from a user who
  has more, but for a credit given between the two, and a pool is provisioned once.
* **Quota adjustments.**  New API has no idempotency keys, and the process may stop or
  lose an answer anywhere.  Correct means: a row that is closed tells the truth, and
  nothing new starts while the outcome of another adjustment is unknown.

`PROJECT.json` lists these hazards one by one, at their lines.

## 2. Modules

```
Wallet ──┬── RequestLedger ── Gateway ── ImageTasks
         │             └── (refines) RequestBilling
         ├── Payments ────┐
         └── WalletAdjust ┴── Accounts

WalletProofs ──┬── GatewayProofs ── ImageTasksProofs
               └── AccountsProofs

UserBinding ── Credentials ── CredentialsProofs

QuotaAdjust ─┐
PortalKeys ──┼── BridgeProofs
RuntimePool ─┘

JobLock ── Reconcile ── ReconcileProofs

Pricing ──┬── Catalog ──────────────────────────────┬── BillingProofs
          └── Metering ── UsageExtraction ── UsageFlow ┘
```

* **`Wallet`**: the two wallet tables and the statements that write them.  Its
  operators are conjuncts of other modules' steps, as the functions of `ledger.ts`
  run inside their callers' transactions.  `balance`, `frozen`, `walletLedger` are the
  columns of the same names.
* **`RequestLedger`**: the `request_ledger` table and its conditional writes, each with
  the `WHERE` clause as a guard.  `LedgerStep` collects all that any part of the
  program may do to these tables: admission, capture, waiving and settlement of a
  request, a recharge or a manual adjustment of any amount (`OtherRefs` are their
  references), a freeze and its lifting; the theorems are proved about it once.
* **`Gateway`**: the synchronous handler as a process per request.  `pc` is the place
  of the last `await`; the comment at `HandlerStates` says what each means.  `held` is
  the negated `cleaned` flag, `inflight` the module counter, `answer` and `usage` what
  the handler knows of the response.  The workers write the same tables: `Sweep` is
  the usage worker, `ReconcileRow`, `ReconcileOrphan` and `ReconcileWrite` the reconcile
  worker (which reads, awaits and then writes).  `WalletEvent` is what payments and
  administrators do to the wallets meanwhile: recharges, freezes, and adjustments
  (`ApplyManualAdjustment`), which may debit a wallet at any time, frozen or not, and
  never freeze one.  `Crash` empties the memory and leaves the tables.
* **`ImageTasks`** extends `Gateway` with the branch for asynchronous images: the
  submission replaces what follows New API's response, and `poll` processes claim,
  fetch and end tasks; payments and administrators act as in `Gateway`.  Several polls run at once, which covers a batch that outlives
  its leases as well as two workers that both believe they hold the job lock.
* **`RequestBilling`**: the promise, without machinery: an accepted request is in the
  end charged once, in one step with the wallet, or waived.  `Gateway` and `ImageTasks`
  refine it (`ImplementsBilling`): `bill` is the row's status, `paid` is read from the
  wallet ledger, so the refinement also says that the two move together.
* **`Payments`**: an order from checkout to recharge, with the provider's session,
  the notifications still being sent, and requests (`delivery`) that handle the order
  as they read it.  A session is paid in full (`success`) or `short`, in another currency
  or of an amount that does not cover the order; `assertPaymentSessionMatchesOrder`
  refuses a short one (`Refuse`) with 500 on every delivery, as long as the order would
  be handled at all.
* **`WalletAdjust`**: `applyManualAdjustment` and `reverseRequestCharge` as calls that
  look up, try, fail, look up again and retry.
* **`Accounts`**: payments, adjustments and charges together on one wallet.
* **`UserBinding`**: the binding of one user and the calls of the bridge that work on
  it (`call`: the place of a call's last `await` and the access token it has been
  given).  `binding` and `access` are the columns `status` and
  `newapi_access_token_enc`; New API's side is that a new token makes every other
  "stale".  The password, the user's names and the group are left out but for
  whether the name is up to date (`named`), which decides between the two branches
  of `ensurePortalUserBinding`.  A user without an e-mail address (`hasEmail`) is blocked
  (`recordUsernameSyncBlocked`), by a write that no status guards.
* **`Credentials`** extends it with the credential and retirement tables of that user,
  the tokens at New API, the requests and administrators that write the tables, and
  one worker (`worker`: what `runCredentialWorkerOnce` has read and where it stands)
  which waits for a binding by a call of its own.  `mismatched` says that the row's last
  error names tokens that cannot be adopted, which the catch block of the worker leaves
  as it is.  It stands alone: the gateway sees a
  credential only as one more early return.
* **`QuotaAdjust`**: `adjustPortalQuota` and the client's `adjustQuota` below it, with
  the one request that changes the quota on its way (`wire`) until New API has dealt
  with it (`landed`), which may be after its sender has given up.  No route calls this
  code at this commit; tests do, and its table is in use.
* **`PortalKeys`**: the keys of one user (`keyRow`: the status of each row) and the
  calls that work on them, one read or write a step.  `remoteKeys` are the legacy keys
  whose token New API accepts, `erasing` the deletions on their way.  The gateway sees
  a key only as one more early return.
* **`RuntimePool`**: the quota of one user at New API (`poolQuota`) and the passes that
  provision, watch or replenish it, with the override on its way (`overriding`) until New
  API has dealt with it.  `credited` and `provisions` are histories: which passes have
  measured the quota before its last credit, and the audit entries.
* **`JobLock`**: the lock's row and the controller of each process.  Times enter as two
  facts only: the last heartbeat is `stale`, the last question is `fresh`.
* **`Reconcile`** extends it with the passes of the reconcile worker in several
  processes: `job` is what each has read and where it stands, `log` New API's log in
  the order of insertion, `clock` counts the unit of slices and overlap.  `Gateway` has
  the same worker's writes as adversaries of a handler; here the handler is the
  adversary.
* **`Pricing`**: prices and charges as pure operators: what the discount makes of a
  price, what makes it valid, what usage costs under token, unit and duration prices.
* **`Catalog`** extends it with the listing and the pricing profiles an administrator
  edits, the versions of routes and prices (`routes`, `prices`; a row's position is its
  version) and requests that resolve, publish, are admitted and settled.  `seen` is a
  history: the configurations in force while a request resolved.
* **`UsageExtraction`**: the usage extractors of `sse-parser.ts` as machines that are
  fed one chunk after the other: events and lines, the buffer with its limit, the body
  scanner with the key `b64_json` whose value is skipped.
* **`Metering`**: how the usage of each endpoint becomes meters and columns of the
  ledger, and how reconciliation reads the columns back.
* **`UsageFlow`** composes them: an answer in chunks, its extraction, its metering,
  the charge at the admitted price, and the charge recomputed from the row.  `finalized`
  is the handler's flag of that name: a charge too large for an exact integer leaves
  the row open, though the handler is done with it.
* **`MCGateway`, `MCImageTasks`, `MCAccounts`, `MCBilling`** (of `MCCatalog` and
  `MCUsageFlow`), **`MCCredentials`, `MCBridge`, `MCReconcile`**: instances for TLC.
  `scene` chooses one of several parts that share no state but a table each writes in
  transactions of its own or only reads, or nothing but operators.
* **`WalletProofs`, `GatewayProofs`, `ImageTasksProofs`, `AccountsProofs`,
  `CredentialsProofs`, `BillingProofs`, `BridgeProofs`, `ReconcileProofs`**: theorems,
  and the lemmas they share.

Definitions named like a mutation (`LostUpdateAppend`, `CleanupTwice`, ...) stand
before the definition they vary.  No specification uses them; each is a plausible
mistake in that code which breaks the property it is listed with in `PROJECT.json`.

## 3. Runs

| run | checks | instance |
| --- | --- | --- |
| `GatewayRace` | balance = ledger; settled ⇔ charged once; one row per New API call; bound on debt; terminal rows final; overdraft freezes | 2 requests of 1 user, 2 ids, 1 handler at a time, 1 risk slot, 1 recharge, 1 debit by an administrator, 1 crash |
| `GatewayLive` | risk slots and in-flight slots at their limits; every row ends, every slot returns, refinement of `RequestBilling` | 3 requests of 1 user, one old row, 2 risk slots, 1 crash |
| `ImageRace` | task ⇔ row; ends are final; failures reported; refinement of `RequestBilling` | 1 task, 2 polls, 1 debit by an administrator, 2 faults, 1 crash |
| `AccountsRace` | paid ⇔ recharged once; only full payments credit; announced full payments arrive; answers are true; reversed once | 2 orders, 2 concurrent deliveries, 2 faults; or 4 calls under 2 keys, 2 attempts each |
| `BillingRace` | route and price paired; charged as quoted; requests end; extraction is faithful; no token lost or counted twice; charged exactly; reconciliation agrees | 2 requests, 2 edits, 1 profile, 2 groups; or 1 answer of each shape, cut anywhere, under 4 prices |
| `BridgeRace` | no retired token in use; the worker revives nothing; retirements end; waiting rows end; closed adjustments tell the truth; none starts in the dark; one key lands once; what is revoked stays revoked; the pool is only raised | 1 group, the worker and 1 more call, 3 tokens, 1 disable, 1 refusal, rotation or edit, 1 fault or crash, with and without an e-mail address; or 3 adjustments under 2 keys, any number of faults and crashes; or 3 calls on 2 keys of one name and a legacy key, one start of each kind that differs in names only; or 2 passes over a quota of at most 3 |
| `ReconcileRace` | nothing left behind; what was read leaves a trace; verdict fits the row; settled calls are compared | 2 processes, 2 calls, clock to 2, 1 fault, stall or crash |
| `ImageWaived` | **violated**: a completed task ends | as `ImageRace` |
| `CredentialsRetireStuck` | **violated**: a disabled user's tokens are disabled at New API | 1 group, 2 tokens, no faults |
| `BindingDeadToken` | **violated**: an active binding holds a working access token | 2 calls, no faults |
| `BindingDisableLost` | **violated**: only a restore ends a disable | 2 calls, no faults |
| `ReconcileBacklog` | **violated**: the worker catches up | 1 process, 2 old entries, no faults |

The violations are disagreements between the code and what its documents, comments and
tests say, and are described under `findings` in `PROJECT.json`.  In short: a slow image
task waived by the sweeper is polled for ever once New API has completed it; the tokens
of a disabled user stay enabled at New API; two calls that provision one binding can
leave it active with a void access token; a call in flight can undo a disable; a backlog
inside the overlap that must be split into more slices than one pass may finish stops the
watermark for ever.

The bound on debt (`OverdraftBounded`) is about what requests do: administrators may
take any amount from a wallet, and what they took is left out of the debt.  Nor does a
debit freeze a wallet (`OverdraftFreezes` says so of settlements): a wallet that
an administrator has overdrawn is refused by `auth.ts` for its balance.

A short payment was taken by the provider and stays announced, but is never credited:
`AnnouncedIsCredited` is about full payments, `OnlyFullPaymentsCredit` about the others.

`TokensConserved` says what the code does with every report, not that it is always
right.  A Messages report that names the cache writes of an hour only, beside a total that
holds them (`HourAlone`), agrees with itself, yet `billing.ts:162-165` takes the whole
total for writes of five minutes and adds those of an hour: the property and its theorem
have these tokens counted exactly twice (`CountedAgain`), in a row with the flag
`cache_write_sum_mismatch`, and charged so.  The fallback is written down
(`docs/design/group-pricing-profiles/DESIGN.md:119`), so that it is no disagreement
with the documents, although line 112 there has the meters disjoint.  Of a
report that contradicts itself (`Contradicts`) only the flag is claimed.

**Bounds.**  `MaxCrashes`, `MaxFaults`, `MaxAttempts`, `MaxCharge`, `RechargeAmount`,
`MaxDebit`, `MaxDisables`, `MaxUpsets`, `MaxTokens`, `MaxEdits`, `MaxTime`, `Delay`,
`MaxBuffer`, `MaxSafe`, `MaxPool` and the sets of requests, ids, polls, orders, deliveries, calls, groups,
processes, forms and answers are the only bounds; those of crashes, faults, disables,
upsets, tokens, edits and time are guards of the actions that count.  Two requests are
enough for the races over one wallet, since every race in the code is between two
writers of one row or one balance, and one id fewer than requests makes New API repeat
an id.  A charge of 2 against a recharge of 1 and a threshold of 1 makes overdraft,
automatic freeze and the debt bound bite within two charges; a debit of as much as a
charge may come before, between or after them.  One image task is enough because tasks share nothing but the wallet and the slots, which the gateway's runs race
over; its two polls are what the leases are about.  A user's credentials share the
binding and nothing else, so one group is enough; three tokens are one more than the
retirements that one disable and one upset can cause.  Two edits let a configuration
change and change back while a request resolves.  Prices are quoted per two tokens
instead of a million, lines have four bytes and the buffer fourteen, so that rounding,
an event cut in two and an overflow all happen within a few chunks; `MaxSafe` is the
largest charge that is exact.  One of the streams answers an image endpoint, whose
events the extractor does not read.  A slice is two units of the clock, the overlap and the
delay of an entry one, a page two entries, so that a slice is halved, an entry moves
from one page to the next, and entries arrive on either side of the watermark.  Three
adjustments are two that race under one key and one that must wait for both.  Three
calls on keys are enough for a key to be deleted and another created under its name
while a call that read the first is late.  A quota between -1 and
3 with a target of 2 is depleted, ready, at the target or above it; a second pass is
enough to be late (`low` is not reached with a mark of 1 and decides like `depleted`).  The theorems have no such bounds.

**Fairness.**  A handler that has entered goes on (`WF` of its step): the event loop
serves it and first-byte, idle, total and hard timeouts end every wait.  The usage
worker runs each tick of the job loop (`WF` of `Sweep`).  Polls that run go on, leases
run out, and a task that is due again and again is claimed (`SF`: leased tasks are not
candidates, so a batch cannot pass one over for ever).  The provider repeats each
notification of a full payment until it is answered (`SF`, because the bound on deliveries
may delay it), whatever else is notified; a delivery that has begun goes on.  The credential worker goes on and is
started again by the job loop every five seconds (`WF` of `WorkerProgress`, its call
for a binding included); that a retirement or a waiting row ends is claimed only if
the binding is active with a working access token from some time on.  A request
that resolves or settles goes on (`WF` of its step in `Catalog`), and so do the passes
of a live process in `Reconcile`, where a dead holder's heartbeat grows old.  Nothing is
assumed of clients, buyers, administrators and their calls, calls on keys or quota, New API's answers,
log and tasks, or crashes.
Runs with `CHECK_DEADLOCK FALSE` model systems that rest when nobody calls.

**Abstractions.**  In the gateway a price is a charge between 0 and `MaxCharge` and a
stream its outcome (complete usage, interrupted, nothing); `Catalog` and `UsageFlow`
have the prices and the streams without the races.  JSON is what it says: a usage object
is the parts it has, a pricing form the fields that decide, a SKU rule a function of the
facts of a request.  In an image body the word `b64_json` is one character, so that no
chunk ends inside it, and another character stands for any other text; whether the
items of `data` can be scanned is one fact of a body (`Unscannable`).  Foreign keys are
not enforced, which only adds steps. The comparison of a settled row with the log has no
figures: that it took place is the verdict.  Asynchronous tasks, which settle after
their entry has left the overlap, are never compared, and users without an active
binding are missed by the user fallback; `SettledIsCompared` and `NothingLeftBehind` say
so.  The hourly comparison of balances with ledgers is an alarm without state.  The
retries of `persistTerminal` are one step that succeeds or gives up, since a failed
attempt leaves no trace.  The age of a row is that its handler is gone: the hard timer,
started before the row is inserted, aborts the upstream call ten minutes before the
sweeper looks.  A poll's batch is its tasks, each on its own, which allows more
interleavings than the worker has.  The provider's session only moves forward.  The
credential worker is a single one, as the job lock intends; it may lose the lock between
two entries, as `keepAlive` reports.  The quota pool it provisions is a remote call that
may fail there, and a module of its own.  The process-local cache of keys is left out.  An adjustment's row grows older
than five minutes only after its call is over, since nothing but one statement lies
between the row and the marker that keeps it from being reclaimed.

## 4. What is proved

`GatewayProofs` first proves about one `LedgerStep`, for any users, requests, ids and
amounts: types, conservation of the balance, one row per id, that settling adds exactly
one entry to exactly one ledger, that only the admission statement adds a risk slot,
that terminal rows do not change, that money leaves a wallet by a settlement, which freezes
what it overdraws, or by an administrator's debit and in no other way.  It then proves that
every step of the gateway is a `LedgerStep` or leaves the tables alone
(`GatewayTables`) and concludes the theorems about its specification:

| theorem | property | argument |
| --- | --- | --- |
| `TypeCorrect` | (`TypeOK`) | action by action |
| `MoneyConserved`, `ChargedExactlyOnce`, `AttributedOnce`, `RiskLimited` | `WalletConserved`, `SettledIffCharged`, `OneRowPerUpstreamCall`, `RiskSlotsBounded` | conjuncts of `TableInv`, inductive for `LedgerStep` together with the types |
| `TerminalRowsAreFinal`, `OverdraftsFreeze` | `TerminalIsFinal`, `OverdraftFreezes` | step properties of `LedgerStep` under `TableInv` |
| `InflightIsExact` | `InflightExact` | `SlotInv`: only handlers in states before their cleanup own slots; without it a second cleanup could not be excluded |
| `DebtBounded` | `OverdraftBounded` | `Headroom`: the debt beyond administrators' debits (`Backed`) plus `MaxCharge` for each request of the user that may still charge (waiting for admission or holding a risk slot) stays within the bound; the bound alone is not inductive, since a settlement gives up a slot and takes money at once |
| `ImplementsBillingSafely` | safety half of `ImplementsBilling` | every `LedgerStep` maps to a step or a stutter of `RequestBilling` |

`ImageTasksProofs` reuses all of this: image requests share the actions of `Gateway`
before New API answers, and the new actions are shown to be `LedgerStep`s as well
(`ImageTables`), so that only the tasks themselves need an argument of their own.

| theorem | property | argument |
| --- | --- | --- |
| `ImageTypeCorrect` | `ImageTypeOK` | action by action; a poll under way has a request (`PollType`) |
| `ImageImplementsBillingSafely` | safety half of `ImplementsBilling` | `TableInv` holds of image requests too |
| `ImageInflightExact` | `InflightExact` | `SlotInv`, which leaving with a task preserves |
| `ImageMoneyConserved`, `ImageChargedOnce`, `ImageRiskLimited` | `WalletConserved`, `SettledIffCharged`, `RiskSlotsBounded` | conjuncts of `TableInv` again, which `LedgerStep` keeps whoever takes it |
| `ImageAttributedOnce` | `OneRowPerUpstreamCall` | another conjunct of `TableInv`: the id is written with the task, by the statement that refuses a repeated one |
| `ImageTerminalRowsAreFinal`, `ImageOverdraftsFreeze` | `TerminalIsFinal`, `OverdraftFreezes` | step properties of `LedgerStep` under `TableInv` |
| `ImageDebtBounded` | `OverdraftBounded` | `Headroom` again: a request that left with its task holds its risk slot until a poll settles it, so it is still counted (`ImageHeadroomStep`) |
| `TasksMatchRows`, `FinalTasksStay` | `TaskMatchesRow`, `TasksAreFinal` | `TaskInv` adds that a task, and a poll's task, belongs to a request whose handler is gone; without it a late submission could overwrite a completed task |

`CredentialsProofs` is about `CredentialsSafetySpec`, for any number of groups, calls
and tokens:

| theorem | property | argument |
| --- | --- | --- |
| `CredentialsTypeCorrect` | `CredentialsTypeOK` | action by action, bindings and credentials apart |
| `RetiredNeverInUse` | `NoRetiredTokenInUse` | `CredInv`: a row the worker has read has not become active since and has kept its token or lost it; the blacklist covers what is retired for the row at hand, and that row's token.  Nothing but the worker is shown to do more to a row than take its token away (`Gentle`), and a token taken away is one the blacklist has |
| `WorkerRevivesNothing` | `WorkerNeverRevives` | every write of the worker is guarded by the row's status |
| `DisablesRestoredOnce` | `EachDisableRestoredOnce` | `RestoreInv`: while the user is disabled there is a disable more than restores |

`AccountsProofs` is about `AccountsSafetySpec`.  `WalletProofs` has what the gateway
and the accounts share, the lemmas about appending to a ledger.

| theorem | property | argument |
| --- | --- | --- |
| `AccountsTypeCorrect` | `AccountsTypeOK` | `TypeInv` adds that a call which may still try has an attempt left, and who knows what of a payment: an order is paid only if its session is, a session only after its page was shown, and notifications and callbacks carry what the provider still says |
| `MoneyIsConserved` | balance = ledger | every append conserves it |
| `PaidOrdersAreCredited` | `PaidIffRecharged` | `RechargeInv`: a recharge row is that of a paid order, its payer's and of its amount, and a paid order has one; needs that an order's session, once paid, is what every late delivery reports |
| `OnlyFullPayments` | `OnlyFullPaymentsCredit` | `TypeInv` and `RechargeInv` again: a session that was paid, short or in full, stays so, and a delivery carries what it said |
| `AdjustmentsAnswerTruly` | `AnswersAreTrue` | `ReversalsMatch`: the row under a call's key has the wallet and amount its command asked for, also after a lost answer or behind a rival; `UniqueRows`: a key has one row in all ledgers |
| `ReversalsAreUnique` | `ReversedOnce` | `UniqueRows` with `ReversalsMatch`: a reversal stands in the wallet of its charge, for the opposite amount |

`BillingProofs` has three parts.  The one about `Catalog` leaves the pricing operators
unexpanded, so its theorems hold for every price sheet.  The one about `UsageFlow` proves
what those operators compute, for every usage an upstream may report and every price a
profile may hold.  The third is about `UsageExtraction`, for responses of any length and
any buffer:

| theorem | property | argument |
| --- | --- | --- |
| `VersionsArePaired` | `SnapshotsPaired` | publishing and retiring write both versions in one transaction, on top of `ShapeInv`, the shapes of the rows and of what requests carry |
| `VersionsAreImmutable` | `PublishedIsImmutable` | an insert adds a position, a retirement changes one column |
| `ChargesAreQuoted` | `ChargedAsQuoted` | `QuoteInv`: once resolved, a request holds the two versions of one configuration that was in force while it resolved (`Quoted`), and settling charges under it |
| `TokensAreConserved` | `TokensConserved` | the buckets of each endpoint add up to its total (`BucketsAddUp`; `MessagesAddUp` with what is counted again), reports that contradict themselves or are counted again are flagged (`ExceptedAreFlagged`), output has columns of its own (`OutputHeld`), normalisation only renames them (`NormalizedNames`), and a column holds the bucket of its meter (`ColumnsHold`) |
| `ChargesAreExact` | `ChargedExactly` | one rounding for all meters priced by the million and exact prices of web searches (`TokenParts`); the sum over meters is the sum over columns under other names (`TotalRenamed`) |
| `ReconciliationNeverDisputes` | `ReconciliationAgrees` | `ColumnsRoundTrip`: columns and flag give back the meters they were filled from, although two meters share a column |
| `ExtractionsAreFaithful` | `ExtractionIsFaithful` | `ExtractionInv`, see below |

The three about the bill rest on `BillInv`, what a settled row says of its bill, and on lemmas
about finite sums: the sums of `Pricing` run over a set in the order `CHOOSE` takes its
elements, and `TotalTakes` shows that every order gives the same.  It is proved by a
smallest counterexample (`SmallestOf`: the natural numbers are well-ordered), which is
how induction over finite sets is done throughout.

`ExtractionIsFaithful` is far from inductive: of an extractor in the middle of a line or
of a picture it only says that it would answer nothing new.  `ExtractionInv` adds that the
bytes still to come are the rest of the response, and `At(resp, n, ext)`, which says of
every place `n` in a response what an extractor that has read so far looks like:

* of a stream (`StreamAt`), that `n` is `q` bytes into line `k + 1`, that these are carried,
  and that usage and completion are those of the first `k` lines;
* of a body (`BodyAt`), that all that has arrived is carried;
* of an image body (`ImageAt`), that `n` is the end of a token (`Between`) or `o` characters
  into a string (`Inside`).  `pos` and `kpos` are the places where the tokens end in the
  text as it arrives and in the text without its pictures; what is carried is the second
  up to `kpos`, the mode says which of the tokens before was the key or its colon
  (`AfterKey`, `AfterColon`), and `escaped` is what reading the string alone gives.

`AtFed` shows that one byte takes `At` from `n` to `n + 1`, `AtChunk` that a chunk of `m`
takes it to `n + m`, and `AtAnswer` that `finish` anywhere answers `ReadAtOnce`.  An
extractor that overflowed has kept too much, since what is kept only grows (`ImageKept`).
The induction over bytes, lines and tokens that this needs is over sets of numbers
(`AllNumbers`): such a set is a constant, where an induction theorem would want an
operator.  `FedNothing` and `FedOneMore` do for the fold over a chunk, and `Places` for the
flattening of lines and tokens, what their definitions over all sequences do not give
at once.

`BridgeProofs` is about `QuotaAdjust` and, apart from it, `PortalKeys` and `RuntimePool`,
for any number of calls, keys, passes and crashes:

| theorem | property | argument |
| --- | --- | --- |
| `ClosedRowsAreTrue` | `ClosedIsTrue` | `QuotaInv`: a call reaches New API only after its row carries the mark (`Sends`), and what closes a row has proved how the call ended (`Proves`) |
| `KeysLandOnce` | `KeyLandsOnce` | `OneRowPerKey` with `Sends` |
| `AdjustmentsStartKnown` | `AdjustedWhenKnown` | a row that does not block has an outcome that is known, or no mark and nothing sent (`UnblockedIsVoid`) |
| `RevocationsHold` | `RevokedStaysRevoked` | `KeysInv`: rows only go forward (`RowsForward`), a creation has its key to itself until it is inserted (`KeysAreFresh`), and a call that saves a deletion knows that New API has forgotten the token (`CallKnows`) |
| `PoolIsOnlyRaised` | `PoolOnlyRaised` | `LowUnlessCredited`: a pass about to override has measured a quota that calls only lower, as long as nobody credits it; an absolute override by another pass stays at the target |

`ReconcileProofs` is about `Reconcile` with its job lock, for any number of processes,
calls, users, faults and pages:

| theorem | property | argument |
| --- | --- | --- |
| `ReconcileTypeCorrect` | `ReconcileTypeOK` | action by action; `TypeInv` adds what a pass carries at each stage (`WellStaged`) |
| `NothingIsLeftBehind` | `NothingLeftBehind` | `ReadInv`, see below |
| `ReadEntriesLeaveATrace`, `VerdictsFitTheirRows` | `ReadLeavesTrace`, `VerdictFitsRow` | `RowInv`: a row that a worker has read and is about to write has since moved forward at most (`RowKnown`), and verdict, status and telemetry of a row fit (`Fits`) |
| `WatermarkNeverMovesBack` | `WatermarkMonotonic` | the write compares with the stored mark; nothing is needed of the mark the pass began with |

`NothingLeftBehind` alone is not inductive: it says nothing of a pass under way, which
will move the watermark over what it has read.  `ReadInv` says of every pass, in
each process and whether or not it still holds the lock, that its slices are in order and
end before the clock, and that everything that can no longer be inserted is done behind
its mark and behind its queue (`SlicesBehindAreDone`), within the slice at hand for the
users already listed (`ListsBehindAreRead`), and within the list for the pages already
fetched (`PagesBehindAreRead`).  The last is about places: the listing starts with the
newest entry, so an insertion moves an entry to a later page and never to an earlier one.
The theorem has the hypothesis `Delay <= Overlap`, that New API inserts an entry no later
than the overlap after its call.  The code relies on it (`OVERLAP_MS`); with a longer delay
an entry may appear behind the watermark, where no pass looks.  `since` is a history,
the start of the first pass, because what lies before its lookback was never to be read.

The theorems rest on the named assumptions on the constants and nothing else:
`WalletAssumption`, `RequestLedgerAssumption`, `GatewayAssumption`,
`ImageTasksAssumption`, `UserBindingAssumption`, `CredentialsAssumption`,
`PaymentsAssumption`, `AdjustAssumption`, `AccountsAssumption`, `CatalogAssumption`,
`QuotaAdjustAssumption`, `PortalKeysAssumption`, `RuntimePoolAssumption`,
`JobLockAssumption`, `ReconcileAssumption`, `UsageFlowAssumption` and `ResponsesAssumption`,
all of which the runs evaluate; `NothingIsLeftBehind` also on its hypothesis, which the runs' constants satisfy.
`UsageFlowAssumption` has the shape of a price as `WrittenByProfile` says the profile
editor writes it: with other units the largest would be no common one.
`ResponsesAssumption` says that responses have the shapes `BytesOf` takes and that the body
of an image answer is JSON text (`WellFormed`: quotes in a string are escaped, a value is not
a key).  Nothing is assumed of where it is cut or broken off, of what its strings hold, or
of which events a stream has.

**Only proved**, since they hold for every instance: `PublishedIsImmutable`,
`WatermarkMonotonic` and the type invariants.

**Only model-checked:** every liveness property (`RowsConverge`, `SlotsReleased`,
`FailuresReported`, `AnnouncedIsCredited`, `RetirementsEnd`,
`PendingEnds`, `RequestsEnd`, `SettledIsCompared`) and the liveness half of
the refinement (`ImplementsBilling`), which are out of the prover's reach.  Every
safety invariant and action property that a run checks has its theorem.

## 5. Not modelled, and the plan

Left for later: the process-local cache of keys, and
`updatePortalUserEmailWithNewapiSync` (`portal.ts:880-1129`), which changes a user's
e-mail address here and at New API and which no route or action calls at this commit.

Observed in `RuntimePool` and kept there as behaviour: a quota below zero, which the last
call before exhaustion leaves, is refused as an illegal value (`runtime-pool.ts:55`), so
that no pass and no script can replenish it.

Left out for good, because there is no state or no choice in it that a property could be
about: header and request-body scanners (their verdicts are inputs of the model),
subscriptions (not on sale, they write the legacy credit table), read-only views, usage
snapshots (`getPortalUsage` has no caller at this commit), the catalog's texts and
forms, seed scripts and migrations, the provider SDKs below `extensions/payment`,
third-party authentication, role tables, the metadata filter and the user interface.
Pages, components, texts and provider wrappers are most of the repository's lines; the
modules cover the server code that money and access depend on.
