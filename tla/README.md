# MyShopEdge in TLA+

Models of the parts of MyShopEdge that change state while something else can happen,
the TLC configurations that check them on small instances, and proofs of the central
ones for every size.

MyShopEdge keeps the books of UK TikTok Shop sellers: a FastAPI service
(`service/app`), a Postgres schema (`schema/*.sql`), a Next.js web application
(`web/src`) and a few operator scripts. Every database access of the service runs in
`db.tenant(account)` or `db.unscoped()`: one READ COMMITTED transaction, rolled back
as a whole when the handler raises. Handlers run in a thread pool, several at a time and
in several processes; nothing orders them but row locks and unique indexes. Stripe,
TikTok, the identity provider and an object store are called over HTTP, between or
inside those transactions.

## 1. Inventory

| component | state | operations | what is hard | what makes it correct |
|---|---|---|---|---|
| Stock adjustments (`stock.py`) with idempotency keys (`idempotency.py`, `0023`) | `stock_positions`, `stock_movements`, `idempotency_keys` | `createStockAdjustment` = replay, lock the position, write the movement and the position, record the key | retries that overlap the first request; retention running out; two lock orders; a crash between writes | a key moves the count once; the count is its ledger's sum; never below zero; a stored answer is true; no deadlock |
| Adjustment form (`AdjustForm.jsx`, `api.js`) | busy flag, message | press, answer, lost answer | the answer is lost after the commit | what the form says of the count is so |
| Billing (`billing.py`, `0018`) | one `subscriptions` row; at Stripe: customers, subscriptions, answers per idempotency key, events | `startTrial`, `getSubscription` with refresh, `receiveStripeWebhook` | five steps over two systems; events late, repeated, out of order; a search index that lags | the row says only what Stripe said of its subscription; no second subscription for one key; the row exists before an event can arrive; an incomplete row is refreshed |
| Unit costs (`costs.py`, write loop of `cost_uploads.py`, reader `products.py`) | `product_costs` with one current row per variant (partial unique index) | supersede and insert, one variant or many | two writers of one variant; uploads that lock in opposite orders | one current cost; closed periods keep theirs; all rows of an upload or none |
| Cost uploads (`cost_uploads.py`, `CostUploadFlow.jsx`) | `cost_uploads` row, two objects in the store, apply's key | file, mapping, match, apply | no lock on the row; the store is outside the transaction | only what the seller was shown is applied |
| Sign-in (`auth.py`, `0011`, `0016`, `0017`) | `accounts`, the provider's `users_sync` | `require_account` over three transactions | first requests race; the provider syncs late, changes an address, deletes a row; closed accounts | one account per subject and per address; closed accounts stay closed |
| Shop connection (`connections.py`, `0021`, `deleteMe` in `me.py`) | `shops`, `tiktok_connections`, `tiktok_auth_state` | authorize, callback, disconnect, sweep, deletion | the callback carries no token; two HTTP calls between spending the state and storing the shop | a state is spent once; shop and tokens together; disconnected means revoked |
| Migration runner (`migrate.py`, `0015`) | `schema_migrations`, the schema files | one run: read the ledger, refuse on a changed file, apply the pending files | two runners; a failing file; files replaced under a run | a file's SQL is committed once, in order, where the ledger says |
| Transactions and tenancy (`db.py`, `0001`, `0003`) | session setting, RLS | `tenant`, `unscoped` | what a rollback covers | part of every model: a transaction is all or nothing |
| Discrepancies, notifications (`discrepancies.py`, `notifications.py`) | status columns, `change_log`, `idempotency_keys` | resolve; mark read, done | two decisions of one row, one a retry; a key that meets another's commit | a decision stands; each is logged once, with what it replaced |
| Exports (`exports.py`, account export in `me.py`, `storage.py`) | `exports` rows, objects, one storage credential in a module global | create, look up, download | the object before the row; a credential renewed by several threads while the store drops it | a ready job has its object; a dropped credential costs a retry, not the request |
| Cost files (`cost_files.py`) | none | parse, read an amount, match to variants | blanks, types a spreadsheet changed, a variant on two rows | at most one cost for each variant |
| Ledger and its postings (`schema/0001`-`0014`, `ingest.py`) | `ledger_entries`, `orders`, `settlement_statements`, `returns`, `stock_movements`, `stock_positions` | post an order, a statement, a return | a figure split over lines it does not divide over; entries that no line owns | no penny lost or invented |
| Screens (`money_view.py`, `products.py`, `today_view.py`, `returns.py`, `settlements.py`, `stock.py`, `tax.py`, `sync_status.py`) | none | reads of one to six statements | arithmetic on pence, dates, months; commits between the statements | two screens that show one figure show the same |
| Lists (the same files, `records.py`, `discrepancies.py`, `notifications.py`) | a cursor in the client | page by page | rows arrive, leave and change between pages | no row twice, none lost |
| Settings (`alert_settings.py`, tax profile, invoice numbers, other channels' sales) | a row each | upserts | what they refuse; who reads them | part of the screens |
| Web pages, operator scripts | none of their own | render; check | - | - |

Interactions. The web form drives the stock service through `Idempotency-Key`; the
upload flow drives four handlers and the costs' write loop; `startTrial` and the webhook
meet in one row; `deleteMe` meets the callback and `disconnectShop` in the shop's row and
`require_account` in the account's. Resolutions and both exports share the table of keys
and its protocol with the adjustments. The screens read, a statement at a time, what the
sync and every other handler commit.

## 2. Modules

| module | models | reads as |
|---|---|---|
| `AtMostOnce` | what an idempotency key promises: a request is open, then performed, repeated or declined | abstract specification |
| `StockAdjustment` | `createStockAdjustment`, its row locks and key locks, crashes, the sync, the clock | implements `AtMostOnce` (`KeepsOncePromise`) |
| `AdjustForm` | the form composed with the whole of `StockAdjustment`: it EXTENDS it, `Service` is its `Next` restricted to requests the form sent | composition |
| `Billing` | start, read, webhook, Stripe | one module: the row joins them |
| `CostBook` | what "setting a cost never overwrites one" promises: lines added to a book | abstract specification |
| `SkuCosts` | writers of `product_costs` in Postgres' steps (snapshot of the update, wait, unique index, deadlock victim) | implements `CostBook` (`KeepsCostBook`) |
| `CostFile` | what the cells of a file parse to and match | operators, no state |
| `CostUpload` | the four handlers of one upload, the store and the row; EXTENDS `CostFile` | |
| `AccountAccess` | a request from claims to an account | |
| `ShopConnection` | authorize, callback, disconnect, sweep, deletion | |
| `Migrations` | concurrent migration runners | |
| `Requests` | a request with a key or none, and the table of keys, for the two modules below | |
| `Decisions` | `resolveDiscrepancy`, `updateNotification` | |
| `Exports` | `createExport`, `getExport`, the account export and its download, the client of the object store | |
| `Backoffice` | `Decisions` and `Exports` in one service; implements `AtMostOnce` (`KeysKeepPromise`) | composition |
| `Ledger` | the tables as one statement sees them, `money.py`, categories and periods | operators |
| `Posting` | what `ingest.py` posts | operators from tables to tables |
| `Products`, `MoneyView`, `TodayView`, `Tax`, `Reports`, `Lists` | what each screen or list makes of what its statements saw | operators |
| `Books` | a seller's requests over the books while they change; EXTENDS `Posting` and the six above | composition |
| `Accounts` | the account ids, which `AccountAccess` and `ShopConnection` share | constants |
| `StockAdjustmentProofs`, `BackofficeProofs`, `CostProofs`, `MigrationsProofs`, `AccountProofs`, `BillingProofs`, `BooksProofs` | theorems of `StockAdjustment` and `AdjustForm`; `Backoffice`; `SkuCosts` and `CostUpload`; `Migrations`; `AccountAccess` and `ShopConnection`; `Billing`; `Books` | section 5 |
| `Sums` | what a finite sum, written as a fold, is for every set | lemmas, section 5 |
| `MC...` | model values, symmetry sets and the data of an instance for TLC | |

Conventions. One action is one step whose result another process can influence: a
statement that may wait or see another's commit, a call to another system, a commit.
Statements in between are folded into the step that makes them visible. A transaction's
writes take effect in its commit action; its locks exist from the statement that takes
them. `pc` names the place in the handler. `Fail`, `Crash` and `Rollback` are the death
of a request, its process or its connection at any place: the transaction is undone, what
another system has done already stays. Definitions whose comment starts with "Mutant:"
are variants with a plausible bug; each property is shown to fail when one of them
replaces the definition after it.

How state corresponds to code:

- `StockAdjustment`: `tiktok`/`adjusted` are the two count columns, `applied` the committed
  movements (named by their request, so a movement's quantity is `asked`), `keyRow` the
  key's row with the transaction's `now()`, `posLock`/`keyLock` the holders of
  `select ... for update` and of the primary key entry of an uncommitted delete or insert.
  The retention comparison uses the two transactions' start times as the SQL does.
- `Billing`: `row` is the `subscriptions` row; `want`, `cust`, `got` are locals of
  `start_trial`; `read` and `hook` are a `getSubscription` and the webhook between their
  call to Stripe and their write; everything under "Stripe" in `VARIABLES` is external,
  modelled from how the code calls it (answers per idempotency key, customer search,
  events until acknowledged, in any order). Stripe gives a subscription any status, those
  `_STATUS_MAP` does not list included, and any status may follow another until it is final.
  A read may go unanswered or die at any of its steps (`ReadFail`). The webhook handler is
  `async` and blocks the event loop, so one runs at a time in a process.
- `SkuCosts`: `saw` is what the update's snapshot found, `stamped` the row it will set
  `superseded_at` on, `owner` the writer with an uncommitted entry in the partial index.
- `CostUpload`: `file` and `rows` are objects (visible at the put, never undone),
  `status`, `mapping`, `counted` the row; `seen` the handler's locals; `shown` the results
  that reached the client, `applied` the costs written. A `row_id` is `<<match, row>>`
  because the code draws a new uuid for every row of every match.
- `AccountAccess`: `accounts` rows, `identity` the provider's table, `email` the local the
  handler carries between its transactions. `Create` is the look of `insert ... on conflict`,
  `Insert` the row going in, between which another sign-in may commit; the index on addresses
  is older than the one on subjects and is tried first, and only the latter is the clause's.
  The provider may change or delete what it synced at any time; `Suspend` is an operator's
  statement, `Close` is `deleteMe`'s, which asks nothing of the status.
- `ShopConnection`: `closing` is a `deleteMe` past its update of `shops`, whose rows it
  holds; `carries` what a callback took from the state and from TikTok.
- `Migrations`: `applied` is the dictionary read from the ledger once, `sql` the text
  read, `sum` the checksum (of the file as it is at the insert, as in the code).
- `Requests`, `Decisions`, `Exports`: `pc`, `ask` and `answer` are the place of a handler,
  what the client sent and what it was answered, and whose work the answer reports;
  `recorded` is `idempotency_keys`, by the requests that recorded in it, so the digest and
  the stored answer are those of the request. `held` are the row locks of `select ... for
  update`, `log` is `change_log`. `objects` is the store, `exports` the table, `session`
  the module global `_session_key` as the number of the epoch it was minted in, `epoch`
  what the store accepts, `cred` the credential a thread has in hand. `stale` is history:
  whose call met a credential that was dropped while the call was made.
- `Books`: `commits` is the sequence of all states the tables have had, each commit
  appending one; a statement's snapshot is a position in it. `reader.saw` are the positions
  the statements of the request have read so far, `reader.shown` the answers and what each
  was read from. That is READ COMMITTED: every statement of one transaction sees the
  latest commit. A table is a set of records with the columns that some screen reads.

## 3. Runs

`Books` checks deadlock: a seller may always ask again. All other runs use
`CHECK_DEADLOCK FALSE`: each request is made once, clocks and events are bounded, and a
state in which all is answered is an end. That nobody waits for ever is what
`SomeoneProceeds` and `EveryWriteEnds` are for.

| run | shows | bounds, and why they suffice |
|---|---|---|
| `StockSafety` | `TypeOK`, `OncePerKey`, `DeltaIsLedgerSum`, `CreatedIsTrue`, `SomeoneProceeds`, `NeverBelowZero`, `KeepsOncePromise` | 3 requests (first, overlapping repeat, repeat after expiry), one key or none, one variant (all contention is on one), quantities -1, 0, 1, stock up to 1, retention 2 ticks, a transaction lasts at most 1, clock to 3 so that a key can expire |
| `AdjustFormExact` | `AnsweredFormIsExact` | two presses, two keys |
| `BillingHostile` | `StatusWasReal`, `RowBeforeSubscription`, `OneSubPerKey`, `OnlyStripeUnconfirms`, `IncompleteHeals` | two starts of two plans over one key, two customers, two subscriptions, a search that lags, five statuses at Stripe, of which one maps to itself, one to another and one is unknown to the code; three events in any order, any of them repeated. More keys or events pass the five minutes; starts without a key are the subject of the theorems, which hold for any `Key`, and of the next run |
| `BillingOutOfOrder` (violated) | `MirrorWhenQuiet` | one start, one subscription, no key: two events are enough |
| `Costs` | `OneCurrentCost`, `KeepsCostBook`, `EveryWriteEnds` | three writers (one commits between another's snapshot and its wait), two variants in both orders (the smallest deadlock), two dates |
| `UploadSafety` | `AppliedWasShown`, `MatchedHasRows`, `KeyAppliesOnce`, `OneCostPerVariant` | four requests: two matches, a replaced file or mapping and an apply; two readable files and one that is not; files name a variant twice, with blanks around the key or without a cost on one of the rows |
| `AccessSafety` | `OneAccountEach`, `ClosedStaysClosed` | two concurrent requests, reused without end, two subjects, two addresses, identities synced, changed and deleted without bound |
| `AccessClosed` (violated) | `ClosedIsNotServed` | the same |
| `ConnectionSafety` | `StateSpentOnce`, `ShopHasTokens`, `DisconnectedIsRevoked`, `ShopStaysWithItsSeller`, `SpendableSurvives` | three callbacks over two states, one shop two sellers claim, clock to 4 so that a state expires and is swept |
| `MigrationsRace` | `LedgerIsTrue`, `AppliedInOrder`, `DoneIsComplete` | three runners, three files, one edit, any set of files backfilled |
| `Backoffice` | `ReadyHasObject`, `StaleIsRecovered`, `DecisionsStand`, `KeysKeepPromise` | three requests of any kind (two share the credential or the row while a third follows), one key or none, one row of each table, a discrepancy that can be corrected and one that cannot, one form, the store drops its credentials once; two forms of one digest are told apart by the two resolutions. For every size: section 5 |
| `Books` | `ScreensAgree`, `DetailEndsAtKept`, `PagingExact`, `SplitKeepsPence` | 442,968 states: months of two days, so that the fourteen months to day 28 hold a year's window and both sides of each boundary; four orders (a line figure that does not divide, a refund, a fee nobody mapped, one cancelled), two statements (one with a penalty and a reserve), three returns (checked, cancelled, waiting); two commits after the start, which is one between any two statements or pages and one more; pages of one row |

Every bound is a constant marked `BOUND` in its module. Symmetry is used only in runs
without liveness, over sets whose members the specification does not tell apart.

Fairness. `SkuCosts!FairSpec`: weak fairness of a writer's own steps, that is, the server
and Postgres go on with what they accepted; starting a request and dying are not fair.
A deadlock's victim is one of those steps (Postgres' detector). `Billing!FairSpec`, for
`IncompleteHeals` only, is an assumption about the surroundings and nothing the code gives:
the seller keeps opening a page that reads the subscription, which is weak fairness of
`ReadRow`; and Stripe and the database do not fail every one of those requests, which is
strong fairness of `ReadList` and `ReadWrite`, since `ReadFail` may end a read before either.
If Stripe never answers, the row stays incomplete: the code falls back to it
(`billing.py:366-367`). Nothing is fair of starts, events or `ReadFail`. No other run needs
fairness.

## 4. What the runs found

Two runs end in a violation, each of a statement this repository makes:

- `AccessClosed`: `schema/0017` says suspension takes effect on the next request. A closed
  account does not resolve; `require_account` then takes the caller for a new seller,
  and `create_account`'s conflict clause returns the closed account's id (`auth.py:292`).
- `BillingOutOfOrder`: `billing.py:211-213` says events may arrive out of order because each
  handler writes the subscription's current state. The subscription events write the snapshot
  they carry (`billing.py:239`), so an older one that is delivered after a newer one leaves the
  row behind Stripe, every event acknowledged. `StatusWasReal` is what remains true: the row
  says what its subscription once was.

The modules state further sentences of the documentation that the code does not keep, or
keeps only under a condition. They are not among the runs; add one as an INVARIANT to see
its trace:

| property | where the sentence is | what happens |
|---|---|---|
| `StockAdjustment!RepeatReturnsFirst` | `idempotency.py:3` | a repeat that overlaps the first gets the unique index's error, not its result |
| `AdjustForm!RetryMovesCountOnce` | `schema/0023:7-8` | the key keeps a retried request from moving the count twice, but the form makes a new key at every press (`AdjustForm.jsx:38`) |
| `AdjustForm!UnreachableChangesNothing` | `AdjustForm.jsx:42`, the same words in other forms | a request whose answer is lost may have committed |
| `SkuCosts!RankingUsesCostInForce` | `products.py:193` | two rows of one effective date tie in `distinct on` |
| `CostUpload!DoneMeansApplied` | `CostUploadFlow.jsx:196` | a second match replaced the rows; the apply writes none and answers 200 |
| `ShopConnection!ClosedHasNoLiveToken` | `me.py:194-195` | a callback past its state stores live tokens for an account closed meanwhile |
| `ShopConnection!OtherSellersShopIsRefused` | `connections.py:413-420` | row-level security raises before the 409 branch |
| `Migrations!ChecksumIsOfWhatRan` | `schema/0015:36` | the checksum is of the file as it is at the insert, not as it was read |

`SkuCosts!ClosedPeriodKeeps` holds when it is added to `Costs`; no plausible slip of the
writers breaks it, so it is left out of the run.

Writing billing and sign-in down showed these, which no property states:

- After a change of plan the old subscription's end, once it is delivered, overwrites the
  state of the new one, where `schema/0018:141-142` lets a seller change plan "without
  stranding a row"; and a start that Stripe does not accept has already set the plan.
- Two starts may leave the row on a customer that has no subscription (`billing.py:263`): the
  refresh finds nothing there. `IncompleteHeals` asks nothing of such a row.
- `schema/0017:59-61` says that two simultaneous first requests make one account rather than
  one account and one error. The clause is on the subject; a second request with the same
  address that comes to the insert meets the index on addresses first and is answered 409
  `email_already_linked` (`AccountAccess!Insert`).
- An identity the provider has deleted reads as one not synced yet (`db.py:107`), so its
  caller is told to try again for ever.

Writing the screens down showed these, which are visible in the definitions and which the
properties of `Books` leave room for:

- `products.py:526-528` and `money_view.py:241-242` say that two screens cannot disagree.
  They are read in several statements, a product's detail even in two transactions, so a
  posting in between shows: `DetailEndsAtKept` has it as a condition. The detail finds its
  headline in the ranking's first page; a product behind `MAX_LIMIT` others reads as zero.
- `stock.py:404-405` says the pace, the money and the products screen cannot disagree; the
  pace leaves out platform adjustments (`PaceAgrees` says by how much).
- `money_view.py:438-443` says that the payout is no deduction, and keeps its lines.
- `returns.py:22-23` says that the rate and the ranking count the same units; the ranking
  shows only products with an entry in the period.
- Today counts a variant without a *current* cost (`today_view.py:97`), Money one without a
  cost that took effect by the period's end (`products.py:202`).
- Two costs of one variant with one `effective_from`, which a correction on the same day
  makes, tie in `distinct on` (`products.py:199-204`), and each statement may take another.
  `Products!Retained` settles a tie in the same way in every statement, so what the screens
  are shown to agree on is up to such ties; `SkuCosts!RankingUsesCostInForce` is the case.
- The hero on cash basis compares a month's first day with single days: it shows money only
  on the first of a month.
- A product with entries but nothing sold has nothing kept, not null, in its detail's
  sections and null in its row.
- `rules.py:52` asks the server for today, which `dates.py:4-5` forbids.
- A list of returns is ordered by `coalesce(requested_at, created_at)`; a request time that
  arrives late moves the row. The model's times are fixed when a row is posted. The ranking
  pages by an offset (`products.py:369`), which repeats or skips a product whose rank moves:
  `PagingExact` is about the lists that page by key.
- Two figures of one transaction that map to one category collide on
  `ledger_idempotency_idx` (`schema/0004:17-20`), and so do two unsellable items of one
  return: the instance has neither, `PostingAssumption` says so for figures.
- `post()` leaves out an amount of 0 (`ingest.py:172`), but the caller then writes the
  statement on the last entry there is (`ingest.py:284`, `:291`): an adjustment or a reserve
  of 0 would move an entry of another. `PostingAssumption` has none.
- The type of `seller_shipping` is no part of a product's net proceeds or of its losses, so
  the row's kept leaves it out (`products.py:232`), while the detail has a section for it: with
  such an entry the sections would end above or below the headline. Nothing posts one of a
  variant (`ingest_order_export.py:60` only prints it); `FiguresOK` says so.
- `storage.py:32-33` assigns the global and reads it back, so a thread may return what
  another has kept; `StaleIsRecovered` says what the promise of `storage.py:9-11` comes to.
- `me.py:225-228` describes a queued job; the code answers with one that is ready.

## 5. Proofs

`StockAdjustmentProofs` proves, for any sets of requests, keys and variants, any integer
quantities and any bounds:

| theorem | property |
|---|---|
| `TypeCorrect` | `TypeOK` |
| `InductiveInvariant` | `IInv` |
| `OncePerKeyHolds` | `OncePerKey` |
| `CreatedIsTrueHolds` | `CreatedIsTrue` |
| `NeverBelowZeroHolds` | `NeverBelowZero` |
| `SomeoneProceedsHolds` | `SomeoneProceeds` |
| `DeltaIsLedgerSumHolds` | `DeltaIsLedgerSum` |
| `AnsweredFormIsExactHolds` | `AnsweredFormIsExact`, of `AdjustForm`'s `FormSpec` |
| `ImplementsAtMostOnce` | `KeepsOncePromise`: every step is a step of `AtMostOnce` or a stutter |

Assumptions: `TimeAssumption` and the naming assumptions of `StockAdjustment`. The one
that carries weight is `2 * MaxAge <= Retain`: a transaction is open for at most half the
retention (24 hours), so that a row made while a request was open cannot have expired for
another request that is open with it. `SomeoneProceeds` rests on it.

The argument. `OncePerKey` is not inductive: nothing in it says what a key's row
remembers. `IInv` adds, in named parts: `DoneInv`, a movement belongs to a finished
request and only finished ones are answered; `KeyLockInv`, a key is held by a request of
that key that saw no live row, and a request past `record()` holds its key; `KeyRowInv`,
a key's row names the latest movement made under it; `PosLockInv`, a position is held by
the request adjusting it, whose below-zero check still holds. At a commit, the key is
held, so its row is absent or expired for the committing request, so every earlier
movement under the key is older than the retention allows the new one to be a repeat of.
`NeverBelowZero` follows from `PosLockInv` at the commit and from the sync's guard
otherwise. `IInv` was checked by TLC as an invariant before it was proved. `SomeoneProceeds`
needs `AgeInv` besides: a key's row a request did not see when it looked is at most `MaxAge`
older than that request. One that holds a key before it has its position deleted a row that
was a retention old; so it is never what a request at `record()` waits for (`HolderIsPast`),
and every chain of waiting ends at a request that can commit. Each step
of `InvStep` has a lemma of its own (`SubmitInv`, `EndInv`, `CommitInv`, ...); the
refinement uses `IInv` on both sides of a step.

`DeltaIsLedgerSum` adds up quantities with a fold, whose recursive function the community
modules choose. `Sums` shows that there is one such function over the subsets of a finite
set, that it is the only one, that the sum does not depend on the element that is taken
first (`TakeAny`) and hence grows by what joins the set (`AddOne`). It needs no induction
theorem: a family of subsets of a finite set has a smallest member (`Smallest`), so there is
no smallest counterexample. `SumInv` says that the movements are finitely many and that each
shelf's count is the sum of its own; a commit adds one element to one of these sets.

The form is exact because of its keys, not of its answers. `FreshKeyInv`: no two of its
requests carry one key, and all ask for what it wishes for; so the answer of a request tells
of that request and no other (`OwnMovement`). `MovedInv`: a movement's request was answered
with 201. `HeardInv`: while no answer is lost, every request but the one the form waits for is
over, and the one that moved the count is that one or the one that cleared the form. The
movement whose answer was lost is the case `AnsweredFormIsExact` leaves out and section 4
lists.

`BackofficeProofs` proves, for any sets of requests, keys, forms and values, any number of
rows and of dropped credentials:

| theorem | property |
|---|---|
| `ServiceInvariant` | `IInv` |
| `BackofficeTypes` | `TypeOK` |
| `ReadyJobsHaveFiles` | `ReadyHasObject` |
| `CredentialsAreRenewed` | `StaleIsRecovered` |
| `DecisionsAreFinal` | `DecisionsStand` |
| `KeysAreHonoured` | `KeysKeepPromise`: every step is a step of `AtMostOnce` or a stutter |

Assumptions: `RequestsAssumption`, `DecisionsAssumption`, `ExportsAssumption` and
`BackofficeAssumption`, which name what stands for "no key" and ask for one credential.

The argument. `ReadyHasObject` needs to know that whoever is at the insert has put
(`ObjectInv`); `DecisionsStand` that whoever is at the commit holds the row and that the row
still is as it was read (`HeldInv`); `StaleIsRecovered` that a second call has the credential
of the hour unless one was dropped on its way (`CredInv`); the refinement that whoever
recorded a key did what it asked for, and that every keyed effect is recorded
(`RecordInv`). `AskInv` ties the three programs' places to the requests that can be there.
`SendInv`, `MoveInv`, `RefuseInv`, `RecordKeepsInv` and `ReplayInv` say once what a request's
arrival, step, refusal, commit and replay do to all of it, so that an action's lemma is left
with what it does to its own table. For the refinement, `SendKeeps`, `RefuseKeeps`,
`RecordKeeps` and `ReplayKeeps` do the same; operations without a key stutter (`Unkeyed`).

`CostProofs` proves of `SkuCosts`, for any number of writers, variants and orders in which requests name
them:

| theorem | property |
|---|---|
| `CostsInvariant` | `CostInv` |
| `OneCostIsCurrent` | `OneCurrentCost` |
| `CostsKeepTheBook` | `KeepsCostBook`: every step is a step of `CostBook` or a stutter |

Assumption: `SkuCostsAssumption`, a request names at least one variant and none twice.
`OneCurrentCost` alone does not say why a commit may trust what its writer stamped some
steps ago. `HeldInv` does: a variant a writer has claimed, by a stamp or an insert, is its
own until it ends, so the row it stamped still is the current one; `RowsInv` ties the
table to the book. Hence a commit adds one line to every variant it names and replaces the
line that is last (`StampedCurrent`), which is a step of `CostBook`.

`MigrationsProofs` proves, for any number of runners, files, contents and failures:

| theorem | property |
|---|---|
| `RunnersInvariant` | `IInv` |
| `TheLedgerIsTrue` | `LedgerIsTrue` |
| `FilesApplyInOrder` | `AppliedInOrder` |
| `DoneLeavesNothing` | `DoneIsComplete` |

A row of the ledger is never changed or removed; a runner with an uncommitted row is the
only one for its file, which the ledger does not have (`InsertInv`, the primary key); what a
runner has read there, and every file it has left behind, is in the ledger (`SeenInv`).

`AccountProofs` proves of `AccountAccess`, for any number of subjects, addresses and requests at once:

| theorem | property |
|---|---|
| `AccessInvariant` | `IInv` |
| `AccountsStayApart` | `OneAccountEach` |
| `ClosedAccountsStay` | `ClosedStaysClosed` |

`AccessAssumption` names what is no address and asks for a subject. `AddressInv` says that a
request on its way to the insert has an address to insert. The rest of the invariant is
`OneAccountEach` itself: what the indexes let in meets no row by its number, its subject or
its address, whoever came between the look and the insert, and no other step adds a row.
`ClosedStaysClosed` is proved from the same invariant: the two steps that write a row that is
there write its status only, and neither writes `active`.

`AccountProofs` proves of `ShopConnection`, for any number of accounts, shops, states and callbacks:

| theorem | property |
|---|---|
| `ConnectionInvariant` | `ConnectionInv` |
| `StatesAreSpentOnce` | `StateSpentOnce` |
| `ShopsHaveTokens` | `ShopHasTokens` |
| `DisconnectedMeansRevoked` | `DisconnectedIsRevoked` |
| `ShopsStay` | `ShopStaysWithItsSeller` |
| `SpendablesSurvive` | `SpendableSurvives` |

`SpentInv` says that the state a callback carries is spent or swept, and was of the callback's
account; without it nothing keeps a second callback from the same state. `PlaceInv` says what
a callback has at each place, `LockInv` that a deletion holds rows of its own account's shops
only, so that its sweep over them revokes what it disconnects.

`CostProofs` proves of `CostUpload`, for any requests, keys, files, mappings and bounds:

| theorem | property |
|---|---|
| `UploadInvariant` | `IInv` |
| `AppliedRowsWereShown` | `AppliedWasShown` |
| `MatchedUploadsHaveRows` | `MatchedHasRows` |
| `KeysApplyOnce` | `KeyAppliesOnce` |
| `VariantsGetOneCost` | `OneCostPerVariant` |

Assumptions: `UploadAssumption` and `CostFileAssumption`. A result is what one match read, and
stays so once the match has read it (`Made`), so a row's identifier names one row of one
result however matches overlap. `ResultInv` says so of whatever is stored, shown or in
someone's hands, `AskInv` that identifiers a client sends come from results it was shown, and
`AppliedInv` ties each cost to the result its request read and its key to its request. Two
matched rows of one result are of two variants because `CostFile` marks the second a
duplicate (`MatchedOnce`), which with one result per request is `OneCostPerVariant`.

`BillingProofs` proves, for any customers, subscriptions, requests, plans, keys and statuses, any
number of events, events in any order, and whether or not the search lags:

| theorem | property |
|---|---|
| `BillingInvariant` | `IInv` |
| `StatusesWereReal` | `StatusWasReal` |
| `RowsComeFirst` | `RowBeforeSubscription` |
| `KeysMakeOneSubscription` | `OneSubPerKey` |
| `OnlyStripeUnconfirmsHolds` | `OnlyStripeUnconfirms` |

Assumption: `BillingAssumption`. Every object in an answer, an event or a handler's hands is one
Stripe once said (`HeldInv`), what is about to be written is one of those or a failed payment's
`past_due` (`PlaceInv`), and the answer Stripe keeps for a key is about the subscription the
key made (`KeyInv`). A step keeps what was told of a subscription or writes what an object in
hand tells (`ToldOrKept`). Nothing about the order of events is used, which is the point: they
may overwrite a newer status with an older one, never with one that was not. That the row says
what Stripe says *now* is not true (section 4), and no condition on the surroundings that the
code could rely on makes it so.

`BooksProofs` proves of `Books`, for any questions, postings, other commits, page sizes and
tables at the start, and any number of commits:

| theorem | property |
|---|---|
| `PagingExactHolds` | `PagingExact` |
| `AllocateIsExact` | the parts of `Allocate` add up to the total, for any weights |
| `SplitKeepsPenceHolds` | `SplitKeepsPence` |
| `DetailEndsAtKeptHolds` | `DetailEndsAtKept` |
| `ScreensRely` | `ScreensInv`, with the two invariants it stands on |
| `ScreensAgreeHolds` | `ScreensAgree` |

Assumptions: `BooksAssumption`, `PostingAssumption` and `ListsAssumption`. They say what the
schema does of the tables at the start and of what is posted (a primary key of numbers and a
time in every table that is listed, no two rows with one key), that the ledger at the start
has what was posted of its orders (`PostedOK`), that a transaction has lines and each of them
once (`ingest.py:193-205`), that a return is of an order with lines, that amounts, quantities
and costs are numbers and an entry of a variant has a category that is posted of one
(`FiguresOK`), that the entries, the statements and the orders at the start are such as
postings leave them (`SettledOK`), that nothing is dated after today, that what a statement
has beside its orders names one of its own orders or none (`ingest.py:279-294`, and
`generate_payloads.py:225`, which writes them), that a line sold no negative number of units,
and that a question about a list names one and has a limit above zero and a period has two
days and a basis; the run evaluates them on its instance.

The invariant of the pages is `PagingInv`. `HistoryOK`: every commit leaves the tables as the schema says
(`CommitOK`, with a lemma for each of the thirteen commits). `ReaderOK` is what a request has
in hand. `PagesOK` is the heart: the cursor of a page is the last of its keys, every key of a
later page comes after it, and what was listed all along has been shown or comes after the
last cursor. That the keys of one list are totally ordered (`KeysOrder`) rests on identifiers
of one length, `RowRanks` on there being finitely many: of the rows after a cursor, each has a
rank of its own, so a page of `limit` ranks loses none (`PageShows`). A commit between two
pages may add, remove or decide rows, but moves none, so no page overlaps an earlier one.

`AllocateIsExact` is about the arithmetic. Summing `total * w = all * base + rest` over the
parts says that the pence left over are the sum of the remainders divided by the sum of the
weights, so at least none and at most one for each part. The order of the remainders is
total (the earlier part first among equals), so the ranks below that number are those of as
many parts (`FirstRanks`), and one penny for each makes up the total. `PartsAreExact` has the
same for the equal weights of a transaction's lines, and that the parts are a whole share or
one more. The invariant `SplitInv` says that the ledger has, of each transaction whose order is in
the books, exactly what was posted of it, each entry once (`PostedOK`), whatever a statement
has written on the entries since: a statement rewrites them all, and an adjustment, a payout
or a write-off has an identifier of its own. A part of 0 has no entry; leaving it out does not
change the sum (`SumZeros`).

`DetailEndsAtKept` compares two sums that the code takes by different roads: the headline sums
entries by their type, the sections sum lines, which are sums of entries by category and fee.
The invariant `DetailInv` says that the books can be added up at every commit (`FiguresOK`,
with a lemma for each posting) and that an answer is what the handler makes of the commits its
statements saw, whatever was committed since. Then, for one ledger: the lines of any categories
add up to their entries (`LinesAddUp`, from `SumGrouped`; a line of 0 is not shown and does not
count); a type counts as proceeds exactly if its category is in one of the first two sections
(`TypesAre`, `ProceedsOf`); the computed cost and what returns lost make up the rest, whether
the last section is shown or not (`SectionsReach`). That the headline is the product's own row
needs the ranking to have an order at all: finitely many rows, compared by whether their cost
is known and by what they kept, can be placed (`AboveOrders`, `RankExists`), so a page holds
rows of the ranking (`RankedPage`) and one of them with the product's name is its row
(`HeadlineIs`). A product beyond the first page has no known cost in its headline, and the
property asks nothing of it.

`ScreensAgree` compares eight pairs of screens, each of which has a figure by two roads. The
invariant `ScreensInv` says what they have in common (`SettledOK`), and `ScreensRely` that every
one of the thirteen commits keeps it: an entry has the type of its category and a day that is
not after today (`RecordOK`); an entry that a statement has is of an order that is settled, an
entry that none has of one that is not, and what a return writes off comes when no statement is
left that would settle its order (`SettledWith`); what is reconciled of a statement is what it
paid (`Reconciled`, `Paid`); a variant has one count. The commit that could break what is
reconciled is a statement's: its payout is what its own entries come to, those it found posted and
those it posts, and nothing else ever names it (`StatementPays`). `SettledWith` is what
makes that inductive: a return posted before its order's statement would have its loss swept
into a statement that did not pay for it.

Of books like that (`Booked`), for each pair:

- the ranking and the Money screen (`RankingIsAgreed`): the products' rows and what belongs to
  no product add up to the entries of the categories (`RowsAddUp`, `ShownIs`), whatever types
  the ranking sums by; a total of kept figures is known only when every row's cost is
  (`KeptTotal`);
- the returns (`ReturnsAreAgreed`): the entries of the two types of loss are those of the two
  categories of the last part of the Money screen, and no others are between the two
  subtotals; a period whose days are reversed is refused a figure of returns, and none is
  compared;
- the pace (`PaceIsAgreed`): what TikTok adjusts is what the pace leaves out and the lines show;
- the VAT monitor (`VatIsAgreed`): the twelve months are all that begin from the first of them
  to today (`MonthsAre`), so a day from the first on falls in exactly one of them, and other
  channels' months outside them are shown by neither;
- Shop Money (`ShopMoneyIsAgreed`): what is ever generated is the net proceeds of all time, and
  what is paid out is, statement by statement (`AmountGrouped`), what each of them paid
  (`PaidOutIsPaid`, where `ScreensInv` does its work);
- the records (`RecordsAreAgreed`): the sum beside a list of one category is that of its lines;
- what needs the seller (`NeedsAreAgreed`): each count is the number of rows of the list it
  leads to, and an item is left out exactly when that number is 0 (`OutRows`, `NeededCounts`);
- a settlement's detail (`StatementsAreAgreed`): what it nets is what it paid.

Sums over sets are compared by naming what is summed: `SumRenamed`, `SumGrouped`, `SumUnion`
and `SumZeros` carry a figure from rows, lines or months back to the entries under them.

The invariant of every one of these modules was checked by TLC before it was proved;
`ScreensInv` on the instance of `Books`, all of its states.

Every safety property of a passing run is proved. Only model-checked: the liveness
properties (fairness and ENABLED are out of the prover's reach).

## 6. Not modelled

- Formatting, labels, problem texts, CORS, logging, the layout of CSV, XLSX and ZIP files,
  the web pages other than the two flows named above, environment checks, local scripts.
- The bytes of a cost file and the guess at its columns: `CostFile` starts at the cells.
- Signature verification of tokens and events, encryption of TikTok's tokens: external,
  assumed to work.
- The TikTok sync itself, which is not in this repository; its effect on counts and shop
  status is an external action, and its postings are those of `ingest.py`.
- Postgres is modelled at READ COMMITTED with row locks, unique indexes and its deadlock
  detector; statement timeouts are part of `Fail`.
- Several service processes: handlers interleave freely anyway; only the webhook's
  one-at-a-time rests on a single event loop.
- `updateMe`, the billing-portal link, the plan catalogue, `listSkuCosts`: each reads, or
  writes one row that nothing modelled reads.

Simplifications a reader should know of:

- A key never expires in `Requests`; that boundary is `StockAdjustment`'s subject, and the
  code of the two is the same.
- Of several filters of a list `Lists` keeps one, of the alert settings the low-stock days.
- One currency, one shop, amounts that fit: there is no overflow in Python's integers.
- Modules whose `TypeOK` is not in a run's list state it for the reader; `StockSafety` checks
  its own, `BackofficeProofs` proves `Backoffice`'s.

## 7. Plan

What is done: the modules of section 2. What a later extension would do first:

1. Liveness of the back office: a request that is not interrupted is answered, under
   fairness of the service and a store that drops its credentials finitely often.
2. The account's other tables under deletion: which rows of an account closed in the middle
   of an export or an upload remain.
3. Proofs of the liveness properties need a prover that takes fairness and ENABLED; the
   invariants they would start from are the ones of section 5.
