# iStore ERP — TLA+ verification project

This directory holds a TLA+ model of the parts of the iStore ERP that decide
what stock there is, what customers have paid, which bills reach the cloud
portal, what becomes of a sale made offline, of a message or a verification
code sent by WhatsApp, and of an update of the desktop application; TLC
configurations that model-check it on small instances; and proofs, checked by
TLAPS, of its main safety properties for every size of instance.

`PROJECT.json` is the machine-readable index: components, runs, the mutation
that must break each property, the source lines of every definition, hazards,
findings and theorems. Paths below are relative to `src/`; back-end files are
in `backend/app`, pages in `frontend/src`.

## 1. The system

iStore is an ERP for phone shops: a FastAPI back end over SQLite (SQLAlchemy
ORM), a React front end, an Electron shell and a Node service for WhatsApp.
Nearly all business rules are in the back end; the other three keep state of
their own where they must go on without it. Concurrency comes from these
places:

* **Request threads.** Handlers are synchronous functions that FastAPI runs in
  a thread pool, one SQLAlchemy session per request (`database.py:51`,
  `autoflush=False`).
* **Background threads.** Checkout starts a thread that flushes the outbox; so
  do an endpoint and other handlers.
* **The scheduler** (`services/backup_scheduler.py:128`): a job each minute for
  portal bills, `max_instances=1`, beside backups.
* **The page of the till.** Clicks, timers and the browser's online event
  interleave at every `await`; a request outlives the patience of the page (15
  seconds in `lib/api.js`).
* **The WhatsApp service.** One Node event loop with a message queue, a
  watchdog, the bridge to the cloud portal, and a browser that answers when it
  likes or not at all.
* **The Electron main process.** Handlers of two screens, timers of the
  updater, and the exit, interleaved at every `await`.

SQLite admits one writer. A session reads without a lock, and keeps the rows it
loaded: a later query for the same row returns the loaded object and does not
refresh it. The write lock is taken at the first INSERT, UPDATE or DELETE. So a
handler falls into two halves, *reads* and *writes + commit*, and everything
that is decided from a copy read in the first half may be stale in the second.
Handlers that draw a document number first (`next_number` is an upsert) read
the rest under the lock. An UPDATE contains only the columns that differ from
the loaded copy, so two stale writers of different columns both survive.

In JavaScript nothing runs between two `await`s, so an action of these models is
one stretch from an `await` to the next, and what was looked at before an
`await` may be stale after it.

### Inventory of components

| Component | State | Operations | Hard behaviour | What makes it correct |
|---|---|---|---|---|
| Stock quantities and movements (`pos_router`, `inventory_router`, `advance_router`, `repair_router`, `purchase_router`, `invoices_router`, `return_service`) | `inventory_items.quantity`, `stock_movements`, the documents | checkout, refund, void, reserve, invoice a reservation, GRN and cancel, parts, adjust, stock take | stale read-modify-write, reversals in any order, holds | quantity = what documents say; history reconciles; holds of others respected; nothing reversed twice |
| Advances and invoice payments (`advance_router`, `advance_service`, `payments_router`, `pos_router`) | `advance_payments`, `invoice_payments`, `sales.amount_paid`, totals on reservations | create, apply, refund, cancel, settle, pay, void | two writers of different columns of one row | an advance is spent once; amounts explained by payment rows |
| Cloud outbox and reconciliation (`supabase_pos_sync`, `portal_reconciliation`, scheduler) | `sync_outbox`, checkpoints and cursor in settings | enqueue, reconcile, flush, retry, dead-letter | two commits per request, overlapping flushes, lost answers, crashes | synced means stored; no row left behind; every bill settles |
| Till and offline sales (`pages/POS.jsx`, `lib/syncQueue.js`, `pos_router.py:2012`) | cart, `offline_sales` in IndexedDB, invoices and their offline numbers | checkout, save offline, batch sync | time-out of a request still served, overlapping batches, two commits per sale, reload | a sale is invoiced once unless nobody could know; what was stored is registered |
| WhatsApp session (`whatsapp_service/server.js`, `sender-watchdog.js`) | `clientStatus`, the browser, the restart, the watchdog | events, reconnect, logout, restart, tick | events during a restart, a browser that dies without an event | CONNECTED means ready; a stalled session recovers |
| WhatsApp queue and portal bridge (`server.js`, `portal-bridge.js`, `utils/whatsapp_helper.py`) | `messageQueue`, job, `pendingAck`, log of the back end | ask, prepare, send, retry, claim, acknowledge, shut down | time-outs, unknown outcomes, lost acknowledgements | a code leaves at most once; the cloud hears one true story |
| Desktop updater and exit (`electron/updater.js`, `main.js`, two screens) | status, three flags, the downloaded file, the screens | check, download, install, exit | stale clicks, late answers, error events of another operation | one operation at a time; no launch over work told; screens do not hang |
| Returns, exchanges, store credits (`returns_router`, `returns_management_service`) | return records, credits | request, approve, restock, exchange, spend | credits spent from copies | planned |
| Repairs (`repair_router`) | tickets, parts, history | intake, status, parts, invoice | transitions, parts | parts and events modelled; transitions planned |
| Warranty (`warranty_service`) | certificates, claims | issue, claim, replace | two open claims | planned |
| Approvals (`approval_service`) | approval rows | request, approve, execute | check and mark in two steps | planned |
| Purchasing and suppliers (`purchase_router`) | orders, balances | order, receive, cancel, pay | received twice | receiving modelled; balances planned |
| Portal gateway (`portal_inbound_gateway`) | claims, cursors | pull, webhook | check-then-insert | planned |
| Local database and sync bridge of the shell (`electron/local-db.js`, `sync-bridge.js`) | local database, local outbox | save, push, pull | delayed save | no page puts anything into that outbox; the updater reads its count |
| Shifts, expenses, ledger, audit | rows | open, close, post | – | not planned: append-only or reports |
| Auth, tenants, licensing, settings, backup, catalog, printing, reports, AI | – | – | – | outside the model; see section 6 and `components` in PROJECT.json |

How they interact: the till talks to the back end over HTTP; checkout writes
stock, payments and an outbox row; the outbox and the scheduler talk to the
portal; the back end and the portal both ask the WhatsApp service to send; the
shell starts and stops the service, and is told by pages what work is open.

## 2. The modules

| Module | What it is |
|---|---|
| `StockLedger` | quantities, movements and the thirteen endpoints that change them |
| `AdvancePayments` | advances, the invoices they settle, payments, reservation totals |
| `SyncOutbox` | bills and tickets, the outbox, the minute job and overlapping flushes |
| `SaleRegister` | abstract: what a till that works offline promises |
| `OfflineSales` | the till, its browser store and the two endpoints that invoice; implements `SaleRegister` |
| `SenderClient` | the WhatsApp session, its restart and its watchdog |
| `SenderQueue` | the message queue, the back end that waits for it, the portal bridge |
| `Updater` | the updater, its two screens, the exit |
| `Sums` | the sum of a table's rows, as a number of units |
| `MC…` | instances for TLC: subsets of endpoints, symmetry |
| `…Proofs` | theorems and proofs, one module per component, and lemmas about `Sums` |

The specifications share idioms but not variables: money and outbox do not
influence quantities in the code, and the queue of the WhatsApp service learns
of the session only by looking at `clientStatus`, so composing them would only
multiply states.

### StockLedger

Each endpoint is a pair `<Name>Reads(w)` / `<Name>Writes(w)` for a worker `w`;
`job[w]` is what its session holds. `Reads` changes nothing but `job`; `Writes`
is the handler from its first DML statement to the commit, all tables at once.
`Abort(w)` is every way a request ends without a commit (HTTP error, busy
database, CHECK constraint, crash): since nothing outside the transaction is
written, they all leave the same state.

| State | Code |
|---|---|
| `qty[i]` | `InventoryItem.quantity` (`models.py:324`), CHECK `quantity >= 0` |
| `moved[i]` | sum of `StockMovement.quantity` of the item |
| `sale[s]` | `Sale` with one stocked `SaleItem`; a return invoice has negative units |
| `resv[r]` | `ProductReservation` status, product, quantity, linked invoice |
| `grn`, `part`, `take` | goods received notes, `RepairPartUsage`, stock take sessions |
| `refunded`, `adjusted` | history variables, not in the database |

Points where the code decides something unexpected, and the model follows it:

* Checkout compares with `item.quantity` *as read* and reservations as counted
  under the lock, then lets SQL subtract `WHERE quantity >= n`
  (`pos_router.py:1087`, `1119`).
* A quick refund books its movement twice (`return_service.py:213`,
  `pos_router.py:1775`), and always as reusable.
* A void restores each line in full, whatever was refunded before; return
  invoices can be voided. This agrees with the documents
  (`DocumentsExplainStock` counts the return invoice, which stays open) though
  not with the shelf.
* A reservation of status "invoiced" still holds stock although its invoice has
  taken the units; `HoldsKept` is stated with the code's own count.
* POS checkout accepts a reservation of any status and replaces its invoice
  (`LinkInvoice`); create-invoice does not (`Invoiceable`).
* `inventory_router.py` defines the stock-take routes twice (2217–2409 and
  2412–2564); the first definition is served. The `close_stock_take` served
  (2353–2409) contains a block copied from price adjustments: for a draft
  session it commits nothing and then uses the undefined `created_rows` (2402).
  No session reaches "Review" in this build, although `docs/TESTING.md:60` lists
  "Stock take draft, review, post, and movement records." The model therefore
  has no close action; sessions are drafts, or were reviewed by an earlier
  release (`LegacyTake`), which `post_stock_take` still posts.

Abstractions: quantities are whole units; every invoice has one stocked line;
`create_grn` and the reconcile of a purchase order, and `void_sale` and
`void_invoice`, are one endpoint each; a PATCH of a reservation sets its
quantity to a member of `Units`; serial numbers, prices and tenants are left out.
All rows a request reads it reads at one moment. A busy or refused request is
`Abort`. Other writers of quantity that are **not** modelled: returns
management and exchanges (`returns_management_service`,
`return_service.apply_exchange_stock`), `inventory_service`, editing an item,
quick-add and transfers.

### AdvancePayments

A request reads a snapshot (`Reads`), and only when it writes is it decided
which endpoint it serves and with what parameters, which keeps one action for
the first half of all of them. `applied[a][i]` and `received[i]` are sums of
`invoice_payments` rows; `total[r]` is `advance_paid_total`; `short` and
`cancelled` are history. `SettleWrites` is POS checkout with advances and
create-invoice of a reservation; `Save` writes the columns that differ from the
copy. `sync_reservation_advance_totals` queries statuses before the session
flushes, but sums the objects in memory, and `Resync` takes both arguments
separately. Repair tickets keep totals by the same code and are not repeated;
customers, overrides by a manager, estimates and approval settings are left out.

### SyncOutbox

`Record` is the first commit of a checkout or repair intake, `EnqueueSale` the
second of a checkout; `CloseSession` is a request that ends between them, and
every repair request, which enqueues after its commit and never commits again.
`Reconcile` is `reconcile_customer_bills` in one commit; `StartFlush`, `Push`
(one row, one answer) and `Commit` are `process_offline_outbox_queue`. The cloud
answers as it likes: it stores or not, and the flusher sees success, failure, a
timeout after storing, or (portal bills) a final rejection. `Flushers` are
request and endpoint threads, `Scheduler` the minute job. Left out: revocation
of a receipt whose customer changed, clear-completed, the order in which the
cloud accepts versions (`sourceVersion` is compared on its side), bills of
customers without a phone. `MaxRetries` stands for 5, or 1440 for portal bills.

### OfflineSales and SaleRegister

A *purchase* is what one customer wants; a *submission* is one press of the
checkout button, with a payload and, if it goes offline, a number of its own.
`sub[n].till` is how far `checkout` of `POS.jsx` is, `sub[n].server` how far the
request is on the server, and the two move separately.

| Action | Code |
|---|---|
| `Checkout`, `Succeeded`, `WasRefused`, `NoAnswer` | `POS.jsx` checkout: the request, its answer, the network error that turns it into an offline sale |
| `Save` | `saveOfflineSale` of `syncQueue.js`, whose result the page ignores |
| `Fill`, `ClearCart`, `Reload` | the screen |
| `Serve` | `POST /pos/checkout` |
| `StartBatch` | `processQueue`: posts everything in `offline_sales` |
| `Look`, `SellStored`, `RefuseStored`, `GiveNumber` | one sale of `batch_sync_offline_sales`: the query by offline number, the nested checkout with its commit, the exception that is caught, the second commit with the number |
| `Stop`, `Start` | the back end ends and is started again |

`reachable` is a free choice, because the page pings with HEAD a health route
that answers GET only, so what it believes says little about the server. A POST
is not repeated by `api.js`. A refusal is shown to the cashier only by a browser
that believes itself online; otherwise the submission is kept as an offline sale
although the server has answered (`WasRefused`, `POS.jsx:1361`). Nothing that
follows a successful answer can throw its way to that line: the refresh of the
list of sales catches its errors, and printing is not awaited. A session that has flushed a sale and then refused
it still holds the write lock (`held`); what it holds is committed by the next
`SellStored` of the same batch. The answer to a batch changes nothing
(section 4). Carts have no lines, and stock is reduced to `Scarce`, the
submissions the server may refuse.

`SaleRegister` is the promise: a sale taken down stays taken down, is registered
only after that and once, and is registered in the end unless it may have to be
refused. The mapping is `promised <- stored, registered <- numbered`.

### SenderClient

`status` is `clientStatus`, `session` what the browser really shows, `restart`
the three stretches of `restartWhatsAppClient` (destroy, pause, initialize),
`watch` the closure of `sender-watchdog.js`. `Qr`, `AuthFailure`, `Ready`,
`Disconnected` are the events of whatsapp-web.js, `BrowserDies` the case without
one; `StartupReturns/Fails` is the first `initialize`. Time is reduced to `aged`:
the status has been unchanged and nothing attempted for long enough.
`stale` is history: a ready session went without an event, or became ready while
a restart was closing it. A logout of a connected session is three steps: the
request (`Logout`), the end of the session inside `client.logout()`
(`LogoutCloses`) and the rest of the handler (`LogoutReturns`), before which the
status is still CONNECTED; `unlinking` counts the requests that wait there.

### SenderQueue

`queue` and `work` are `messageQueue` and the body of `processQueue`, `preparing`
the pictures of `/api/send-media` before they are queued, `log` what
`whatsapp_helper.py` knows, `bridge` the loop of `portal-bridge.js` with its
`pendingAck`. Whether the client is connected is a free choice at each look, so
every behaviour of the composition with `SenderClient` is a behaviour of this
module. The cloud is external: it hands out each claim once, may lose requests
and answers, and stores what an acknowledgement says. A claim stands for a code,
its phone and its expiry, and an expiry may be found at each point where the
code looks for it. `Exit` ends the process at any step and the shell starts it
again. `handed`, `doubts`, `rejected` are history.

### Updater

`status` and `source` are `currentUpdaterState`; the three flags have their
names; `view[v]` is a screen with what it shows, the click on its way to the
main process, and the answers it awaits: a screen that was told that the update
is ready offers the installation although its own request to download is not
answered yet. Actions are the IPC handlers (`Check`, `Download`, `Install`), the
stretches after their `await`s (`CheckEnds`, `DownloadEnds`, `Copy`, `Launch`),
the library's events (`Progress`, `Downloaded`, `DownloadFails`), and the exit
(`RequestExit`, `AnswerDialog`, `Quit`). `reported` is what the events of a
download have told while `downloadUpdate` has not returned: the update is ready
for the screens and not yet for the handlers, and may still fail. A status event reaches both screens in
the step that sends it; clicks arrive in a later step and may be stale. `told`
is what the main process knows of open work, `work` what is open: no page calls
`updater:setOperationsActive` or fills the local outbox, and `PagesReport` says
whether one would. Abstracted: versions, snoozing, the six hours between
checks, the cooldown. One click per screen is on its way at a time, and no
reload happens while one is. An installer that fails to start after the
application was asked to quit is left out.

## 3. Runs

| Run | Question | Bounds | States | Result |
|---|---|---|---|---|
| `stock` | sales and reservations, then purchases, parts and counts, one request at a time; two requests that read under the lock | 1 item, 3 invoices, 2 reservations, 2 notes, 1 order, 1 part, 1 count, 2 workers, units ≤ 2 | 328,888 | `TypeOK`, `DocumentsExplainStock`, `OrderReceivedOnce`, `ReturnedWithinSold`, `HoldsKept` hold |
| `stock_unreconciled` | does the history reconcile with the quantity? | 2 invoices, 1 worker | – | `StockReconciles` violated |
| `advances_serial` | one request at a time | 2 advances, 2 invoices, 1 reservation, amounts ≤ 2 | 550,436 | four properties hold |
| `advances_concurrent` | two requests on one advance, every endpoint | 1 advance, 1 invoice | 109,801 | `EachWithinAmount`, `NothingInvented` hold |
| `outbox_pages` | do bills settle over pages, changes, a crash? | 2 bills, page of 1, 2 versions | 277,266 | `BillsSettle` holds |
| `outbox_overlap` | overlapping flushes | 1 bill, 1 ticket, 2 flushers, 2 tries | 284,166 | safety and `BillsSettle` hold |
| `till` | a till, two overlapping batches, a fault | 1 purchase, 2 submissions, 2 batches, 1 fault | 96,978 | sold once unless in doubt, taken down once; implements `SaleRegister` |
| `sender_client` | session, restarts, watchdog | 2 attempts, 2 requests of users | 25,452 | `ConnectedMeansReady` and `StalledSessionRecovers` hold |
| `sender_queue` | a message, two claims of codes, an end of the process | 1 message, 2 claims, 1 exit | 251,944 | a code leaves once, one story, every claim is acknowledged |
| `updater` | two screens, timers, stale clicks, the exit | 1 database, pages that report | 411,840 | one operation at a time, ready is kept, launches are safe, the settings screen does not hang |
| `till_half_invoice` | is a refused sale rolled back? | 2 purchases, 2 submissions, 1 batch | – | `NoHalfInvoice` violated |
| `till_sold_twice` | does a batch deduplicate? | 1 purchase, 1 submission, 2 batches, no fault | – | `BatchSellsOnce` violated |

Run `stock` explores one instance in three scenarios, which the state constraint
`Scenarios` of `MCStockLedger` tells apart: selling (one request at a time, three
invoices and reservations in all), purchasing (one request at a time, one invoice
beside everything of the inventory), and two overlapping requests to `checkout`,
`quick_return` and `create_grn` without an order. `Endpoints` says which
endpoints each worker serves: worker 1 all of them, worker 2 only those three. A
state outside the scenarios is checked but not explored further.

Eight configurations beside these are refuted by TLC in seconds and kept to be
run by hand. Four state what the documentation or the interface says:
`till_never_drained.cfg` (with `MCTill`), `updater_silent_failure.cfg`,
`updater_over_work.cfg`, `updater_exit.cfg` (with `MCUpdater`). Four show where a
property that a run checks for one request at a time ends when two requests
interleave:

| Configuration | What two requests refute |
|---|---|
| `stock_holds_race.cfg` | `HoldsKept`: two checkouts beside a reservation |
| `stock_order_race.cfg` | `OrderReceivedOnce`: two notes for one order |
| `stock_stale_writes.cfg` | `StockReconciles`, without any refund: an adjustment or a cancelled note beside a checkout or a new note |
| `advances_race.cfg` (with `MCAdvancePayments`) | `OnlyUnappliedRefunded`: a refund beside an application |

Section 4 says what they show.

Why the bounds suffice: every race of the back end is between two requests on
one row, so two workers and one item or advance contain it; a double reversal
needs one document and its reversal; a quick refund needs a second invoice row
for the return, and two concurrent refunds of one checkout need three. Runs of
one request at a time contain the sequences of a document and its reversals; two
active notes of one order, or two cancellations of one note, need no more rows
than two. A page of one with two bills makes the cursor move, wrap and meet a bill that changed
behind it. Retries of two include the first failure, the last, and a stale count
written over either. A sale is invoiced twice by two batches, or by one batch
twice, or by checkout and a batch: two batches and one fault contain all three,
and the second submission is there for a sale of the same purchase and for the
second of a batch. Two claims and one exit include a claim whose acknowledgement
is pending when the process ends and the next one. The copies of databases come
one after the other and only their completion is tested, so one database shows
everything the loop can do between two checks; the proof covers any set. The
watchdog counts to two instead of three.
`MaxStock`, `MaxPaid`, `MaxVersion`, `MaxFailures`, `MaxSubmissions`,
`MaxFaults`, `MaxRequests` and `MaxExits` only keep requests from being sent and
faults from happening; no handler compares with them.
Symmetry is used in runs whose properties do not distinguish the permuted rows,
and never with liveness. `MCStockLedger` also compares `Total` with the fold of
the community modules on every table of three rows with values from -2 to 2
(`TotalIsSum`). Deadlock is looked for in the runs of the back end,
which has no required end; a till whose submissions are used up, a service that
is shut down and an application that has quit may stop, so their configurations
say `CHECK_DEADLOCK FALSE`.

`LockedEndpoints` deserves a word: `DocumentsExplainStock` is checked with two
workers only for endpoints that read under the lock, because it is false for the
others (an adjustment beside a checkout is the smallest case, section 4). It is
the boundary the code draws, not a convenience of the model, and
`LockedStockReconciles` and `LockedDocumentsExplainStock` prove it.

### Fairness

* `BillsSettle`: the minute job keeps running (`backup_scheduler.py:157`,
  interval one minute, one instance) and each of its steps ends (a push has a
  timeout of 15 seconds in `cloudflare_portal_sync`); a back-off passes
  (`supabase_pos_sync.py:389`). Nothing is assumed of requests, of other
  flushers or of the cloud. "invoice" and repair events have no scheduled retry
  (`process_cloudflare_outbox` selects `cloudflare_invoice` only), so no
  liveness is claimed for them; the Supabase push they use calls `urlopen`
  without a time limit (`supabase_pos_sync.py:282`), and the minute job never
  makes it.
* `StoredSalesRegister`: the timer of the page fires every minute, a served
  request goes on, a stopped server is started again. Selling and numbering wait
  for a write lock that others take and release for ever, hence strong fairness.
  Nothing is assumed of the network beyond the bounded faults, nor of cashiers.
* `StalledSessionRecovers`: timers fire, and `destroy` and `initialize` end, as
  the browser driver gives up on either. No event of the session is assumed, nor
  that `client.logout()` ever returns.
* `ClaimsAreAcknowledged`: every `await` of the queue ends (`sendMessage` fails
  at the latest when the driver gives up), the timer of the bridge fires, its
  requests end after 15 seconds, and an acknowledgement that is repeated for
  ever gets through (strong fairness of `AckAnswered`).
* `SettingsProgressEnds`: clicks arrive, checks and downloads end because the
  library gives its requests timeouts, a copy ends within its minute, and the
  exit waits at most eight seconds for the WhatsApp service. Nothing is assumed
  of users, timers or progress events.

## 4. Disagreements between the code and its documentation

Shown by a run or a configuration:

1. `till_half_invoice`: `batch_sync_offline_sales` catches what checkout raises
   and does not roll back, so what a refused sale has flushed is committed with
   the next one, against `docs/PRODUCTION_READINESS_AUDIT.md:47` ("sale data is
   either fully committed or fully rolled back").
2. `till_sold_twice`: `batch_sync_offline_sales` looks for the offline number
   (`pos_router.py:2038`), lets checkout commit the sale under another number and
   gives it the offline number in a second commit (2061). A batch that looks in
   between sells the sale again, and so does a retry after a stop in between,
   against `pos_router.py:2021-2022` ("Idempotently processes batches of completed
   offline sales. Deduplicates on tenant + offline_invoice_no").
   `SoldOnceUnlessInDoubt` says that nothing but these two and a checkout whose
   answer the page did not get does it.
3. `stock_unreconciled`: a quick refund is booked twice (`return_service.py:213`,
   `pos_router.py:1775`), against `docs/DATABASE.md:92` ("Inventory quantity and
   stock movement history must reconcile"). `SerialStockReconciles` proves that
   with one request at a time nothing else separates the two.
4. `till_never_drained.cfg`: `syncQueue.js:200` looks for `resp.results` where
   axios puts `resp.data.results`; nothing is ever removed from the list, which
   outgrows the hundred sales the server accepts, and later sales are never
   registered, against `NetworkStatusBar.jsx:7` ("changes will sync when
   reconnected").
5. `updater_silent_failure.cfg`: `UpdateNotification.jsx:45` filters errors by
   the source of the last *check*; after a background check, the failure of a
   download that was started on the settings page is dropped, and the
   notification goes on showing the download, against
   `docs/UPDATER_AUDIT.md:7` ("report failures and preparation
   states").
6. `updater_over_work.cfg`: nothing tells the updater of an open cart, shift or
   offline sale, against `docs/AUTO_UPDATE.md:61` ("refuses installation while
   unsafe active operations or unsynchronized work remain").
7. `updater_exit.cfg`: the POS page takes its report back when it is left
   (`POS.jsx:271`), so the exit does not ask about an open shift while another
   page is shown, against the comment at `POS.jsx:258`.

Seen while modelling, and explained by what the models exclude or allow:

* An adjustment overwrites a concurrent sale (`stock_stale_writes.cfg`; the same
  line of `docs/DATABASE.md`). Void, GRN cancellation, repair parts and
  create-invoice have the same form: none of them is in `LockedEndpoints`. What
  is lost is the quantity, not the history: `HistoryFollowsDocuments` proves that
  for any number of workers, as long as no document is reversed (two voids of one
  invoice book its units back twice).
* Two notes for one order that are made out at a time both find it unanswered
  (`stock_order_race.cfg`).
* Two checkouts can sell stock that another customer's reservation holds, since
  the quantity compared is a copy (comment above `pos_router.py:1119`: "to
  prevent race conditions in concurrent checkouts"; `stock_holds_race.cfg`).
  `HoldsKept` is checked and proved with one worker.
* An advance can be both refunded and applied by two concurrent requests
  (comment at `advance_router.py:759`; `advances_race.cfg`).
  `OnlyUnappliedRefunded` is checked and proved with one worker,
  `EachWithinAmount` with any number; `OneSidedOnlyUnappliedRefunded` proves that nothing but such a pair does it.
* A repair's event is never committed and a sale's in a second transaction,
  against `ECOSYSTEM_ARCHITECTURE_AND_DEPLOYMENT.md:43` ("inside the **same
  database transaction**"); the model has both commits.
* The stock-take close above (`inventory_router.py:2402`).

Observations outside the properties: the result of `saveOfflineSale` is ignored
(`POS.jsx:1313`), so a full browser database looks like success (`Save` has both
outcomes); a status message between tabs is sent again by every tab that
receives it (`useNetworkStatus.js:60–101`); a late answer of a query is shown
under a key the page has left (`useCachedQuery.js:46–80`); the autosaved draft
`pos_current_draft` is never read back, and `pendingSync` stays true when the
cart is emptied (`POS.jsx:729–757`); a disconnect for another reason than logout
leaves the status UNPAIRED, which the watchdog does not recover
(`server.js:279`); a late acknowledgement of level 1 turns DELIVERED back into
SENT (`server.js:334`); a manual check during a background check shows
"checking" until the next event (`updater.js:245`); a window rebuilt after a
crash is not made known to the updater (`main.js:636`); a licence the server
refuses falls back to the offline grace period (`license-manager.js:172–196`).

## 5. Theorems

All are in the `*Proofs` modules and use only the assumptions named in the
component's module: bounds are naturals, endpoints are known, `NoRef`,
`NoPurchase` and `Nobody` are not rows, and the tables whose rows are counted or
summed are finite.

* **Sums.** `Total` is the number of units of a table's positive rows less that
  of its negative ones, so what is needed of it follows from the cardinality of
  finite sets instead of an induction: a sum is an integer (`TotalType`), a
  natural number if its rows are (`TotalNat`), zero if they are (`TotalZero`),
  and changes as the one row that changes (`TotalChange`).

* **StockLedger.** `TypeCorrect`: typed, quantities never negative, for any
  number of rows and workers. `TypeOK` alone is not inductive: a pending request
  must name a row of the right table, with natural units where the handler
  checked them; `TypeInv` adds `JobOK` for that. `ReturnsBounded` needs only
  that a line that exists keeps its units, since the check is made under the
  lock. `SerialStockReconciles` (one worker, any endpoints but quick refunds) and
  `LockedStockReconciles` (any workers, locked endpoints but quick refunds) share
  one induction step, whose hypothesis is that every stale writer's copy is still
  the quantity (`FreshCopies`); they differ in why it is. `SerialHoldsKept` is an
  action property proved from the same freshness for the two endpoints that
  sell, and from the fact that an unused invoice row has no units.
  `SerialOrderReceivedOnce` rests on what a request checked when it read and what,
  with one worker, still holds when it writes: the order of a note in the making
  has no active note (`OrdersChecked`).
  `SerialDocumentsExplainStock` and `LockedDocumentsExplainStock` rest on one
  statement about every step, `BooksWhatItMoves`: what a step adds to the
  documents of an item is what it adds to the history, and to the quantity if it
  computed from a fresh copy. It needs that a request that reverses a document
  has it as it is (`CurrentDocuments`): true with one worker, and without such
  requests, the two hypotheses. `HistoryFollowsDocuments` takes the half about
  the history, with stale copies allowed.
* **AdvancePayments.** `TypeCorrect`; `EachBounded`: the bound travels with the
  copies in `job`, so whichever copy is written last is itself within the
  amount, provided amounts never change (`SameAmounts`).
  `SerialOnlyUnappliedRefunded`: with one worker the copy is the row, and the
  check on the remaining balance is enough. `SerialTotalsFollowAdvances`: the
  copies a request computes a total from are the rows and totals themselves
  (`CurrentCopies`); no step but a cancellation changes which advances count for
  a reservation (`Remembers`), and a total recomputed over rows that count alike
  and hold the same is the same (`SamePaid`), so each endpoint keeps the total of
  a reservation without cancelled advances (`KeepsTotal`).
  `OneSidedOnlyUnappliedRefunded` holds with any number of workers where no
  refund, or no use, is among the endpoints: the other sum is then zero in every
  row and every copy (`RowsOneSided`, `CopiesOneSided`), and `EachWithinAmount`
  bounds the one that is left. `NothingIsInvented` also holds for any number of
  workers, from `Books`: not only the rows but also the copies claim at most what
  the payments add up to *now* (`CopiesBacked`), since payments are never taken
  back (`PaymentsStay`), so writing back an old copy cannot claim too much; and an
  invoice not yet made out has no payments (`UnusedClean`).
  `SerialAppliedToItsInvoice` and `SerialPaidExplained` turn these bounds into
  equalities where copies are current; the former needs that an advance that does
  not exist has nothing applied (`NoneUnused`).
* **SyncOutbox.** `TypeCorrect`, `SyncedIsAccepted`, `NothingStuck` follow from
  one inductive invariant, `IInv`. Its extra conjunct `HeldRows` speaks of the
  rows a flush holds: an unfinished row it read had retries left, a row it turned
  into synced is accepted, a changed count comes with a changed status. That is
  what makes a stale write harmless: retry counts may go back, never beyond the
  limit.
* **OfflineSales.** `TypeCorrect`, `SoldOnce`, `TakenOnce` from `IInv`:
  `BatchInv` counts, for each submission, the invoices a batch has written
  against the numbers given and the batches under way, so that a second sale
  without an overlap or a stop is impossible; `TillInv` says what a submission's
  two halves may be together, and which of them may be in the browser's store;
  `CartInv` that a purchase that was taken down is no longer on the screen
  unless it was risky. `RefinesRegister` proves the safety part of the
  refinement: initial states map to initial states, every step to a step of
  `SaleRegister` or a stutter.
* **SenderClient.** `TypeCorrect` and `ConnectedIsReady`; the strengthening
  `ClosingIsStale` says that while a restart is closing a session, a status of
  CONNECTED is recorded as stale: restarts are asked for of sessions that are
  not connected, and one that becomes ready meanwhile is about to be closed.
* **SenderQueue.** `TypeCorrect`, `CodeSentOnce`, `OneStory`, `MessageAgain`.
  `QueueInv`: no job is in the queue twice, nor in the queue and at work.
  `CodeInv`: a code at work or queued is the claim the bridge waits for, has not
  been handed over before it is sent, and the cloud has heard nothing of it; a
  pending acknowledgement says what happened. `MessageInv`: a message is in
  preparation, queued or at work only in a form the back end asked for
  (`AskedFirst`), and handed-over copies plus those still due never exceed one
  more than the doubts (`Accounted`).
* **Updater.** `TypeCorrect`, `OneOperation`, `ReadyKept`, `SafeLaunch`. The
  status, the flags and what the download has reported form the inductive
  invariant with `ReadyIsAlone`: while an update is ready no check runs, so no
  late result can overwrite it, and only the download that reported it can still
  fail.

Only model-checked: the liveness properties `BillsSettle`,
`StalledSessionRecovers`, `ClaimsAreAcknowledged`, `SettingsProgressEnds` and
the fairness of `StoredSalesRegister` (liveness under fairness and ENABLED are
beyond the prover). Every other property of a passing run is the statement of a
theorem. Where the theorem has a hypothesis, its run meets it: one request at a
time, or several with only endpoints that read under the lock. That `Total` is the
sum one would write as a fold is checked on small tables, since a fold is a
recursive definition. No module with a theorem reaches a RECURSIVE operator.

## 6. Not modelled, and the plan

Most of the JavaScript is pages: forms, tables, labels and charts over the back
end, which checks every rule again. They hold no state another actor can
disturb, and stay out; so the definitions here stand for a small share of the
lines of the repository, though for most of the code that keeps state across an
`await` or a commit. Of the code that does:

* suspended carts (`POS.jsx:1016–1083`, two endpoints): read, not modelled. Two
  tills that claim one cart both find it undeleted; an answer lost on the way
  leaves a local and a server copy; tabs write the same key of localStorage;
* the query cache of the pages (`useCachedQuery.js`): see the observations;
* the queue of general events in `syncQueue.js`: no routed page fills it;
* the local database, the sync bridge and the outbound sync engine: no page puts
  anything into their outbox;
* the licence manager, the start of the back end by the shell, backups: single
  sequences of input and output;
* the webhook that copies acknowledgements into the log, the retry endpoint,
  campaigns and the bot: they start from rows and messages that the modelled
  queue already allows in any order;
* authentication, tenants, settings: every modelled endpoint is behind a check
  that lets a request through or not.

Next, in this order:

1. `Returns` — return requests, approval, restocking, exchanges and store
   credits, composed with the quantities of `StockLedger`; abstract
   specification: each sold unit is sold, returned or exchanged once. Runs with
   two checkouts that spend one credit.
2. `Approval` and `PortalGateway` — an approval used at most once; an inbound
   claim delivered twice.
3. `SuspendedCarts` — a cart is on one till or parked, never both, with lost
   answers and tabs.
4. `RepairTicket`, `WarrantyClaim` — transitions and guards across endpoints.
5. Refinement: `SyncOutbox` implements an abstract delivery with at-least-once
   semantics; `AdvancePayments` with one worker implements an account with
   three balances.
6. Proofs: the refinements, once they are stated.
