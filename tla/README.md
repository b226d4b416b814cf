# AmatoPay: a verification of the escrow and its payment flow

AmatoPay takes a customer's payment through a payment rail (MobileCash), keeps it
on a fiduciary account, and pays the merchant when the customer confirms the
delivery with a secure release code. This directory holds TLA+ models of that
program (`src/`, a Django application), the TLC configurations that check them on
small instances, and proofs of the central results for every instance.

    tlc -workers 2 -config FlowTwoReconcilers.cfg MCPaymentFlow
    tlapm EscrowProofs.tla

Paths below are relative to `src/`; `apps/` holds the code.

## 1. Inventory

| Component | Code | State it keeps | Operations | Model |
|---|---|---|---|---|
| Checkout session, payment record | `apps/checkout`, `apps/payments/models.py` | `PaymentSession.status`, `Payment.status`, amounts, release-code columns | create a checkout, view a session (which expires it) | `PaymentRecords`, `CheckoutSession` |
| Collection | `apps/payments/services.py`, `apps/gateway/services.py`, `apps/gateway/collection.py` | collection `GatewayRequest`, `GatewayCallback` | submit to the rail, apply a status | `Collection` |
| Escrow | `apps/fiduciary/services.py`, `apps/deliveries/services.py` | `FundHold`, `FiduciaryEntry`, `Delivery`, `DeliveryConfirmation`, `ProtectionClaim`, `Settlement` | hold, confirm with the code, wrong code, claim, instant release | `Escrow`, `EscrowContract` |
| Merchant payout | `apps/gateway/services.py` | `Settlement.status`, P2P `GatewayRequest`, `GatewayCallback` | order the payout, apply a status | `Payout` |
| Gateway reconciler | `reconcile_gateway` command | its batch, in memory; `next_poll_at` | retry releases, start payouts, poll collections, poll payouts | `Reconciler`, `ReconcileCycles`, `PlanTurns` |
| Reports, dashboard and pages | `apps/compliance/reports.py`, `config/admin_dashboard.py`, `apps/fiduciary/admin.py`, `apps/portal/views.py`, `apps/checkout/views.py` | none: they read the rows above | totals, counts and groups; what a payment's page offers | `Reports` |
| MobileCash rail and client | external; `apps/gateway/provider.py` | the orders it accepted; the client's access token | accept an order, advance it, answer; log in, retry after a 401 | `Reconciler` (external), `GatewayToken` |
| QR discovery | `poll_qr_payments`, part of `apps/payments/services.py` | `QRPaymentWatch`, its collection row | open a watch, search the shared ledger, match by amount, hand over, expire | `QRDiscovery`, `TransferClaims` |
| Webhook delivery | `apps/webhooks/services.py` | `WebhookEvent`, `WebhookDelivery`, `WebhookAttempt`, endpoints | emit, deliver, retry, retry by hand, ping | `Webhooks` |
| Billing | `apps/billing` | plans, assignments, fee rows, `PlanRequest` and its collection | fee of an amount, ask and pay for a plan, activate it | `Pricing`, `PlanRequests` |
| Merchant API and keys | `apps/developers`, `apps/checkout/serializers.py` | `MerchantApiKey`, merchant status | authenticate, quote the fee, create a session; issue, rotate, revoke a key | `MerchantApi` |
| Circuit breaker, rate limiter | `apps/security/middleware.py` | entries of the process's cache, `BlockedIP` | count, open, half-open, close; count, ban, block | `CircuitBreaker`, `RateLimiter`, `ProcessCache` |
| Fiduciary account sync | `sync_fiduciary_account`, `apps/fiduciary/services.py` | `FiduciaryAccount`, `FiduciaryQRCode`, extensions | scan, look up the alias, save | `FiduciarySync` |
| Worker supervisor | `run_workers` | one thread per job, a stop event | select jobs, run each once, or start threads that run them again and again, stop | `Supervisor` |
| Merchant onboarding | `apps/portal/views.py`, `apps/portal/forms.py`, `apps/merchants/admin.py` | `MerchantApplication` with its account, `MerchantApplicationReview` | apply on the public page; review | `Onboarding` |
| Merchant's file | `apps/merchants`, `apps/portal` | `Merchant` profile, KYB review and documents, `SettlementAccount` | complete the profile; edit, verify an alias, decide; the activation checks | `MerchantFile` |
| Refunds | `apps/refunds` | `RefundRequest` | request, review | no: its routes are not mounted and no code moves money for it |
| Security detectors, token-bucket throttling, vault, health, admin pages | various | — | patterns, I/O, forms | no (section 6) |

**How they interact.** All components share one PostgreSQL database. A request
handler or worker changes it in transactions that lock the payment, gateway
request or settlement row first (`select_for_update`), and HTTP calls to the rail
happen *inside* the transaction when an order is placed
(`submit_checkout_payment_collection`, `start_merchant_payout`) and *outside* of any
when a status is polled (`_poll_transaction`). Nothing calls AmatoPay back: the
rail is polled, and every status change passes through
`apply_collection_status` / `apply_p2p_status`, which remember what they applied as
`GatewayCallback` rows. A completed collection holds the funds and tells the
merchant (`emit_event` writes a `WebhookEvent` in the same transaction); a
confirmation approves the hold, creates the settlement and, after the commit, orders
the payout; a completed payout posts the ledger's debits.

**What is hard.**

* A poll reads a request, asks the rail, and applies the answer: three steps,
  with other processes between them. Two reconcilers may be at the same request (the
  watching worker, and the one-shot command that `docs/GATEWAY_INTEGRATION.md` offers
  to a scheduler).
* An order to the rail whose answer is lost, or whose transaction does not commit,
  exists on the rail and not in AmatoPay.
* The payer's operations race with each other and with the reconcilers' releases.
* First answers may already be final; statuses may be ones AmatoPay does not know.
* A session expires by being looked at, with an unlocked read-then-write.
* A release may be deferred (no verified destination) and must not be forgotten.
* The reconciler reads its rows by age and stops at a limit: what it polled without a final
  answer comes first again in the next cycle, and younger rows may wait for good.
* Webhooks are delivered at least once: workers with the same stale list, a crash
  between the POST and the commit that counts it, a retry by hand over a row that a
  worker has just delivered. A URL whose check raises ends every batch it is in.
* A QR payment is recognised by its amount alone, in a ledger all orders share, and its
  watch and its collection are saved one after the other.
* A fee is quoted and charged in different steps, between which plans, rates and
  assignments change.
* Two browsers may pass the form's check of an address before either has its account; two staff
  may save one application, or an owner and staff one profile, from rows read before.
* Circuit breaker, rate limiter and the client's token are read and written by threads
  without a common lock, one call at a time.

`PROJECT.json` lists these as hazards, each at its line.

**What makes each component correct.**

* *Escrow*: the ledger balances; money is frozen by a claim for good; a code is spent
  by its first use and locked at the limit; approval and claim exclude each other.
* *Collection*: funds are held exactly for what the rail completed, once, however often
  a status is polled.
* *Payout*: ordered only for an approved hold, settled only for what the rail paid,
  final.
* *Reconciler*: what the rail decides about a payment that has its turns is recorded.
* *Events*: each fact is told once, and never two that exclude each other.
* *Session*: never claims a payment that was not received.
* *Reports and pages*: totals are those of the ledger, lists leave nothing out, and a page offers
  what the operation behind it accepts.
* *QR discovery*: a transfer is taken for one order at most, and for its amount and
  window; payment and collection are handed over together, and a match without them has a
  cause; every watch closes.
* *Webhook delivery*: attempts numbered without a gap up to the limit, duplicates only
  for a reason the code cannot see, every delivery ends that no raising row stands before.
* *Billing*: the fee is the quoted rate's share to the nearest cent and less than the
  amount; a paid request brings its plan once, and an unpaid one never.
* *Keys*: a revoked or replaced secret never works again.
* *Breaker and limiter*: they act only for a cause, and recover.
* *Sync*: code and extensions are of one scan. *Token*: one that passes for fresh is, when the
  rail says with its zone how long it lives.
* *Onboarding*: an address has one account; every status an application has is the first one or a
  recorded decision. *File*: the owner fills in what is missing and changes nothing else.
* *Supervisor*: every job runs again, whatever a run raises, until the process stops.

## 2. Modules

| Module | Contents |
|---|---|
| `PaymentRecords` | The rows of one checkout payment as functions on `Payments`, the rail's rows, `Init` (what `create_checkout_session` commits), `Emit`. |
| `Escrow` | `Credit`, `Hold`, `Release`: the parts of `hold_funds` and of a confirmation that collections use as well; then `ConfirmWithCode`, `WrongCode`, `OpenClaim`, `RetryInstant`. |
| `Collection` | `SubmitCollection`, `LoseCollection`, and one action per outcome of applying a polled answer. |
| `Payout` | `StartPayout`, `StartAndSettle`, `LosePayout`, and one action per outcome of applying a polled answer. |
| `Reconciler` | `ReadCollections`, `ReadPayouts`, `Ask`, `DropPoll`; the rail's own steps. |
| `CheckoutSession` | `ViewExpired`, `ExpireSession`: the read and the later write of a page view. |
| `PaymentFlow` | Composes the above: `Next`, `Spec`, the safety properties, and the refinement of `EscrowContract`. |
| `ReconcileCycles` | `PaymentFlow` with what decides whether a cycle gets to a payment: the older rows of others, and the limit. Fairness and the liveness properties of the flow. |
| `EscrowContract` | What the escrow promises, without rows, polls or codes: receive, approve, dispute, pay out. |
| `Reports` | The figures of reports, dashboard and account page, and what the portal, checkout and delivery pages offer, as operators on the state of `PaymentFlow`. |
| `QRDiscovery` | Checkout, payers, clock and any number of `poll_qr_payments` processes; one action per transaction of `_poll_one`. |
| `TransferClaims` | What discovery promises: orders claim transfers, one for one, for good. |
| `Webhooks` | Endpoints, `Emit`, `Ping`, the outcomes of `deliver` and the one in which it raises, workers with lists they read before, a crash, staff. |
| `Pricing` | The plan and rate in force, `FeeOf` with its rounding, the staff's changes of plans, rates and assignments. |
| `PlanRequests` | A request for a plan, its collection, the reconcilers that poll it, `ActivatePlan`. |
| `PlanTurns` | `PlanRequests` with the turns of a request's collection, its fairness and liveness. |
| `MerchantApi` | An API request step by step, from its key to the session with its fee row, next to owner and staff. |
| `Onboarding` | The public application page by any number of browsers, and the staff's review. |
| `MerchantFile` | The owner's form and the staff's pages over one merchant's rows; `Checks`, the activation checks. |
| `ProcessCache` | A cache entry and its life; `Bumped` for `_cache_incr`. |
| `CircuitBreaker`, `RateLimiter` | The two middlewares, one action per cache or database call. |
| `FiduciarySync`, `Supervisor`, `GatewayToken` | The sync command, `run_workers`, and the token of the client object that threads share. |
| `MCPaymentFlow`, `MCReconcileCycles`, `MCQRDiscovery`, `MCWebhooks`, `MCServices` | The small instances. `MCServices` takes nine services (plan requests, API, onboarding, file, breaker, limiter, sync, supervisor, token): they share no state with each other (plan requests and API calls depend on the same prices, and each runs with the staff that change them), so one is chosen in the first state and runs alone. |
| `PaymentFlowProofs`, `EscrowProofs`, `ContractProofs`, `RailProofs`, `QRProofs`, `WebhooksProofs`, `MerchantProofs`, `ThreadProofs` | The theorems (section 5). |

**State.** A variable is a column, or the number or set of rows of a kind; the comment
at its declaration names it. `polls` is the memory of the reconcilers and `expiring`
that of page views; `railColl`, `railP2P`, `collOrders`, `p2pOrders` are the rail's.

**Steps.** An action is one committed transaction with everything it calls, for
example `CompleteAndRelease`: `recover_collection_status` → `apply_collection_status` →
`apply_payment_collection_status` → `hold_funds` → `confirm_delivery_instant` →
`release_hold` → `emit_event` twice. What happens outside of a transaction is split:
reading the batch, asking the rail and applying the answer are three actions, and so
are the release and the payout that `transaction.on_commit` starts after it. That payout
is the same call a reconciler makes in each cycle, so `OrderingPayout` is one action
for both, and a crash between commit and callback is the time it is not taken.

**What is abstracted.**

* One transaction is one step because the row locks it takes first serialise it with
  every other one that changes the same rows. Where the lock orders differ (applying
  a collection locks request, then payment; a confirmation locks payment, then
  request) the database breaks the deadlock by failing one side: `DropPoll`, or an
  operation of the payer that changes nothing.
* `next_poll_at`, the backoff and the batch limit decide *when* a request is polled;
  in `PaymentFlow` any non-empty set of open requests may be a batch. `ReconcileCycles` adds
  the order and the limit: `before[p]` is how many rows of payments outside the model a
  cycle handles first, and with `Limit` of them it does not get to `p`. Each of these
  rows may come, go, become due or be opened again at any time (`OthersComeAndGo`).
* The merchant's verified destination and the fiduciary account come and go
  unseen; an action that needs one may be taken or not, and
  `CompleteAndHold` for an instant payment is the deferred release.
* The code's hash and its encrypted copy are set and erased together: `hasCode`. The
  payer gives the right code or a wrong one.
* Statuses are the normalised ones; `"UNKNOWN"` stands for all that
  `normalize_status` passes through. The payment's lower-case statuses keep their
  names through `OpenStatus` and `FailedStatus`.
* History and audit rows are written and never read by this code; left out. So are
  amounts' currencies and the SMS with the code.
* Ledger entries are unique per kind and settlement (`get_or_create`): one amount per
  kind. Amounts are integers of the smallest unit.

In the other modules:

* `QRDiscovery`: the clock counts in small steps; a session lives `Life` of them. The
  pages of the ledger are a set `Shown` of at least `Rows` of the transfers listed,
  because the order of the pages is the rail's. A search is one step between two
  others, although it makes up to ten calls: what it can have seen is what it listed up to
  the time it began. Due times and backoff are left open. After the hand-over the
  row is one that `Reconciler` polls like any other; its status is not followed here.
* `Webhooks`: signature, body and headers are left out. A retry delay is a member of
  `waiting` until `RetryTimeComes`. `received` and `doubts` count what only the
  merchant's server knows. `Malformed` are the endpoints whose URL the portal accepts and
  `validate_webhook_url` raises at with anything but a `ValidationError` (a port over 65535,
  `security.py:37`): `deliver` then leaves the row as it is and ends its caller.
* `Pricing`: one merchant and one currency; amounts in cents, rates in
  ten-thousandths of a percent, negative ones included, as the admin takes them. The
  assignments are a sequence by `effective_from`; the staff switch one on and off, which
  its dates do as well, give it another plan or move it in the order. One that is deleted, or given to
  another merchant, is one that stays off. `PlanRequests` has the statuses that act differently.
* `MerchantApi`: a secret is its number in the order of issue. A session stands for
  the session, its payment and its fee row, which one transaction makes; what then
  becomes of the payment is `PaymentFlow`.
* `CircuitBreaker` and `RateLimiter`: a cache call is a step, time passes by ticks
  between them; an entry lives its timeout. `recent` and
  `arrivals` are history variables: how many failures or requests there were at each age. `int()` of a time left drops a started second (`WholeSeconds`). The cache is
  that of one process (`LocMemCache`), as the settings configure it.
* `GatewayToken`: a token is its number; a lost answer of a login is a failed one whose
  token exists at the rail. `ParsedExpiry` has the outcomes of `_parse_expiry`: the stated
  deadline for a statement with its zone; without one (or with the zone cut off behind more than six digits of a
  second) the deadline moved by `LocalShift` and at least a minute away; an hour when nothing can be read.
  The clocks of rail and process are one, and what the rail states is a string.
* `Supervisor`: a run of a job succeeds or raises; waits end at any time.
* `Onboarding`: an application stands for all rows its transaction writes; a valid form is one step, the
  transaction the next. A save writes the whole row, so the later of two stale ones wins.
* `MerchantFile`: a field is blank or filled; the settlement account is the four facts the check reads;
  `VerifiesAlias` is the rail's answer to `verify_alias` and what it makes of the row read before.

**The rail** is external and assumed to do this: it accepts an order with some
status; statuses never go back; a final one is final; a status is what it answers.
`MaxLost` bounds the orders whose answers are lost.

**Mutants.** Next to the definition it is derived from, a module has the mutated form
that a plausible mistake would give (a lock not looked at, `>` for `>=`, a
callback not looked up). They are used by no specification; each shows that a
property fails when the code is wrong in that way.

## 3. Runs

`CHECK_DEADLOCK FALSE` everywhere: payments, watches and deliveries reach final states,
after which nothing is left to do.

| Run | Instance | States | Shows |
|---|---|---|---|
| `FlowTwoReconcilers` | 1 protected payment, 2 reconcilers, statuses PENDING, AWAITING_APPROVAL, PROCESSING, COMPLETED, FAILED and an unknown one, final first answers, expiring session, limit 2 | 180 000 | Money, events and code stay right under every interleaving of two pollers, though `Payment.status` may not |
| `FlowOneReconciler` | 1 protected and 1 instant payment, 1 reconciler, an order lost on each rail, limit 2 | 28 000 | With one poller status, session, reports and pages agree with the hold; implements `EscrowContract` |
| `FlowLiveness` | 1 instant payment, 1 reconciler, 2 rows of a query until the limit, a status AmatoPay does not know, fairness | 6 600 | What the rail decides about a payment that has its turns is recorded; a deferred release is not forgotten |
| `QrDiscovery` | 2 orders and 2 transfers of one amount, 2 pollers, pages of 1 row, a session's life of 1 and a clock to 3, fairness | 150 000 | A transfer is taken once, for its amount and window; a match without its collection has a cause; watches close; implements `TransferClaims` |
| `WebhookDelivery` | 1 event, 1 ping, 1 endpoint and 1 whose URL raises, 2 workers with lists of 1 row, 2 attempts, 1 crash, 1 retry by hand, fairness | 96 000 | Attempts are all on record; duplicates have a cause; every delivery ends, unless a row that raises stands before it |
| `Services` | 9 services one at a time: 1 plan request with 2 reconcilers; 1 order, key and request with 2 secrets; breaker of 3 failures and 2 threads; limit of 2 requests and 2 threads; 2 syncs; 2 jobs; 2 users of a token; 2 browsers with one address and 2 staff; 1 owner and 1 officer over a profile of one field | 278 000 | See the properties of each in the table below |
| `StalePoll`, `LostPayoutAnswer`, `ExpiredStart`, `EarlyCompletion`, `QrGuess`, `RetriedCheckout` | as small as shows it | — | Findings (section 4) |

| `Services` property | Says |
|---|---|
| `GrantsArePaidOnce`, `PaidPlansAreGranted` | a plan is assigned once, for a completed collection of its request, and in the end if the request has its turns |
| `FeesAreRight` | session and payment carry the fee that was quoted, rounded half up, not negative and below the amount; no request quoted at a rate that is not negative fails its fee row's constraints |
| `DeadSecretsStayDead` | no late write of a request revives a revoked or replaced secret |
| `BreakerHasCause`, `BreakerRecovers` | the breaker opens only after as many failures since the last success as its threshold; it is not open for ever |
| `BansHaveCause` | an address is banned only for more requests in a window than the limit |
| `SnapshotIsOneScan` | QR code and extensions in the database are of one scan |
| `OneAccountEach` | an address has one account, and a reference shown is one browser's |
| `DecisionsAreOnRecord` | every status of an application is the first or on record, and so is what each record went out from |
| `OwnersOnlyComplete` | a request of the owner replaces nothing, undoes no check, and is logged |
| `JobsRunAgain` | a started job runs again and again until the stop |
| `UsableTokensAreFresh` | while expiries are stated with their zone, a token another thread takes without the lock has more than the margin left |

**Why these bounds are enough.** Payments do not share rows, so one payment shows each
interleaving about it; two show that a batch with several, and per-payment state, do not
leak (`FlowOneReconciler`). Two reconcilers are what it takes to apply answers out of
order; a third would only repeat one of the two. A limit of two attempts has a wrong
attempt below, at and beyond the limit. Gross 5 with fee 1 and gross 3 with fee 0 tell
net, gross and fee apart. One lost order per rail gives an order AmatoPay does not
know beside one that it does. Two orders and two transfers of one amount are what
confuses discovery, and pages of one row make a listing incomplete; two attempts have a
first, a last and a retry; a list of one row lets a younger row wait behind it. An amount of
9.00 with rates of 0.05, 0.5 and 1 % rounds down, at the half cent and not at all. Breaker
and limiter have windows that end while requests are counted. Two browsers and two staff are what
it takes to pass a check together, and one field that owner and officer both write to lose an edit. The proofs hold for every value.

**Fairness.** *Payment flow* (`FlowLiveness`, and `EarlyCompletion`). `reconcile_gateway` runs
for ever (`--watch`, or a thread of `run_workers` that starts it again after any
exception: `JobsRunAgain`); each cycle retries deferred releases, starts payouts, polls the due
collections and then the due payouts. Each of these four queries is ordered by `created_at` and
cut at `--limit` (`deliveries/services.py:243`, `reconcile_gateway.py:51`, `:67`, `:91`), a 429 of the
rail ends the cycle, and a row that was polled without a final answer is due again in a later one. So
the oldest `--limit` open rows can take every turn, and nothing in the code prevents it: fairness
for each request is *not* justified, and not assumed. `HasTurns(p)` says that from some time on fewer than
`Limit` rows stand before the payment's own; only then are its steps fair (`Fairness`), and each
liveness property has it as its hypothesis. A payment that is crowded out again and again
is promised nothing. For one that has turns, each step may fail and be tried again in a later cycle
(`DropPoll`), so what is assumed is strong fairness: rail, database and the merchant's own destination are
not out of reach at *every* try. Nothing is assumed of the payer, of the submitter, of page
views or of the rail's progress; a property about the rail starts from a status the rail has
reached. `FlowLiveness` has open first answers and all statuses, the unknown one too;
`EarlyCompletion` is the same question with final first answers. One payment suffices there: the others
are the rows that come and go before it. *Plan requests* (`PlanTurns`): the same; their collections are in the
same query.
*QR discovery*: time passes, a watch is taken up again and again and reached in its batch,
a poll ends; nothing is assumed of the rail. (These rows are read by age and limit as well, but each closes when its
session ends, so they do not keep younger ones out for ever.) *Webhooks*: a worker goes on and delays pass,
both weakly; that younger rows have their turn then follows, as attempts run out, except behind a row
that raises (`Blocked`). *Breaker*: time passes.
*Supervisor*: threads are scheduled, waits and runs end.

## 4. What the runs found

Each is a run that must fail; `PROJECT.json` quotes the document.

1. **`StalePoll`** — an answer read before a completion and applied after it sets a
   payment whose funds are held back to `processing`, for good; the payer's code is then
   refused. Needs two reconcilers at once. The money stays right
   (`FlowTwoReconcilers`).
2. **`LostPayoutAnswer`** — a payout whose answer is lost is ordered again; nothing in
   the order lets the rail recognise it. The same holds of collections.
3. **`ExpiredStart`** — a collection is started for a session marked expired.
4. **`EarlyCompletion`** — a collection completed in the rail's first answer is stored as
   completed and never applied. Payouts handle this case.
5. **`QrGuess`** — a single transfer of the right amount is taken for whichever order of
   that amount is searched first, though its payer meant another: the match is
   ambiguous although only one transfer is seen. A later poll corrects nothing: the transfer's reference is unique.
6. **`RetriedCheckout`** — a checkout that a merchant's server repeats makes a second
   payment; no code reads the idempotency key the documentation asks for.

Seen on the way, without a run of their own:

* A payout that passes through a status AmatoPay does not know is never polled again
  (`reconcile_gateway.py:88` selects three statuses); `PayoutIsResolved` excepts it. A
  collection in that place is polled again: the mapping's `KeyError` rolls the new status back.
* The queries of a cycle are cut by age (section 3): rows that never become final, for example
  instant payments of merchants who never get a verified destination, keep younger ones waiting.
* `payments/services.py:383-384` says of a deferred instant release "(no automatic retry exists yet)"; each cycle
  of the reconciler retries it (`retry_pending_instant_settlements`, `ReleaseIsNotForgotten`).
* A webhook URL with a port that does not parse is accepted by the portal and raises `ValueError` in `deliver`, which
  catches `ValidationError` only (`webhooks/services.py:77`): nothing is counted, the batch
  ends there in every cycle, and all younger rows wait (`Blocked`). The supervisor logs it and starts the job again.
* `docs/WEBHOOKS.md:18` says network errors are retried; a host that does not resolve is a `ValidationError`
  (`security.py:42`) and fails the delivery at once (`BadUrl`).
* The admin takes a negative rate (`billing/models.py:28-34` has no minimum). Such a quote passes `fee < amount`,
  the rail is asked for the payer, and the database refuses the rows.
* `_parse_expiry` (`provider.py:46-61`) may store an expiry beyond the token's own: local time for a statement
  without its zone, a minute for one that is past, an hour for none. Requests then go out with a dead
  token, get 401 and are tried again after a login.
* A payout that *fails* in the first answer is stored, leaves the settlement
  `processing` and is polled no more. `start_merchant_payout` admits failed settlements, but
  returns the existing P2P row first, so none is ever retried.
* An expiring page view may overwrite a session completed in between.
  `mark_release_pending`'s test for disputed holds cannot be reached, since its callers'
  guards exclude it.
* A QR watch that matched a transfer already taken stays `matched` without a collection: the
  unique reference refuses the row after the watch is saved, and it is not searched again. So does
  one whose poller dies between the two (`cut`).
* The dashboard's chart leaves out disputed payments, so its percentages are of the rest
  (`ReportsAgree` says so); the account page's "Total held amount" includes released
  holds.
* A temporary block by the rate limiter replaces a permanent one of the staff
  (`update_or_create`, `security/middleware.py:225`); `StaffBlocksStay` in `RateLimiter`
  states what it breaks. The breaker's and limiter's cache is per process, so each
  server process counts for itself.
* `billing/services.py:69` and `docs/FEES_AND_SETTLEMENT.md:11` say the fee under an assignment is
  always 0 %; the code takes the plan's rate. `seed_pricing_plans.py:130` calls a rate of 0.05 "5%"; `:85` of the
  services divides it by 100.
* `merchants/services.py:3` says of the activation checks that a merchant who passes them all may operate;
  the API's `IsActiveMerchant` (`developers/permissions.py:13`) looks at the status alone, so
  an active merchant whose checks no longer pass goes on (`profile.active => CanOperate` fails).
* The portal's payment page offers the code form for an instant payment whose release is deferred,
  which has no code, and after a refused form for any payment (`can_confirm: True`); the
  operation refuses both. `PagesAreTrue` excepts the first.
* `gateway/client.py:29` replaces client and cache key by two assignments without a lock: a change of the
  configuration while two threads build a client may leave the old one under the new key.
* A thread of the client may send `Bearer None` (test and read of the token are two
  steps); the rail's 401 makes it log in and try again.

## 5. What is proved

TLAPS checks these for every value of the constants, from the named assumptions of the
modules alone: any payments, orders, deliveries, reconcilers, pollers and workers; all
amounts; any limits; any statuses of the rail.

| Module | Theorem | Statement |
|---|---|---|
| `PaymentFlowProofs` | `TypeCorrect` | `Spec => []TypeOK` |
| `EscrowProofs` | `EscrowInvariant` | `Spec => []EscrowInv` |
| | `LedgerStaysBalanced` | `Spec => []LedgerBalanced` |
| | `DisputesFreezeFunds` | `Spec => []DisputedFundsStay` |
| | `PayoutsAreConfirmed` | `Spec => []PayoutNeedsConfirmation` |
| | `OffersAreHeld` | `Spec => []OfferedFundsAreHeld` |
| | `StatusIsRight` | `Spec => []StatusFollowsHold`, with one reconciler |
| `ContractProofs` | `ContractIsKept` | `Spec => KeepsTheContract` |
| `RailProofs` | `RailInvariant` | `Spec => []RailInv` |
| | `EventsAreTrue` | `Spec => []EventsTellTheTruth` |
| | `BooksAreBacked` | `Spec => []BackedByTheRail` |
| | `SettlementsAreFinal` | `Spec => SettlementIsFinal` |
| | `SessionsAreTrue` | `Spec => []SessionTellsTheTruth` |
| | `CodesAreSpent` | `Spec => []CodeSpent` |
| | `LockedFundsDoNotMove` | `Spec => LockedFundsStay` |
| | `OrdersAreUnique` | `Spec => []OneOrderEach`, when `MaxLost = 0` |
| | `TotalsAreRight` | `Spec => []TotalsAgree` |
| | `ReportsAreRight` | `Spec => []ReportsAgree`, with one reconciler |
| `QRProofs` | `DiscoveryInvariant` | `Spec => []QRInv` |
| | `QRTypeCorrect` | `Spec => []QRTypeOK` |
| | `MatchesAreOurs` | `Spec => []MatchIsOurs` |
| | `HandOversAreWhole` | `Spec => []HandedOverTogether` |
| | `WatchesCloseOnce` | `Spec => WatchClosesOnce` |
| | `DiscoveryIsExclusive` | `Spec => ClaimsAreExclusive` |
| `WebhooksProofs` | `HooksInvariant` | `Spec => []HooksInv` |
| | `HooksTypeCorrect` | `Spec => []HooksTypeOK` |
| | `TheAuditIsWhole` | `Spec => []AttemptsAreRecorded` |
| | `WorkersDoNotDuplicate` | `Spec => []DuplicatesHaveACause` |
| | `RetriesCanBeMade` | `Spec => []RetriesHaveAttemptsLeft` |
| `MerchantProofs` | `PlanInvariant` | `PlanSpec => []PlanInv` |
| | `PlanTypesAreKept` | `PlanSpec => []PlanTypeOK` |
| | `PaidRequestsAreGranted` | `PlanSpec => []GrantsArePaidOnce` |
| | `MerchantInvariant` | `MerchantSpec => []MerchantInv` |
| | `ChargesAreRight` | `MerchantSpec => []FeesAreRight` |
| | `SecretsStayDead` | `MerchantSpec => DeadSecretsStayDead` |
| | `OnboardingInvariant` | `OnboardingSpec => []OnboardingInv` |
| | `AnAddressHasOneAccount` | `OnboardingSpec => []OneAccountEach` |
| | `DecisionsHaveRows` | `OnboardingSpec => []DecisionsAreOnRecord` |
| | `FileTypes` | `FileSpec => []FileTypeOK` |
| | `TheOwnerOnlyCompletes` | `FileSpec => OwnersOnlyComplete` |
| `ThreadProofs` | `TokenInvariant` | `TokenSpec => []TokenInv` |
| | `FreshTokensOnly` | `TokenSpec => []UsableTokensAreFresh` |
| | `BreakerInvariant` | `BreakerSpec => []BreakerInv` |
| | `BreakersHaveCause` | `BreakerSpec => BreakerHasCause` |
| | `LimiterInvariant` | `RateSpec => []LimiterInv` |
| | `BansAreDeserved` | `RateSpec => BansHaveCause` |
| | `SnapshotsAreWhole` | `SyncSpec => []SnapshotIsOneScan` |

The assumptions: `RecordsAssumption` (the instant and late payments are payments, fees are
natural numbers below their amounts, which is the database's `ck_payment_fee_valid`, the
limit is positive, `None` is no status), `QRAssumption` and `HooksAssumption` (types of
the constants, a positive attempt limit), `PricingAssumption` (rates are integers of either sign), `PlanRequestAssumption`,
`MerchantAssumption`, `TokenAssumption`, `OnboardingAssumption`, `FileAssumption`,
`SyncAssumption` (types; `None` is no plan, request or status; a checkout's amount is
positive; the fields that the owner and the checks use are fields), `BreakerAssumption`
and `RateAssumption` (thresholds and times are positive, as the settings' defaults are).
`CyclesAssumption` and `TurnsAssumption` (a positive `--limit`) belong to the liveness modules; no theorem uses them.
`StatusIsRight` and `ReportsAreRight` have the hypothesis that there is one reconciler;
without it `StalePoll` refutes them. Services share no state, so the theorems about one of
them are stated of its own specification (`PlanSpec`, `MerchantSpec`, ...);
`MCServices` runs the same actions.

The type invariants `QRTypeOK`, `HooksTypeOK` and `PlanTypeOK` are proved here and therefore
no longer among the properties of the runs.

*Types.* `TypeOK` bounds the attempts by the limit, which no step keeps by itself: the
lock must come on at the limit. `LockAtLimit` adds that; together they are inductive.

*Safety of the escrow.* None of the four properties is inductive. Their proofs rest on
`EscrowInv`, which says that **the hold is the truth**: while it does not exist nothing was
credited, decided or settled; in each of its states decision, confirmation, claims,
settlement, ledger and payout orders are what that state means; whether the hold exists
is what the collection's `GatewayCallback` rows say; a payment that offers the
payer's operations is one whose hold is undecided; and each poll under way is about a
request that exists. The last two parts are what makes two reconcilers safe: a second
application of COMPLETED is refused by the callback, not by the payment's status, which
the stale poll of section 4 may have overwritten. The proof has one lemma per action,
and one step per part the action can disturb.

*Refinement.* `ContractProofs` derives from `EscrowInv` what each action does to the hold
and the ledger (`HoldStep`), maps it through `FundOf` to what the contract sees
(`Views`), and gives for each step the contract's step or a stutter
(`ContractMove`, `ContractStutter`).

*Status.* `StatusFollowsHold` fails with two reconcilers, so its proof must say what one does not do.
`PollsInOrder`: no two polls are about the same row, and the status a poll has seen is the
row's own. A batch is read only by an idle reconciler, each application takes its poll
away, and a row is made only for a payment without one, so the answer applied is always
the latest read, and the status it writes is the one the hold implies.

*The rail and the events.* `RailInv` adds to `EscrowInv` that what polls carry and callbacks
remember is something the rail has said and, when final, still says (`RailIsHeard`),
and that settlement, hold and the counts of events are functions of the callbacks
(`OutcomesAreTold`). A settlement is then final because a second final answer would
need a rail that changed its mind. Session, code and orders have small invariants of their
own (`SessionIsTrue`, `CodeInv`), inductive together with the ones before.

*Reports and pages.* The totals are folds over sets of payments. `HeldRow` gives, from `EscrowInv`, the
ledger of a payment for each state of its hold; then the sets folded over are the
same sets and the operators folded with agree on them, which needs no induction.
`TotalsAgree` holds for any number of reconcilers; the figures that select
payments by status need `StatusFollowsHold`, and the pages `PageFits` besides: an
unpaid status has a failure on record, and a protected payment that waits for its code has one.

*QR discovery.* `QRInv` says what a poller may hold in memory: a transfer it has found is a
QR payment of the order's amount in the window up to the poller's own time, that time
is past, and an order it took up was still within its session. Exclusiveness is the
unique constraint (`Recordable`) together with the fact that a collection row, once made,
is not changed; the refinement maps each `Record` to a claim. A second poller with a copy of a watch that is already
recorded may still overwrite `matched_trx_ref`, or save it as expired; so the invariant does not say that
the watch names the recorded transfer. It says that a match without a collection (`HalfMade`) names a transfer
that pays another order, or one a poller is about to record (`HasACause`), with the crash
between the two transactions as the one exception, which `cut` remembers.

*Webhooks.* `HooksInv` counts: the attempts of a row are exactly `1 .. attempts`, and what the
merchant received is at most the doubts plus the one delivery on record. The row lock
is in it as the status that `Deliverable` reads under the lock, not the stale one in the
worker's list. `RetriesHaveAttemptsLeft` is about rows only; that a worker gets to them is the
liveness property, with its exception.

*Plan requests.* `GrantsArePaidOnce` counts assignments, which no step does. `PlanInv` says why
the count is right: a payment is noted only under the callback of COMPLETED, an answer
that says so is what the rail says and will go on saying, and payments and assignments
correspond one for one, whatever plan or place in the order the staff give an assignment later (`EditsPermute`).
A second reconciler with the same answer finds the callback.

*Prices and keys.* `MerchantInv` says what a request holds at each of its steps: the quote of its
order's amount, with fee and rate of one moment and the plan of an assignment that was in
force. The fee is half-up rounding by integer division, within half a cent of the exact
share (`RightQuote`), on both sides of zero. A quote is right by itself: plan, rate and fee of one moment, so
nothing the staff change later, the plan of an assignment included, can make it wrong; only the database keeps
a negative one out of the rows (`Balanced`). A dead secret stays dead because the stamp writes one column.

*Onboarding.* `OnboardingInv` adds to the two properties that what a reviewer has read before
saving is on record. Whichever of two saves comes last, the status it leaves
and the one it went out from are then both accounted for.

*Merchant's file.* `OwnersOnlyComplete` follows from the types and the shape of the owner's step: a form
over the row read under the lock offers blank fields only, and every check is monotone in them.

*Token.* `TokenInv` says that the thread between a login and its last assignment is
alone, that deadlines at the rail grow, and that the stored expiry is at most that of
the stored token if the expiries up to it were stated with their zone, also between the two assignments, when
it is still the old one. With the assignments the other way around this fails, which is the
property's mutant. Without the condition it fails as well, since what `_parse_expiry` makes of another statement
may lie beyond the deadline.

*Breaker and limiter.* Both count in a cache entry that expires a fixed time after it was *first*
written. `Counts` relates it to the ages of what it counted: the entry's value is at most the
number of failures (requests) that are not older than the entry, which is never older
than its window. A tick ages both; a success, a lost entry or a restarted count only
lowers the counter. Both properties are then the test of the threshold.

*Sync.* A sync saves code and extensions in one transaction from one answer; the
extensions it does not name are deleted there, so the invariant is the property itself.

**Model-checked only.** The liveness properties (`CompletedCollectionIsHeld`, `PayoutIsResolved`,
`ReleaseIsNotForgotten`, `WatchIsClosed`, `EveryDeliveryEnds`, `PaidPlansAreGranted`,
`BreakerRecovers`, `JobsRunAgain`): the prover does not reason about fairness and ENABLED.
Every invariant and action property of the passing runs is proved.

## 6. Not modelled, and why

* Routes the project does not mount (`apps.deliveries.urls`, `apps.refunds.urls`): the
  payer's operations are reached through `apps/portal/views.py`. Refunds are request rows;
  no code moves money for them.
* Edits of staff in the Django admin, except prices, assignments, merchants with their file,
  applications, address blocks and webhook retries: arbitrary by design. So an API key or an endpoint's URL that
  staff edit there is outside of the properties (they could switch a revoked key on again).
* `request_delivery_review` without a decision by the payer: no caller.
* Settlement batches: no code puts a settlement into one.
* Row locks within a transaction, and the deadlock between applying a collection and
  confirming: a transaction is one step, the one the database aborts changes nothing.
* Due times and the backoff `min(base * 2^(f-1), 300)`: any open row may be polled at any
  time, which covers every schedule; which rows have a turn is in `ReconcileCycles` and `PlanTurns`.
* Security detectors, `AuthenticatedRateLimitMiddleware`, `RequestThrottlingMiddleware`:
  counters in the same cache as the ones modelled; their results are alerts and delays
  that no other code reads. `core/throttling.py` has no caller.
* Vault, health probes, log redaction, templates, parsing, serializers, settings: input,
  output and layout. `portal/views.py` is mostly pages; its operations on payments, keys,
  plans, endpoints, applications and profiles, and what its payment page offers, are in the models. These make up most of the repository's
  lines, and a model of them would say nothing.
* Onboarding: uploads, notifications and list pages; `reviewed_by`, which a stale save may overwrite
  with an older reviewer's name. The viewsets in `merchants/views.py`, with
  their serializers, and the views of `deliveries` and `fiduciary` have no route.
* The lazily built clients of `gateway/client.py` (section 4).

## 7. What could come next

1. `RowLocks`: the lock orders of the transactions as steps, and that breaking a
   deadlock loses nothing.
2. The clients of `gateway/client.py` as two assignments, next to `GatewayToken`.
3. The detectors' and throttles' counters, on `ProcessCache`.
