# Verification of the store backend (`svb-medusa`)

TLA+ models, TLC runs and TLAPS proofs for the backend in
`src/svb-medusa`: a Medusa v2 store with its own payment providers (Razorpay,
cash on delivery), shipment bookings with carriers (Shiprocket and others),
fulfillment, returns, return-to-origin, exchanges and operations jobs.

The server keeps everything in PostgreSQL and runs every request, webhook,
subscriber and cron job concurrently in one or more Node processes. Almost no
code path holds a transaction or lock over more than one statement: a row or an
order's `metadata` is read, a decision is taken, another service is called, and
the row is written back. The hard questions are therefore about interleavings,
crashes between two writes, and redelivered or late webhooks, and that is the
grain of the models: **one step per database or provider call**.

## Contents

1. [The parts of the system](#the-parts-of-the-system)
2. [Modules](#modules)
3. [Runs](#runs)
4. [Proofs](#proofs)
5. [What the checks found](#what-the-checks-found)
6. [What is not modelled](#what-is-not-modelled)
7. [Plan](#plan)

## The parts of the system

Paths are relative to `src/svb-medusa/src` unless they start with `payments/`
or `docs/`.

### Payments

| | |
| --- | --- |
| Code | `modules/payments-core` (webhook pipeline, reconciliation, provider registry), `modules/payment-razorpay`, `payments/stateMachine.ts`, the authorize route under `api/store/carts/[id]/payments/razorpay`, `modules/payment-cod`, `workflows/cod`, `workflows/checkout/cod-checkout.ts` |
| State | a payment session row (`status`, `data` JSON); `payment_webhook_events` (processed event ids); the Razorpay orders table (one order per session, guarded by an advisory lock); captures and refunds of Medusa's payment module |
| Operations | initiate, authorize (browser returns with a signature), capture, refund, cancel; webhook delivery; the reconciliation cron job; COD session creation, capture and refund |
| Interaction | three writers of one session row: the webhook pipeline, the reconciliation job and Medusa's payment module (which calls the provider service). They share nothing but the row |
| Hard | lost updates between the writers; an event recorded as processed whose effect is then lost; captures and failures of several attempts for one order arriving in any order; capped scans; provider errors in the middle of a scan |
| Correct when | the three statuses a row holds agree; a session counts as paid only with a payment that is; an event takes effect at most once; status moves follow the state machine; a paid session is eventually seen as paid |

### Shipments

| | |
| --- | --- |
| Code | `modules/shipping` (store, webhook pipeline and replay, booking recovery, label), `integrations/carriers` (contract, router with retries and circuit breaker, adapters), `subscribers/fulfillment-requested.ts`, `api/webhooks/shipping`, jobs `shipping-booking-recovery`, `shipping-webhook-replay` |
| State | tables `shipping_shipments`, `shipping_events`, `shipping_webhook_buffer`, each with unique indexes; in-memory circuit breakers |
| Operations | draft a shipment, book it with the carrier, record the booking, process a webhook (append event, advance status by rank), buffer an unmatched webhook, replay the buffer with backoff, recover bookings that got stuck, fetch a label; rebook and cancel exist but nothing outside the tests calls them |
| Interaction | the booking subscriber, the webhook endpoint, the replay job, the recovery job and the label request write the same shipment rows, without a transaction |
| Hard | a webhook that arrives before the booking is recorded; two-phase booking and crashes in it; duplicate and out-of-order carrier events; one active shipment per order and provider |
| Correct when | a recorded event is reflected in the status or outranked by it; a booking is never made twice; an unmatched webhook is not lost and is brought in unless older ones hold it up; a recorded booking keeps its references; an unrecorded one is recovered unless older drafts crowd it out of the job's list |

### Fulfillment, returns, RTO and exchanges

| | |
| --- | --- |
| Code | `workflows/fulfillment_request.ts`, `workflows/fulfillment-status.ts`, `workflows/returns`, `workflows/rto`, `workflows/exchanges`, subscribers `shipping-status-updated`, `return-prepaid-refund-requested`, `order-placed` |
| State | intents kept as JSON in `order.metadata` (`fulfillment_intents_v1`, `return_intents_v1`, ...), each with a status, an idempotency log and events; stock levels per location and QC hold |
| Operations | state machines with idempotency keys; stock adjusted beside the transition; refunds through COD records or a prepaid refund event |
| Interaction | every flow reads the whole `metadata` of the order and writes it back; events trigger subscribers that do the same |
| Hard | lost updates between flows that share one `metadata` object; stock adjusted before the transition is stored; a refund event processed while its own transition is still unstored; errors that subscribers swallow |
| Correct when | a transition happens once per idempotency key and follows the state machine; stock moves once per transition; money is refunded once |

### Checkout

| | |
| --- | --- |
| Code | `api/middlewares.ts`, `workflows/cart_apply_coupon.ts`, `workflows/cart_remove_coupon.ts`, `workflows/checkout/cod-checkout.ts`, `modules/promotions`, `modules/inventory/check-availability.ts`, `modules/shipping/eligibility.ts`, `modules/payment-cod`, `modules/payment-razorpay` |
| State | the cart (items, coupons, shipping option), its payment collection and sessions, the order once it is placed and its payment |
| Operations | apply and remove a coupon, add and remove an item, choose shipping, swap the payment sessions, authorize a COD session, the guards of placement, capture, cancel and refund |
| Interaction | middlewares and route handlers around Medusa's own cart workflows, which refresh the payment collection when the total changes; two payment providers that may refuse to let a session go |
| Hard | guards that read the cart and act later; a loop that deletes sessions one by one and then creates one with an amount read before; a refund that is sent again because no answer came; two refunds, or a refund and a capture, that both read the payment before either stores it; two queries that tell by different fields whether an option is COD |
| Correct when | every session charges the cart's total; one session is left; no session that holds a payment is deleted; an order obeys the coupon policy its guard checked; money given back is on record |

### Everything else

The alerts and attention lists of the operations team read orders and returns
and are modelled with them. Search and feed synchronisation, invoices, mail,
catalog validation, logging and metrics, migrations and the admin UI are listed
in `PROJECT.json`, with the reason why they stay outside.

## Modules

| Module | Models |
| --- | --- |
| `PaymentStateMachine` | statuses, transitions and translations between the canonical, Medusa's and Razorpay's vocabulary |
| `PaymentSession` | the life of payment sessions and their three concurrent writers |
| `MCPaymentSession` | small instances for TLC |
| `PaymentSessionProofs` | inductive invariant and theorems about `PaymentSession` |
| `ShipmentStatus` | statuses of a shipment, their rank, what the adapter and the buffer make of them |
| `ShipmentBooking` | booking, carrier webhooks, replay, recovery and labels over the three shipping tables |
| `MCShipmentBooking` | small instances for TLC |
| `ShipmentBookingProofs` | inductive invariant and theorems about `ShipmentBooking` |
| `EventInbox` | what the carrier and an operator may rely on when an event is sent: the abstract specification behind the tables of `ShipmentBooking` |
| `ShipmentInboxProofs` | `ShipmentBooking` implements `EventInbox` |
| `CarrierCall` | what a caller of the carrier router may rely on: the abstract specification |
| `CarrierRouter` | the router and the Shiprocket adapter behind that promise: circuits, two retry loops, the login, cancellation |
| `MCCarrierRouter` | a small instance for TLC |
| `CarrierRouterProofs` | inductive invariant and theorems about `CarrierRouter`, the safety part of the refinement among them |
| `OrderWorkflows` | the state machines of fulfillment, returns, RTO and exchanges, the operations that drive them and the stock each of them moves |
| `OrderFlows` | one order whose four workflows, payment records and `order.placed` handler share `order.metadata` |
| `OrderAlerts` | what alert detectors and the dashboard make of that order |
| `MCOrderFlows` | small instances for TLC |
| `OrderFlowsProofs` | inductive invariant and theorems about `OrderFlows` |
| `OrderAlertsProofs` | theorems about `OrderAlerts`, from the same invariant |
| `Checkout` | one cart from its coupons to the refund of the order |
| `MCCheckout` | a small instance for TLC |
| `CheckoutProofs` | inductive invariant and theorems about `Checkout` |

`ShipmentStatus` is shared: `ShipmentBooking`, `CarrierRouter` (the parcel and
its record) and `OrderWorkflows` (what a carrier's status asks of the
fulfillment) build on it. `OrderAlerts` extends `OrderFlows` by readers only.

### PaymentSession

State and the code behind it:

| Variable | Code |
| --- | --- |
| `row[s]` | the session row: `status`, and of `data`: `payment_status`, `razorpay_payment_status` (`raw`), `razorpay_payment_id` (`pid`), `verified_at`/`authorized_at` (`proof`), `order_id`/`completed_order_id` (`linked`) |
| `life[s]`, `aged` | whether the row exists, and whether `updated_at` is behind the job's threshold |
| `processed` | table `payment_webhook_events` |
| `hooked` | table `razorpay_webhook_events`, kept by the provider for Medusa's own `/hooks/payment` |
| `hook[w]` | one webhook request: after `markProcessed` (`marked`), after reading the session and deciding to write (`apply`) with its snapshot |
| `job` | the reconciliation run: rows of its one query (`rows`, `todo`), the merged provider answer it is about to write (`got`) |
| `checkout[c]` | one authorization, asked for by the browser's authorize request or by Medusa after its payment hook |
| `pay[p]` | Razorpay's own state of a payment (external) |
| `applied`, `stale` | history: which events were written, and which actor's reading of which session has been overwritten by somebody else since |

Each `await` on the database or the provider ends a step. `WebhookMark`,
`WebhookRead`, `WebhookWrite` are the three database calls of
`processSharedPaymentWebhook`; `JobScan`, `JobFetch`, `JobWrite` the query, the
status call and the update of `runStuckPaymentReconciliation`; `CheckoutStart`,
`CheckoutRead`, `CheckoutWrite` the route's own read, the payment module's read
and its write. `getWebhookActionAndData` records an event in a table of its own
before Medusa acts on the answer; what Medusa then does is the read and the
write of an authorization (`MaxSessions` and `HookEvents` bound the job's scan
and the events that are sent to both endpoints). The `Abort` actions are crashes
and thrown errors; what was already written stays.

External and modelled from its use: Razorpay (a payment is created, then
authorized or failed, then captured, then refunded; of several payments for one
session at most one succeeds; webhooks are issued for what happened and arrive
late, repeatedly or never) and Medusa's payment module (`updatePaymentSession`
overwrites `status` and `data`; `authorizePaymentSession` hands the provider
the session data together with the payload the route passes).

Abstracted: amounts, currencies, signatures (a refused delivery changes
nothing), wording, logs and metrics. Left out: what Medusa does on a webhook for
a payment that exists already (it captures it), and the idempotency table of
`createOrGetOrderForSession` with its advisory lock.

### ShipmentBooking

| Variable | Code |
| --- | --- |
| `row[s]` | a row of `shipping_shipments`: whether it is there, `status`, and whether the provider's order id, shipment id and AWB are recorded (`refs`). One per order and provider: `is_active` is cleared only by `rebookShipment`, which nothing outside the tests calls |
| `born`, `old` | the order of `created_at`; the shipments whose `created_at` is behind the threshold of the recovery job |
| `log[e]` | table `shipping_events`: the status an event was recorded with |
| `at[e]`, `done` | table `shipping_webhook_buffer`: `received_at` (as a number) and `processed_at` |
| `work[a]` | one running request or job: its program counter, shipment, event, status, the row it has read, what is left of its scan |
| `carrier[s]`, `sent` | the carrier's own status of a shipment and the webhooks it has issued (external) |
| `acked`, `lost`, `stale` | history: events answered with 200; events whose status was given up or written over; per actor, the shipments somebody else has written since it read or wrote them |

Actors and code:

| Actor | Steps | Code |
| --- | --- | --- |
| booker | `BookCheck`, `BookInsert`, `BookCall`, `Record`, then `ListForShipment` | `subscribers/fulfillment-requested.ts`: `listActiveShipments`, `createShipment`, `router.createShipment`, `markShipmentBookedFromProvider`, `replayBufferedEventsForShipment` |
| webhook request | `WebhookFind`, `WebhookBuffer` or `AppendEvent`, `ReadStatus`, `Cas` | `processShippingWebhookEvent` and what it calls |
| replay job | `ReplayScan`, `TakeNext` or `SkipNext`, `AppendEvent`, `ReadStatus`, `Cas`, `MarkProcessed` | `replayBufferedEvents`, `processBufferedWebhookRecord` |
| recovery job | `RecoveryScan`, `RecoveryLookup`, `Record`, then `ListForShipment`, `RecoveryFails` | `runShippingBookingRecovery` |
| label request | `LabelRead`, `LabelWrite` | `resolveShipmentLabel` |

`Abort` ends any actor between two steps: a crash, a thrown error, a timed-out
call. What it has written stays.

`EventInbox` is what all of this promises about an event: it is answered only
when it is kept for later or recorded, recorded once (with what it says, or, if it
had been kept, with what the buffer can still tell of it), struck off the kept
ones only when it is recorded, and nothing of that is taken back. `Inbox` maps
its variables to the tables (`issued` is `sent`, `kept` the buffered events,
`recorded` is `log`, `answered` is `acked`, `settled` is `done`), and
`ImplementsInbox` states the refinement. It includes `AckedNotLost`, which the
proofs use.

External, modelled from its use: the carrier. It books on `BookCall`, whether or
not its answer comes back; the parcel then moves along `CarrierStep`; webhooks
are issued for what happened and arrive late, repeatedly, in any order or never,
naming the shipment by the carrier's ids, by its order id or by our reference.

Choices of the model:

* The four queries of `findShipmentByProviderRefs` are one step; a row matched
  by one of them stays matched, as references are never erased (`RefsKept`).
* `retry_count` and the backoff are the choice between `TakeNext` and
  `SkipNext`: an event whose backoff is not over is passed by.
* `Limit` stands for the batch size of the replay job and for the fixed batch
  of the replay after a booking.
* An answer of the carrier without a known status counts as
  `BOOKING_IN_PROGRESS` (`AnswerStatuses`), as in the adapter.
* `RecoveryLimit` is the row limit of the recovery query, which takes the oldest
  drafts first (`InProgress`, `FirstCreated`, `Stuck`). A draft the carrier never
  booked stays in its status, and so on the list, for ever; `Crowded` says that such
  drafts fill it.
* `Leftover` are shipments that may exist from the start as a crash left them:
  a draft, in any order among the others, booked by the carrier or not, and its
  first event answered and buffered or not. An event that names our reference would
  have matched the draft, so it is not among those buffered. With `Leftover = {}`
  the tables start empty.
* `Failing` are events about which a statement may fail every time. They change no
  action: each can fail at any time, by `Abort`. The fairness excludes them.
* Left out: label fields, events that carry no status (they are recorded and
  change nothing else), the purge of old payloads, signature checks (a refused
  delivery changes nothing).

### CarrierRouter

One provider, one order, and any number of calls that run side by side.

| Variable | Code |
| --- | --- |
| `call[c]` | one call: its method, the router's attempt (`tries`), the adapter's (`sends`), which of two requests (`leg`), the token it sends and the one that was rejected, the carrier's reply, the answer to the caller |
| `circuit[m]` | `circuitState` of a method: how long it stays open, consecutive failures, the rolling window |
| `cache`, `refresher` | `tokenCache` and `tokenRefreshInFlight` of the adapter |
| `issued`, `floor` | the carrier's side of the tokens: how many it issued, the oldest it accepts |
| `enabled`, `static` | `SHIPPING_BOOKING_ENABLED`; whether `SHIPROCKET_TOKEN` is set, in which case it is token 1 and nobody logs in |
| `record`, `parcel` | the stored status of the shipment and the carrier's own |
| `late`, `performed` | abandoned requests that may still arrive; calls the carrier carried out (history) |

`Begin` is the part of a method before its first await (the switch, the stored
shipment, the circuit); `Authorise`, `LoggedIn`, `LoginFailed` are
`getAuthToken` and the single login behind it (a configured token goes out first
and again after a 401, as in the code); `Serve`, `Break` and `Arrive` the
carrier and the network; `ResendRequest` and `NextRequest` the adapter's
`requestRawJson` and the second request of a quote, a label or a lookup;
`Return` the router's `invokeWithPolicy`; `SaveCancelled` the update that
`cancelByShipment` makes on the strength of the answer. A 2xx that does not say
what was asked for is the reply `vague`: an error for a booking, a label or a
quote, an unconfirmed cancellation for a cancellation.

`CarrierCall` is the promise: a call is settled locally, or asked and in the end
answered; success means the carrier performed it; what was settled locally it
never performed. A failure promises nothing. `View` maps a detailed call to it,
and `ImplementsCall` states the refinement.

`FreshToken` speaks of a whole call, across the adapter's requests and the
router's rounds. A rejected token goes out again in two cases, both in the code:
it is the configured one, or the login that was to replace it failed, which leaves
it in the cache for the router's next round (`unreplaced`).

Choices: the carrier knows a booking by its `order_id`, so a repeated booking is
the same parcel (the adapter relies on it, the repository has no code for it);
the login's own retries are one step; all methods go through one router, while
production builds a router per request (a circuit there never outlives it).

### OrderWorkflows, OrderFlows, OrderAlerts

`OrderWorkflows` holds the four transition tables, the map from carrier status
to fulfillment status with its cascade, the state each operation asks for
(`Target`), the stock it moves (`Movement`) and what a movement adds to each
location.

`OrderFlows` is one order on which requests and event handlers (`Actors`) work
at once:

| Variable | Code |
| --- | --- |
| `meta` | `order.metadata`: `fulfillment_intents_v1` (`fi`, and in `delivered` the attempts whose history has a delivery), `fulfillment_state_v1` (`fstate`), `fulfillment_last_error_v1` (`failed`), the intents of returns, RTOs and exchanges (`it`) |
| `cod`, `captured`, `refunds` | how the order is paid, whether the cash was captured, refunds by the note that identifies them |
| `stock` | inventory levels by location |
| `refundEvents`, `announced` | `return.prepaid_refund_requested` on the bus; `fulfillment.requested` emitted, by attempt |
| `known` | `processedOrders` of the `order.placed` subscriber |
| `actor[a]` | what a handler has in hand: its program counter, operation, intent or attempt, note, the targets left, and the metadata it read |
| `moved`, `disturbed`, `raced`, `overbooked` | history: movements carried out; intents two actors worked on at once, left half done or overwritten; refunds two actors were about to make at once; reservations that passed the check together |

Every handler reads the metadata as a whole (`Admit`), calls the inventory
(`Adjust`) or the payment module (`RecordCodRefund`, `RefundPayment`), and
writes back the metadata it read with its own change in it (`WriteBack`); the
emission of an event is a step of its own. `Fail` is an error of any call,
`Restart` of the process. The history variable `disturbed` marks exactly the
intents that a concurrent handler, a failure between stock and record, or a
write of old metadata has touched; the properties speak of all the others, so
each of them says what does **not** go wrong although every handler overwrites
everybody's data.

Choices: one unit and one amount per return (the code compares each return with
the ordered quantity by itself); the adjustments of a movement, one call per
item and location, are one step; the contract a fulfillment request builds is a
success or a failure; the five-minute memory of `order.placed` is the choice
between a delivery that does nothing and one that is handled. The idempotency
log is left out: no state machine leads back to a state (`NothingComesBack`), so a
repeated operation changes nothing with or without its key. `rto.prepaid_refund_pending` has no
subscriber.

`OrderAlerts` adds the readers: the scheduled detectors and the dashboard lists,
each with its own reading of the same fields. Time is the set `old` of intents
behind the threshold. `FailedRequestStaysSeen` is about an order whose fulfillment
request failed: its handler leaves it in sight of one of these readers, and every
later write keeps it there. There are two ways out and the property names both: the
note of the failure cannot be written either (`NoteLost`; the code logs that and
goes on, `order-placed.ts:225-240`), and a write of metadata older than the note or
the request erases it (`Overwritten`).

### Checkout

| Variable | Code |
| --- | --- |
| `cart` | items, coupons and shipping option |
| `collection`, `sessions` | amount of the payment collection; its sessions with provider, status and amount |
| `inStock`, `usedUp`, `expired` | the warehouse; coupons at their limit; coupons Medusa no longer applies |
| `req[r]` | one request: its program counter, argument, the cart or amount it read, the sessions left to delete |
| `order`, `payment` | the order with what its guard had checked; the payment it was placed with, with the refunds the provider carried out and those Medusa recorded |
| `errand[r]` | a capture or refund under way: before the provider's answer or with it in hand |
| `authorized` | `cod.authorized` events by session |
| `past` | history: coupons added over a changed cart, sessions created across each other or with an old amount, sessions authorized twice, items added after an option was found fit for COD, refunds whose answer was lost |

Steps: `ApplyRead`, `ApplyAdd` (`cart_apply_coupon`); `InitRead`, `InitDelete`
once per session, `InitCreate`, `InitConfirm` (`paymentInitWorkflow`);
`AuthRead`, `AuthAuthorize`, `AuthConfirm` (`paymentAuthorizeWorkflow`);
`PlaceRead`, `PlaceReplace`, `PlaceCheck` (`orderPlaceWorkflow` with the
revalidation of coupons); `StockCheck`; `Complete`. Medusa's own workflows
(change a cart, refresh the payment collection, delete a session, complete the
cart) are external and atomic: they take place or leave everything as it was.
`MayDelete` is what the two providers answer to the deletion of a session, and
decides which changes Medusa rejects.

A payment is captured and refunded in steps of their own, because Medusa reads its
data, hands a copy to the provider and stores what comes back: `CaptureRead`,
`CaptureStore` (a payment Razorpay has captured already counts as success, and the
copy is stored whatever happened since), `RefundRead` with the early return for a
payment that was read as refunded (`AlreadyRefunded`), `RefundCall`, which
`razorpayRequest` may send twice, `RefundFails`, `RefundStore`; `ErrandBreaks` is a
crash with the answer in hand. Two refunds that both read `captured` both pay, as in
the code: there is no idempotency key. `RefundsOnRecord` is what holds all the same.

An option is COD in two senses. The middleware in front of the choice loads its
name and metadata (`eligibility.ts:199`), checkout loads its code and type as well
(`cod-checkout.ts:369`). `NamedCod` are the options the first query finds,
`TypedCod` those only the second one finds; `OptionEligible` asks the first,
`IsCod` both.

Left out: quantities, taxes, what happens to requests still under way after the
order was placed, Medusa's own validation of refunded amounts (`MaxRefunds` bounds
what is asked), an answer of Razorpay to a refund that names none. The usage limits of coupons are looked up in the step that
reads the cart, and the availability of an item in the step that adds it.

## Runs

| Run | Question | Bounds |
| --- | --- | --- |
| `payment_safety` | do the safety properties hold under every interleaving? | 1 session, 2 payments for it (the second attempt after a failed one), 2 webhook handlers, the job, 1 checkout |
| `payment_reconciled` | does the job finish what webhooks left undone? | 2 sessions, one never paid, 1 payment, 1 handler, scans with room for both |
| `payment_backward` | do status changes follow the state machine only (as the docs say)? | as `payment_safety` |
| `payment_missed_webhook` | is the job the safety net for missed webhooks (as the docs say)? | 1 session, 1 payment, 1 handler |
| `shipment_safety` | do the safety properties hold under every interleaving and failure? | 1 shipment, 2 bookers, 1 webhook handler, the replay job, 1 label request, 2 events that differ in status and in how they name the shipment, one of which is read as another status when it is replayed, the whole way of a parcel that returns, `Limit = 2` |
| `shipment_live` | are bookings recovered and buffered events replayed, unless older ones stand in front? | what a crash may leave of 2 shipments, in any order, and of 3 buffered events, in any order: one that can be matched, one that names nothing known, one that may fail every time; replay and recovery jobs, `Limit = 2`, `RecoveryLimit = 1` |
| `shipment_webhook_race` | is ingestion race-safe (as the docs say)? | 1 shipment, 1 booker, 2 handlers, 2 events that name the carrier's ids |
| `shipment_unrecovered` | is every booking recoverable (as the docs say)? | 1 shipment, 1 booker, 1 handler, 1 event that names our reference, the recovery job |
| `carrier_router` | does the router keep its promise under retries, logins, lost and late requests? | 2 calls, each a booking, a cancellation or a tracking request; with and without a configured token; 2 attempts each of router and adapter, threshold 2, window 1, 2 logins, 1 expiry |
| `order_flows` | what survives, and stays in sight, when all workflows of an order overwrite its metadata? | 1 return, 1 RTO, 1 exchange, 2 attempts, 2 actors, 2 reasons for a refund; at most 2 of these things opened, at most 3 together with overlaps and faults |
| `order_restocked_again` | is a repeated quality check harmless (as the docs say)? | 1 return, 1 actor, no faults |
| `checkout` | do amounts, sessions, coupons and the COD choice stay right when requests interleave? | 2 requests side by side, 2 items, 2 coupons, 3 options (COD by name, COD by type, prepaid), 3 sessions, 4 requests begun, 1 mishap, 2 refunds |

Why these bounds are enough: the writers interact through a row, so one session
shows every conflict; three kinds of writers with two webhook handlers give
every pair of conflicting writers, including two of the same kind, and a third
one between them. Two payments are needed for a failure and a success to arrive
in either order; a third adds another failure. The second session matters only
to the job, whose scan is the one thing that spans sessions.

For shipments the same argument holds: actors meet in a row, and no rule
compares two shipments. Two bookers are needed for a duplicate
`fulfillment.requested`; two events for an older one to arrive after a newer
one, and for one to be matched while the other is buffered; one handler delivers
both, and again, because it goes idle in between, while the replay job is the
second actor that applies events. The carrier's statuses are
cut to those the events name (`Journey`); with the draft and the booking before
them a shipment can be ahead of, at and behind each event.

`shipment_live` is about rows and events that stand in front of each other, so it
has more of them than the jobs list: two drafts for a list of one, so that the older
one can be booked, in which case both are recovered, or never booked, in which case
it crowds out the other for ever; three events for a list of two, of which the two
others may both be in front, one of them, or none. With the conditions `Crowded` and
`HeldUp` left out, both properties are violated in this instance: the unqualified
claims are false of the code.

`carrier_router` needs two calls: one that logs in and one that waits, two that
are rejected together, a cancellation beside a booking. The three methods are
the three kinds of the retry tables (retried by the router alone, by nobody, by
both); `quote`, `getLabel` and `lookupShipmentByReference` are members of the same
kinds and go through the same actions.

`order_flows` takes intents in pairs, because handlers meet in the metadata and
a property relates an intent to one other writer. `MaxWork` trades intents for
overlaps and faults: two intents with one overlap or one fault, one intent with
both. The second attempt is needed for a retry. `checkout` has an item that may
go by COD and one that may not, and coupons of which one is worth more than an
item; four requests are a coupon, a choice of shipping, and two completions, or
any other mix (with five the run takes longer than five minutes and finds
nothing new). Requests, actors and handlers run the same code, whoever takes
them, so the safety runs identify permutations of them.

**Fairness** (`FairSpec`, used by the liveness runs only). In `PaymentSession`
the cron schedule starts the job again and again and time passes: weak fairness of `JobScan` and
`Age`. A call to the provider and the update behind it that are tried again and
again succeed again and again: strong fairness of `JobFetch` and `JobWrite`,
because any run of the job may be aborted. Nothing is assumed of customers,
deliveries, handlers or checkouts.

In `ShipmentBooking` the same holds of the replay and the recovery job: weak
fairness of the job as a whole and of `Age`, strong fairness of the statements
it repeats on every run (`AppendEvent`, `ReadStatus`, `Cas`, `MarkProcessed`,
`Record`), of the lookup that is answered with the shipment, and of each branch
of the backoff (a backoff ends, and an event in backoff is passed by). Of the
events in `Failing` none of these statements need ever succeed. From some time on
the process no longer dies in the middle of a recovery run: the run catches the
error of a step and goes on with the next shipment (`booking-recovery.ts:132`), so
only a crash each time after the first shipment of a list could keep the second one
from being looked up. Nothing is assumed of bookers, webhook deliveries, label
requests or the carrier: what they leave undone is what the jobs are for.

In `CarrierRouter` one weak fairness condition over all calls says that the
event loop runs what is ready and that every request settles, with an answer or
an error; nobody has to begin a call, to move the parcel or to let a late
request arrive. `OrderFlows` and `Checkout` have safety properties only and
assume no fairness.

`CHECK_DEADLOCK FALSE` everywhere: a shop in which every customer is done,
every parcel delivered and every event processed may rest.

## Proofs

`PaymentSessionProofs` proves, for any number of sessions, payments, handlers
and checkouts and from `ConstantsAssumption` alone:

| Theorem | Statement |
| --- | --- |
| `TypeCorrect` | `Spec => []TypeOK` |
| `ReadersAlwaysAgree` | `Spec => []ReadersAgree` |
| `PaidSessionsNamePayments` | `Spec => []PaidSessionNamesItsPayment` |
| `EventsAppliedAtMostOnce` | `Spec => []EventAppliedAtMostOnce` |
| `OnlyLostUpdatesAreIllegal` | `Spec => IllegalOnlyIfStale` |

The properties speak of rows, but rows are written from snapshots, possibly
stale ones, so none of them is inductive by itself. `IInv` states the same
facts of every snapshot an actor holds (`HookOK`, `JobInv`, `CheckoutOK`), why
the actor decided to write, and that a snapshot which is not `stale` still
equals the row. The argument has three layers: lemmas about the operators that
compute a row (`RowAfterGood`, `AuthorizedRowGood`, `FetchedRowGood`: a good
snapshot gives a good row), frame lemmas (`GoodForward`, `IssuedForward`: what
Razorpay has done stays done; `WriteUndisturbs` and the others: a step of one
actor makes another's reading stale before it changes the row behind it), and
one step lemma per part of the invariant.

`ShipmentBookingProofs` proves, for any finite number of shipments, any events and
actors of each kind, any limits, any `Journey` and whatever an earlier crash left
behind, from `ShipmentConstants` alone:

| Theorem | Statement |
| --- | --- |
| `TypeCorrect` | `Spec => []TypeOK` |
| `CarrierIsAskedOnce` | `Spec => []CarrierAskedOnce` |
| `AcknowledgedNotLost` | `Spec => []AckedNotLost` |
| `RecordedIsReflected` | `Spec => []ReflectedUnlessLost` |
| `ReferencesKept` | `Spec => RefsKept` |
| `OnlyStaleRegress` | `Spec => RegressesOnlyIfStale` |

The properties speak of tables; what is written into a table comes out of an
actor's record, so `IInv` adds what such a record may hold: `WorkersInv` (an
event is in the log before its status is applied, a compare-and-set only moves
up, a shipment in hand is no longer on the actor's list), `KnowledgeInv` (an
overwriter whose reading is not `stale` still knows the row: the row it read for
a label, the draft it inserted or found stuck, a status no newer than the
carrier's answer), `RowInv` (a booked shipment and every shipment the carrier
writes about has a row; a row that is not there is empty) and `BufferInv` (the
buffer is finite, which makes `received_at` of a new event positive; a marked
event is recorded). Three frame lemmas keep the proof short: `QuietStep` for the
steps that only move an actor, `WriteStep` for those that write a row, with
`OverwriteStep` for the unconditional ones. Each action then has one lemma that
checks their premises. The action properties follow from `IInv` and from
`RowWrites`, which names the four actions that write the table.

`ShipmentInboxProofs` proves from the same assumption that the tables are an
inbox:

| Theorem | Statement |
| --- | --- |
| `TablesAreAnInbox` | `Spec => ImplementsInbox` |
| `EventsHaveSources` | `Spec => [](IInv /\ SourceInv)` |

A step that records, keeps or marks an event takes it from an actor's record, so
the proof needs where the record has it from: `SourceInv` says that a webhook
request holds an event that was sent, with its status, and a replay one that is
buffered, with its retold status, as is everything left on its list. Then
`AppendEvent` is `EnterDelivered` or `EnterKept` or finds the event recorded,
`WebhookBuffer` is `Keep`, settling a status is `Confirm` or nothing,
`MarkProcessed` is `Settle`, `CarrierMoves` and `BookCall` are `Issue`, and every
other step leaves the inbox alone. TLC checked `SourceInv` on the instance of the
`shipment_safety` run first.

`CarrierRouterProofs` proves, for any calls, methods, attempts, thresholds and
numbers of tokens, from `RouterAssumption` alone:

| Theorem | Statement |
| --- | --- |
| `TypeCorrect` | `Spec => []TypeOK` |
| `LoginsAreSingle` | `Spec => []SingleFlight` |
| `TokensAreFresh` | `Spec => []FreshToken` |
| `BudgetsHold` | `Spec => []RetryBudget` |
| `CancelledThere` | `Spec => []CancelledAtCarrier` |
| `ImplementsCallSafely` | `Spec => Port!SafeSpec` |

A token rejected with 401 is below the carrier's `floor`, and a call that was
rejected asks for a forced login, so what it sends next was issued later, unless
the token is configured or that login failed: the
invariant orders `rejected`, `token`, `cache.token`, `issued` and `floor`, and says
of each point of a call whether a login lies between a rejection and the token the
cache holds. A cancellation that is about to be stored has an answer that the carrier gives
only for a cancelled parcel, and no step takes a parcel out of `CANCELLED`. For
the refinement every step maps to a step of `CarrierCall` or leaves its
variables alone; a reply `ok` is in `performed`, and what may still arrive late
belongs to a call that was asked.

`CheckoutProofs` proves all nine properties of the `checkout` run, for any finite
set of requests, any items, coupons, prices, discounts and bounds, from
`CheckoutAssumption` and `NoneAssumption`:

| Theorem | Statement |
| --- | --- |
| `TypeCorrect` | `Spec => []TypeOK` |
| `TotalsCharged` | `Spec => []SessionsChargeTotal` |
| `SessionIsSingle` | `Spec => []OneSession` |
| `CouponIsSingle` | `Spec => []OneCouponUnlessRaced` |
| `PolicyAtPlacement` | `Spec => []PlacedAsChecked` |
| `CodOrdersEligible` | `Spec => []CodItemsEligible` |
| `AnnouncedOncePerSession` | `Spec => []AuthorizedOnce` |
| `RefundsAreOnRecord` | `Spec => []RefundsOnRecord` |
| `PaidSessionsStay` | `Spec => PaidSessionKept` |

Here the requests carry what they read, so the invariant says of each program
counter what was true of the cart, the sessions and the promotions when it was
reached (`Charging`, `Single`, `OneCoupon`, `Policy`, `EligibleForCod`,
`Announced`; `RefundSound` counts the refunds under way, one by one, and says that
data read as refunded come of a refund), and four frame lemmas carry those facts on: `Arrivals` (how a
request gets to a program counter), `StepKinds` (what a step may do to the
sessions), `CartEffects` (what it may do to the cart) and `PastOnlyGrows`.

`OrderFlowsProofs` and `OrderAlertsProofs` prove all eleven properties of the
`order_flows` run and one more, for any intents, attempts, actors, reasons of a
refund, initial stock and bounds, from `OrderConstants` alone:

| Theorem | Statement |
| --- | --- |
| `TypeCorrect` | `Spec => []TypeOK` |
| `StockIsMovedOnce` | `Spec => []StockMovedOnce` |
| `RestockedGoodsPassed` | `Spec => []RestockNeedsPass` |
| `RefundsFollowTheGoods` | `Spec => []RefundsBacked` |
| `RefundsAreNotRepeated` | `Spec => []RefundedOncePerNote` |
| `AnnouncedAtMostOnce` | `Spec => []AnnouncedOnce` |
| `ShownStatusExists` | `Spec => []ShownStatusIsAnIntents` |
| `ReplacementsAreInStock` | `Spec => []SellableNotNegative` |
| `WritesAreLegal` | `Spec => LegalUnlessDisturbed` |
| `NothingComesBack` | `Spec => NoWayBack`: an undisturbed intent or attempt never returns to a state it has left |
| `OpenWorkIsSeen` | `Spec => []OpenWorkSeen` |
| `FailedRequestsStaySeen` | `Spec => FailedRequestStaysSeen` |

The difficulty is that every handler writes back all of the metadata, out of a
copy of any age. `IInv` has one part per concern:

* `Typed`: besides the types, in the order **and in every copy** an actor holds,
  the movements an intent records are those its state calls for and the shown
  status is an intent's (`GoodMeta`), so a write of the oldest copy still leaves
  a coherent order; and an actor's operation is one its copy allows (`Shape`).
* `Alone` and `UpToDate`: an intent that is not `disturbed` is in the hands of one
  actor at most, whose copy of *that intent* is the order's. This is what
  `disturbed` is for, and why nothing stronger is true.
* `StockMovedOnce` is inductive given the two: the movement an actor carries out
  is new to its intent, and it is the only one to record it.
* `Backed` follows the money: every job and event that may lead to a refund of a
  return, or to the record of one, comes after the goods are back. It needs
  neither `Alone` nor `UpToDate`, and so holds of disturbed intents too.
* `RefundOnce`, `Announced`, `Available`: who is past a check is the only one past
  it, and what it checked is still true, unless the history says `raced`,
  `disturbed` or `overbooked`.

The thirty-odd actions are dealt with once. `Kinded` shows that each step is of
one of five kinds, described by its effect alone: `JobStep` (an actor goes on,
begins, ends or fails), `MoveStep` (stock), `PayStep` (a refund), `WriteStep`
(the metadata) and `Restart`; every part of the invariant is then proved from the
kinds. Before the proof was begun, TLC checked each part of `IInv`, and that each
step is of one of these kinds, on the instance of the `order_flows` run.

The alerts follow from the same invariant: nobody works on the return, so its
metadata has all its movements (`AtRest`), and the state `received` is the one in
which they add up to goods on hold. `FailedRequestsStaySeen` needs of the invariant
that the lists and the detectors read the same fields (`SeenIf`): what takes an order
out of sight is then a write of the metadata, and one of a copy that has not the note.

Liveness is left to TLC: its proof needs `ENABLED`, which the prover does not
handle. That concerns `CapturedEventually`, `RecoveredUnlessCrowded`,
`ReplayedUnlessHeldUp` and the liveness half of `ImplementsCall`.

## What the checks found

Each finding is a run that is expected to fail, with the line of the
documentation it contradicts in `PROJECT.json`.

* `payment_backward`: two handlers read the same row; the later write replaces
  FAILED by AUTHORIZED although the state machine forbids it. What holds
  instead, and is proved, is `IllegalOnlyIfStale`.
* `payment_missed_webhook`: a session without a payment id is scanned for ever
  but the provider is never asked, so it stays PENDING although the payment was
  captured.
* `shipment_webhook_race`: the compare-and-set of the newer of two events misses
  because the older one was applied after its read; it is not tried again and
  the event is answered as handled. What holds instead, and is proved, is
  `ReflectedUnlessLost`.
* `shipment_unrecovered`: a webhook that names our reference takes a draft out of
  `BOOKING_IN_PROGRESS`; the recovery job lists that status only, so the ids of
  the booking are never recorded. What holds instead is `RecoveredUnlessCrowded`
  (run `shipment_live`): a draft that stays in that status is recovered, unless the
  oldest drafts fill the list.

* `order_restocked_again`: the quality check moves a return's goods from hold to
  sellable stock and only then records the refund, which a COD order whose cash
  was not captured yet rejects. Nothing is stored, and the same request, sent
  again, moves the stock again. What holds instead is `StockMovedOnce`: once,
  unless the intent was left half done, overwritten, or worked on twice at once.

Also met, and listed as hazards: the reconciliation job and the label request
write back what they read (`IllegalOnlyIfStale`, `RegressesOnlyIfStale` say
exactly when that shows); scans with a limit can be filled by entries that never
move; a buffered `rto_in_transit` event is replayed as `IN_TRANSIT`.

Met in the order workflows, where no document says otherwise:

* The error note of a failed fulfillment request is never cleared, so an order
  that was fulfilled since stays on the attention list; and a write of older
  metadata can take the note away, as can a failure to write it
  (`FailedRequestStaysSeen` names both).
* An `order.placed` handler that cannot emit its own first event leaves the order
  marked as in progress until the process restarts, and nothing lists it.
* A COD order that was delivered and then returned to origin is reported as
  waiting for its cash for ever.
* The alert on a stuck quality check suggests running it again; after a crash
  between stock and record that moves the goods twice (`StockMovedOnce`).
* A prepaid return whose refund event is lost stays at `qc_passed` with its refund
  `requested`, which no list and no alert shows.

Met in the checkout:

* A refund of a Razorpay payment that was refunded before is answered with
  success without asking Razorpay (`payment-razorpay/service.ts:1433`): Medusa
  records a second refund that never took place. Two refunds that both read the
  payment as captured both take place, and so does one asked for after a capture
  that was under way has stored its older copy (`RefundsOnRecord` holds of all of
  them).
* An option that is COD by its code or type passes the eligibility check for any
  cart (`eligibility.ts:199`) and is COD at payment (`cod-checkout.ts:369`), although
  `docs/architecture/shipping-eligibility-v1.md:18` promises COD for eligible carts
  only; and the items may change after the check (`CodItemsEligible`).
* A failed session cannot be cancelled (`payment-razorpay/service.ts:1619`), so a
  cart that has one cannot change its total; although
  `docs/payments/razorpay.md:139` counts every unpaid session as one that can.
* A prepaid cart may complete with a COD session that was left over, as Medusa
  authorizes whichever session of the collection lets it.
* The coupon policy of placement holds of a cart that is the same in both
  readings of the guard and at completion, and of no other (`PlacedAsChecked`).

## What is not modelled

Listed per component in `PROJECT.json`. With status `not_modelled`: validation of
catalog data, search, product feed, invoices and mail (copies that nothing reads
back), logging and metrics, loaders, migrations, the admin UI and scripts.

Left out of components that are modelled in part:

* the advisory lock of `createOrGetOrderForSession`: a session's Razorpay order
  is made in one step;
* the provider choice and the health check of the router, the carrier's quotes as
  an instance (the actions have them), the fake carrier, the mapping of payloads
  beyond the statuses it produces;
* `rebookShipment`, which nothing outside the tests calls; label fields;
* the contract of a shipment: a validation of one input that succeeds or fails;
* the idempotency keys of order operations, the audit log and its timeline;
* quantities above one and amounts of partial refunds.

## Plan

Done: `PaymentStateMachine`, `PaymentSession`, `ShipmentStatus`,
`ShipmentBooking` as an implementation of `EventInbox`, `CarrierRouter` as one of
`CarrierCall`,
`OrderWorkflows`, `OrderFlows`, `OrderAlerts`, `Checkout`, their runs and the
proofs above.

Worth adding:

1. The composition of `ShipmentBooking` and `OrderFlows` through
   `shipping.status_updated`: which statuses a fulfillment never hears of.
2. `createOrGetOrderForSession` with its advisory lock and table.
3. Abstract specifications of a session that is paid once and of a shipment that
   only advances, with `PaymentSession` and `ShipmentBooking` refining them under
   the exceptions their properties name. `EventInbox` has neither statuses of
   shipments nor their exceptions.
