# A verification project for the flash sale

The repository sells a few tickets to many customers at once: NestJS gateways
reserve seats in Redis, a BullMQ queue carries accepted orders to workers, the
workers write them to PostgreSQL, and browsers follow their order over
server-sent events. This directory holds TLA+ modules of that system, the TLC
runs that check them on small instances, and proofs, checked by TLAPS, of their
safety for instances of every size.

- [Inventory](#inventory): the parts, their state, how they interact, what is hard
- [Modules](#modules): which module models which code
- [Faults](#faults): what may go wrong, and how it is modelled
- [Runs](#runs): what is checked, in which bounds, and what it shows
- [Fairness](#fairness), [Proofs](#proofs)
- [What the code does that its documents do not say](#findings)
- [Abstractions](#abstractions), [Not modelled](#not-modelled), [Plan](#plan)

## Inventory

| Part | State | Operations | Hard |
|---|---|---|---|
| `RedisService`, `OrderStatusService` | `stock:<id>`, `buyers:<id>`, `order-status:<id>` with a TTL | the Lua scripts that reserve and release a seat, SET/DEL/GET of the pending key, `ensureTicketStock` | replies that get lost, commands the client resends, EXISTS and SET in two steps |
| `TicketsService` (gateway) | none of its own; a call in progress | `buyTicket` (reserve, mark pending, enqueue; on failure release and clear), `initTickets` (DEL, SET) | a crash or failure between any two calls, compensation that itself fails |
| `order-queue` (BullMQ) | jobs, attempts, locks | add, take, complete, fail and retry, stalled check | a job that is run twice, at once or again |
| `OrderProcessor` (worker) | the call of `process()` it is in; the `orders` table | find, save, find again after a unique violation, clear pending, publish, notify | duplicates, retries that start in the middle, the unique index |
| `OrdersService` (gateway) | none | `getOrderStatus`: PostgreSQL, then Redis | two reads at two times |
| `OrderEventsService`, `OrderEventsBusService` | streams, the Map `orderStreams`, messages in flight | connect, attach, tear down, broadcast | registration after an await, Pub/Sub without memory |
| `EventsBootstrapService`, `EventsService` | the `events` table, stock keys | bootstrap on every start, inventory shown | gateways that start together, crashes during the start |
| `OrderStatusStream` (browser) | status, retryAttempt, connectionState, EventSource, timer | events, errors, reconnects, renders | handlers that see old renders, fetches and timers under way |
| `EventDetailsPage`, `CheckoutForm` (browser) | what is typed, submitting, error | open, type, submit, leave | an answer that is lost, a request that arrives after the next one |
| `notification-queue`, `NotificationsProcessor` | jobs; the call of `process()` it is in | wait, log a confirmation | run twice, or before the order is safe |

How they interact: browsers call gateways over HTTP. Gateways and workers share
the Redis keys, the order queue (gateways add, workers take), the two tables and
the Pub/Sub channel (workers publish, gateways subscribe). No two processes share
memory, so every interaction is a command to Redis, PostgreSQL or BullMQ.

What makes each part correct:

- *Reservations.* No seat is sold twice, a customer holds one seat of a ticket, and a
  seat is not given back under an order. Where a fault does break this, the harm is
  limited: one seat sold twice for a fault, unless the stock itself is SET again; and
  one seat left empty.
- *Orders.* An accepted purchase is never lost, becomes one order, can be asked
  about at any time, and is announced and notified about only after it is written.
- *Reads.* Nobody is told that an order is done before it is; whoever waits is told.
- *Catalog.* A gateway that listens has stock for every event, its start does
  not touch the stock of a sale that is on, and it mends what a torn `initTickets` left.
- *Checkout form.* It buys what it shows, one seat at a time, and what it says of a
  purchase is true; every submission is settled.
- *Confirmations.* Only of orders that are booked, for every one, and not twice
  unless something failed.
- *Order page.* It has one connection, and does not go deaf without saying so.

The hazards behind these, each at its line, are listed in `PROJECT.json`.

## Modules

```
Infrastructure              faults, and how calls are answered
 ├─ RedisService            keys and scripts
 │   └─ TicketInit          initTickets
 │       └─ EventsCatalog   bootstrap of the gateways
 ├─ OrderStatusStream       the order page
OrderQueue                  BullMQ
TicketInit + OrderQueue
 └─ TicketsService          buyTicket beside initTickets
     └─ CheckoutForm        event pages and their forms
RedisService + OrderQueue
 └─ OrderProcessor          process()
TicketsService + OrderProcessor
 └─ FlashSale               implements TicketSale and OrderLifecycle
     └─ NotificationsProcessor   the notification queue (an instance of OrderQueue)
OrderLifecycle
 └─ OrdersService           getOrderStatus
     └─ OrderEventsService  streams of one gateway (with Infrastructure)
FlashSale_types, FlashSale_proofs, FlashSale_orders    theorems about FlashSale
*_proofs                               theorems about the module of that name
MC*                                    instances for TLC
```

**FlashSale** composes the write side. Its variables are the Redis keys (`stock`,
`buyers`, `pending`), the queue (`jobs`), where each request and each
initialisation stands (`call`, `body`, `initCall`, `initBody`), where each worker
stands (`step`, `current`, `created`) and the `orders` table. `capacity`, `offered`,
`published` and `notified` are history: they record what the properties talk
about, and no action reads them. Each awaited call is one action, named for what
it does: `Reserve`, `MarkPending`, `Enqueue`, then `Release` and
`ClearPendingOfFailedCall` in the catch block; `FindExisting`, `SaveSelect`,
`SaveInsert`, `Refind`, `ClearPendingOf...`, `Publish...`, `Notify` in the
worker. A command that the client sends again runs a second time when others have run
in between, so the second run is an action of its own where that makes a difference:
`ResendReserve`, `ResendRelease`, `ResendDel`, and an `InitSet` that stays at
`setAgain`. What runs between two awaits runs in the action before the second.

**TicketSale** is what the sale promises: a ticket is opened once, seats are
held, given up or confirmed, and a confirmed one is never given up. `FlashSale`
implements it with `held` the buyers set and `sold` the customers who have a row.
**OrderLifecycle** is what the write side promises to the read side: pending
before accepted, a row before the pending key goes, the event after both.
`FlashSale` implements it too, and the read side is composed over it instead of
over `FlashSale`: that keeps the read side's state space small and says exactly
what it relies on.

**NotificationsProcessor** puts the notification service behind `FlashSale`. What
`notificationQueue.add` adds is a job in `mails`, in the same step in which the
sale counts it in `notified`; `MailQueue` is `OrderQueue` again, with one attempt,
because these jobs are added without options. A mailer takes a job, waits
(`delay`), logs the confirmation (`logged`) and reports; `confirmed` is history and
counts the confirmations of an order. A service that dies or stalls anywhere in
between leaves its job to the stalled checker.

**CheckoutForm** puts browsers in front of `TicketsService`. A form is `editing`,
`submitting` (`isSubmitting`), or `leaving` for the order page (`isPending`), and
shows a ticket, an email and a message. `HandleSubmit` posts the next request;
`Reserve` of the gateway is what makes it arrive, at any time later, with the body
that was posted; `FetchSettles` is the rest of `handleSubmit`. `ConnectionBreaks`
rejects the fetch before or after the request arrived, and a request that is no
longer waited for may still arrive. `told` and `sent` are history: what each
request was answered and which requests a page has sent. A reservation that was resent
and answered "duplicate" is the call state `selfRefused` of `TicketsService`: the form
shows the answer, and the seat stays taken.

**OrdersService** and **OrderEventsService** model the two reads of
`getOrderStatus`, and on top of them the streams of one gateway: `attaching`
while it awaits the status, `abandoned` if the browser goes meanwhile (the
`closed` flag), `attached` when its listener is registered. Gateways share no
streams, so one stands for all. Either read may reject (`error`), which ends the
stream like a 404 does. `missed` is history: the orders whose message Pub/Sub dropped.

**EventsCatalog** models `onModuleInit` of `EventsBootstrapService` in gateways
that start, crash and start again, beside a sale and beside calls of `initTickets`
(`TicketInit`, which `TicketsService` shares). `MaxBooting` says how many may start
at a time; `overlap` is history, and remembers whether two starts, or a start and
an initialisation, or two initialisations, were ever in progress together, or a SET of
one ran twice; `Torn`
says that an initialisation deleted a ticket's keys and has not set its stock yet,
or died before it could.

**OrderStatusStream** models the React component with its closures: `ui` is what
the state updates amount to, `rendered` what handlers and the effect see, and
`sources` all EventSources with the reconnect each one led to, because an old
reconnect may still be under way when a new source opens; `overtaken` is history, and
remembers whether that ever happened.

Operators whose comment begins "Wrong:" are not part of any specification. Each
stands before the definition it would replace and is what a plausible mistake
would make of it; putting it in place makes TLC report the property that
`PROJECT.json` pairs it with.

## Faults

`Infrastructure` lists the outcomes that the code does not choose; each run says
which it allows (`Faults`) and how many (`MaxFaults`).

| Fault | Meaning |
|---|---|
| `refused` | a call has no effect and rejects |
| `lost` | a call takes effect and rejects |
| `lostAdd` | the same of `orderQueue.add`, kept apart because a sale does not survive it |
| `resent` | ioredis sends a reservation, or the add of a job or notification, again after a reconnect, and both run |
| `resentRelease` | the same of the release of a seat, kept apart because a sale does not survive it |
| `resentStock` | the same of a DEL or SET of a stock key, in `initTickets` or `ensureTicketStock` |
| `dropped` | Pub/Sub finds the subscriber disconnected |
| `crash` | a process dies between two calls |
| `stalled` | a live worker loses its job's lock and goes on |
| `expired` | a pending key's TTL runs out |
| `reinit` | `initTickets` is called for a ticket on sale |
| `offline` | a browser loses the connection to a request, before or after it arrived |
| `mailer` | the notification service dies, or stalls, with a job |

A crash is taken per request, not per process: a process that dies with several
requests in progress is several faults.

## Runs

| Run | Specification, instance | Shows |
|---|---|---|
| `sale_safety` | `FlashSale!Spec`; 3 requests, 2 customers, one with two ways to type his email, 1 ticket of 1 or 2 seats, 2 workers; 2 faults of `refused`, `lost`, `crash`, `stalled`, `resent` | `NoOversell`, `Conservation`, `OrdersBackedBySeats`, `SaleInv`, `EmptySeatsCostFaults`, `AcceptedIsVisible`, `EventsFollowState`, `TypeOK`; implements `TicketSale` and `OrderLifecycle` |
| `sale_reset` | the same with 2 initialisations of 1 seat; 2 faults of `lostAdd`, `reinit`, `resentRelease`, `resentStock`, `expired`, `refused`, `lost`, `stalled`, `crash` | `OversellCostsFaults`, `OneOrderPerCustomer`, `NotifiedAtMostOnce`, `AcceptedNeverLost`, `OrdersInv` |
| `sale_settled` | `FairMailSpec`; 2 requests, 2 mailers; 2 faults of `refused`, `mailer` | `AcceptedEventuallyRecorded`, `AcceptedEventuallyConfirmed`, `EventuallyConsistent`, `ConfirmedIsBooked`, `RepeatsCostFaults`, `MailTypeOK` |
| `checkout` | `FairCheckoutSpec`; 2 pages, 2 requests, 1 ticket of 1 or 2 seats, an email typed in two ways; 1 fault of `refused`, `lost`, `crash`, `offline`, `resent` | `ShownIsBought`, `OneSeatPerPage`, `RefusalIsNotOwnSeat`, `SubmissionSettles`, `CheckoutTypeOK` |
| `streams` | `FairStreamSpec`; 2 orders, 2 streams; 1 fault of `dropped`, `crash`, `refused` | `RegistryExact`, `StreamsTruthful`, `NotFoundOnlyInPassing`, `AttachedInTimeIsTold`, `StreamTypeOK` |
| `catalog` | `FairCatalogSpec`; 2 gateways, 2 events of 1 and 2 seats, 2 calls of `initTickets`; 3 faults of `refused`, `lost`, `crash`, `reinit`, `resentStock` | `ReadyIsStocked`, `InventoryShownIsTrue`, `StartRestocks`, `EveryGatewayListens`, `CatalogTypeOK` |
| `tracker` | `FairTrackerSpec`; 2 attempts, 5 faults `refused` | `OneConnection`, `NeverSilentlyDeaf`, `TrackingGoesOn`, `TrackerTypeOK` |

Five more runs each find one statement of the documents or of the program
violated; see [below](#findings). Two of them are the other side of a property that
holds: `checkout_retry` of `RefusalIsNotOwnSeat`, which excuses a seat that was
disowned (reported as a failure, or refused for its own resent reservation), and
`catalog_overwritten` of `InventoryShownIsTrue`, which is claimed only as long as no
two have ever been giving out stock at a time and no SET ran twice.

`sale_safety` and `sale_reset` divide the faults between them. The first takes those
that the safety of the sale survives; each of the four others breaks it, as TLC finds
when it is added to the first run: `lostAdd`, `reinit`, `resentRelease` and
`resentStock`. The second takes these four too, and says what holds all the same.
`OversellCostsFaults` compares what is sold and left with the seats that were ever put on
sale (`offered`): a SET that runs again, by `reinit` or `resentStock`, puts its whole count
on sale once more, so of these two it only says that they do no more than that; beyond it,
a lost add or a resent release sells one seat twice, and no other fault any (`NoOversell`).
`EmptySeatsCostFaults` says of the seats that are lost because a gateway died, a
release failed or a customer was refused for his own reservation that there was a fault
for each. Both are proved with every kind of fault, [below](#proofs).

Why these bounds are enough to be worth something: the hazards of the write side
need two requests that want the same seat and two workers that run the same job,
and at most two faults to bring them about (a job that stalls in one worker while
the other takes it over, whose call then is lost; a release that is sent again when its
customer has reserved anew). A second request of the same
customer is included, since any request may come from any customer. Duplicates of
a job come from `resent` and from stalls. `MaxStalls` is 1 as in BullMQ,
`Attempts` 3 as in the code. Three requests (`sale_safety`) cover what two cannot: a
seat that is sold, given back and sold again to a third, and a customer who comes
back while another one waits. Two mailers are needed for a notification that is run
by one while the other still has it. Two pages with two requests between them are a
page that is submitted twice, two pages of one customer, and two customers who want
the last seat. Two streams share an order, or follow two, which is what the registry has to tell apart.
`BusBound` 2 is the number of orders; a message of one may be in flight beside
another's, or beside its own duplicate. `MaxAttempts` is 5 in the order page; 2
already needs all of the ways to count and to give up, and 5 faults are enough for
the last attempt to be reached while an earlier reconnect is still under way. Symmetry (of requests, workers, tickets, customers) is used only in runs
of safety properties.

The customers are symmetric although one of them has two ways to type his email,
because no state keeps what was typed.

The sale and the checkout stop where nothing is left to be sold or retried, and the
order page where it is left, which is why their runs accept deadlocks; the read side
and the catalog never stop, and are checked for them.

## Fairness

`Fairness` of `FlashSale` assumes that a call in progress goes on (an event loop does not starve
a promise), that a worker goes on with its job, that waiting jobs are taken and
that the stalled checker runs (BullMQ does both from timers). It does not assume
that anybody buys, that tickets are initialised, or that faults come or stay away
except through `MaxFaults`. `AcceptedEventuallyRecorded` takes fewer faults than a
job has attempts, because a job that fails three times stays failed, with its
seat: that is what the code chooses (`removeOnFail: false`), and
`AcceptedNeverLost` shows that it can still be found. `EventuallyConsistent`
is claimed for at most one fault `refused` (its run takes two): with `lost`, `resent` or
`crash` a seat may be stranded for ever, since nothing in the code reconciles Redis with
PostgreSQL. How many may be is what `EmptySeatsCostFaults` says.

`FairMailSpec` takes it over and adds the same of the notification service: waiting notifications are
taken, a mailer goes on, its stalled checker runs. A notification is attempted once
and runs again only after a stall, so it is claimed to be sent if at most
`MaxStalls` faults happen. `FairCheckoutSpec` assumes that a request whose
connection holds arrives, that its gateway goes on with it, and that its answer
comes back. A browser has no timeout of its own here, so nothing is assumed of a
connection that breaks, and no customer has to submit or stay.

`FairStreamSpec` assumes that the worker finishes accepted orders and that the
gateway handles messages and answers (strongly for the publish, because the code
has no `BusBound` that could keep it waiting); `FairCatalogSpec` that what is down is
started again and that a start goes on; `FairTrackerSpec` that React renders,
timers fire, connections that can be opened are, and requests are answered. It does not
assume that the gateway ever sends the completed event, since it may not
(`stream_left_waiting`, `sale_unannounced`). So `TrackingGoesOn` claims no more than
that a page is not left between two connections: from some time on it shows the order
completed or tracking interrupted, or has an open connection.

## Proofs

TLAPS checks the theorems below for all values of the constants: any number of
requests, workers, tickets, customers, pages, streams, gateways, mailers, attempts
and faults. Where a theorem excludes kinds of faults, TLC finds the property
violated when any one of them is allowed; the properties of the checkout form, the
streams, the catalog and the order page name what they do not survive in their own
conditions (`Disowned`, a read that failed, `overlap`, `overtaken`). Every inductive invariant was checked by TLC
first; the two that most depends on, `SaleInv` and `OrdersInv`, are invariants of a run.

| Module | Theorem | Property | Excluded faults |
|---|---|---|---|
| `FlashSale_types` | `TypeCorrect` | `TypeOK` | |
| `FlashSale_proofs` | `SaleInvariant` | `SaleInv` | `lostAdd`, `reinit`, `resentRelease`, `resentStock` |
| | `StockConserved` | `Conservation` | `reinit`, `resentStock` |
| | `EveryOrderBacked` | `OrdersBackedBySeats` | `lostAdd`, `reinit`, `resentRelease` |
| | `NeverOversold` | `NoOversell` | `lostAdd`, `reinit`, `resentRelease`, `resentStock` |
| | `TheSaleIsKept` | `RefinesTicketSale` | `lostAdd`, `reinit`, `resentRelease`, `resentStock` |
| `FlashSale_orders` | `AFaultLosesASeat` | `EmptySeatsCostFaults` | |
| | `AFaultOversellsASeat` | `OversellCostsFaults` | |
| | `OrdersInvariant` | `OrdersInv` | |
| | `NeverOrderedTwice` | `OneOrderPerCustomer` | |
| | `NothingAcceptedIsLost` | `AcceptedNeverLost` | |
| | `EventsNeverAhead` | `EventsFollowState` | |
| | `AcceptedAlwaysVisible` | `AcceptedIsVisible` | `expired` |
| | `NeverNotifiedTwice` | `NotifiedAtMostOnce` | `resent` |
| | `LifeOfAnOrder` | `RefinesOrderLifecycle` | `lostAdd`, `expired` |
| `NotificationsProcessor_proofs` | `MailTypes` | `MailTypeOK` | |
| | `ConfirmationsAreTrue` | `ConfirmedIsBooked` | `lostAdd`, `reinit`, `resentRelease` |
| | `RepetitionIsPaidFor` | `RepeatsCostFaults` | |
| `CheckoutForm_proofs` | `CheckoutTypes` | `CheckoutTypeOK` | |
| | `BuysWhatItShows` | `ShownIsBought` | |
| | `APageBuysOnce` | `OneSeatPerPage` | |
| | `NobodyRefusesHimself` | `RefusalIsNotOwnSeat` | |
| `OrderEventsService_proofs` | `StreamTypes` | `StreamTypeOK` | |
| | `RegistryIsExact` | `RegistryExact` | |
| | `StreamsAreTruthful` | `StreamsTruthful` | |
| | `OnlyInPassing` | `NotFoundOnlyInPassing` | |
| `EventsCatalog_proofs` | `CatalogTypes` | `CatalogTypeOK` | |
| | `ReadyMeansStocked` | `ReadyIsStocked` | |
| | `InventoryIsTrue` | `InventoryShownIsTrue` | |
| | `AStartMends` | `StartRestocks` | |
| `OrderStatusStream_proofs` | `TrackerTypes` | `TrackerTypeOK` | |
| | `OneConnectionAtMost` | `OneConnection` | |
| | `DeafnessIsShown` | `NeverSilentlyDeaf` | |

**Types.** `TypeOK` is inductive but for one fact, `DuplicateFound`: a worker about to
handle a duplicate has found the row it is a duplicate of, and rows stay, so
`PersistedOrder` (a `CHOOSE`) is a row.

**The sale.** `NoOversell` says nothing about how orders come to be, so it is far
from inductive. It follows from `SaleInv`, which is:

- `Seats`: the buyers of a ticket and the requests that hold a seat correspond one
  to one. This is why a release cannot free another's seat.
- `Openings`: a ticket being initialised has no stock, and one without stock no
  buyers, so that DEL and SET, two steps, count as one.
- `Conservation`: stock and buyers add up to the capacity.
- `Backing`: every job and every row is that of an accepted request, which never
  lets go of its seat.

So rows have distinct customers who are all buyers, and buyers number at most the
capacity. The induction treats a request's step through one lemma
(`RequestStepFrame`): it takes a seat, gives one back or keeps what there is, and
changes no other request; the invariant is then proved for these three cases, not
for each action. The parts survive different faults, and are proved apart. `CountInv`
(`Openings` and `Conservation`) needs only that no ticket is initialised on sale and no
SET of stock runs twice: scripts move seats between stock and buyers, whoever sends
them. `BackInv` (`Seats`, `Openings` and `Backing`) needs that a release is that of
its own call, so it excludes `resentRelease`, and `lostAdd`, which frees a seat under a
job; the run `sale_oversold` shows what comes of it. `SaleInv` is both together. The
refinement `TheSaleIsKept` needs one fact more, `Unopened` (a ticket that is not open yet
is not sold from); each step is then an opening, a hold, a release, a sale or a stutter
of `TicketSale`.

**What a fault can do at most.** Two theorems hold with every fault, so they can rest on
none of the above. For `AFaultLosesASeat`, `EmptyInv` says that every buyer is there for
some request (`Holders`), that no seat of a ticket on sale is missing (`NoneMissing`, the
half of `Conservation` that also a lost add, a resent release and a reset leave
alone), and that the requests that left a seat behind, or were refused for their own
(`Strays`), number at most the faults. Every buyer is then spoken for or a stray's.
For `AFaultOversellsASeat`, `ClaimInv` counts claims: the requests that are under way with
a seat (`Underway`), those that have a job (`Queued`), and what is left of the stock. They
are never more than the seats that were put on sale and the faults: a step (`ClaimStep`)
drops some, turns one into another, or adds one and costs a fault. Each row is that of a
request with a job (`RowsQueued`), and of one only.

**The orders.** `OrdersInv` holds whatever fails. It says where jobs and rows come from
(`Origins`: a request that has sent its own), that rows obey both indexes
(`UniqueRows`), and that a worker clears, publishes and notifies in this order, only
of an order that has its row (`WorkInOrder`). Visibility adds `VisibleInv`: until its
row has come, an order has its pending key from the moment its job may be in the queue;
it is lost with `expired`, which is why that fault is excluded. Notifications add
`NotifierInv`: only the worker whose own insert made the row has something to notify
with, there is one such worker per order, and he has not notified yet. With `resent` the one
notification has two copies; `NotifiesAtMost` says that of every step, and the
mailers build on it. `LifeOfAnOrder` puts these together, with `AcceptedJobs` (an order
with a job is accepted), which `lostAdd` would break.

**The notifications.** `MailSpec` does not imply `Spec`, since a mailer that dies costs a
fault of the sale's; the sale's lemmas are therefore proved of `FlowStep`, which is a step
of `Next` or one that only changes the number of faults. `RepeatsCostFaults` is a
bound on a counter, and what makes it inductive is a budget: the confirmations so far,
the jobs that may still be logged (`Owing`) and the mailers that have lost their lock but
not their timer (`Deaf`) number at most one and the faults so far. Each step adds none of
them, adds one and costs a fault, or turns one into a confirmation.

**The checkout form.** `PostInv` says that a gateway is only ever asked for what was posted,
and that what the browser was told of a request, but for a failure, is what became of
it, also when the connection broke and the request arrived later. `PageInv` says which
of a page's requests it has heard of, and that what it posted is what it still shows.
A seat that was `Disowned` is excused, and nothing else: with a reservation sent twice a
page may hold two seats, one of which it was refused.

**The read side.** `StreamInv` joins the life of an order as the write side promises it
(`LifeInv`), what a read that is half done, or failed, still knows (`ReadInv`), what a stream or a
message in flight may say (`FollowInv`), and that an entry of the Map counts its
listeners, which are finitely many (`RegistryInv`).

**The catalog.** `CatalogInv` follows a starting gateway from key to key: what it is done
with has stock, or was torn by an initialisation. `AloneInv` holds as long as nothing
overlapped and no SET ran twice: whoever is about to SET a key found it missing or deleted it
himself, so stock and buyers add up.

**The order page.** `ConnectionInv` says that no source but the newest is open. `HeardInv`
holds as long as no reconnect was overtaken: all there is of reconnects is the newest
source's, which counts one attempt more than was rendered, and a page whose source is
gone reconnects, says that it does not, or has a new attempt to render. The attempt to prove `NeverSilentlyDeaf`
as it was first stated, without `~overtaken`, failed, and for a good reason: see the last
observation [below](#findings).

The proofs assume what the modules ASSUME of their constants: a job has an
attempt, `NoKey` is no number, `Normalized` maps what is typed to emails, counts
are positive, emails are finitely many (for `Cardinality`), and a blank field is no
email, request, ticket or message. No theorem assumes a bound on faults or sizes.

Only model-checked: the properties under fairness (`AcceptedEventuallyRecorded`,
`AcceptedEventuallyConfirmed`, `EventuallyConsistent`, `SubmissionSettles`,
`AttachedInTimeIsTold`, `EveryGatewayListens`, `TrackingGoesOn`), because liveness and
`ENABLED` are out of reach of the provers that TLAPS has here; and the five violated
statements, which need a counterexample, not a proof.

<a id="findings"></a>
## What the code does that its documents do not say

| Run | Statement | What happens |
|---|---|---|
| `sale_unannounced` | ADR-0010:37, the worker persists the order and publishes an event | A worker dies after the commit. The next attempt finds the order, returns `already_exists` (`order-worker.processor.ts:39-44`) and neither clears the pending key nor publishes nor notifies. |
| `sale_oversold` | narrative:37, Lua prevents overselling | `orderQueue.add` took effect but rejected: the catch block gives the seat back (`tickets.service.ts:61`), it is sold again, and both jobs become orders. |
| `stream_left_waiting` | ADR-0010:71-74, re-checking the status on connection makes up for a missed event | The event is broadcast between the status read and the registration (`order-events.service.ts:74-93`). The reply of Redis and the message come over two connections, so the handler of the message can run first. |
| `catalog_overwritten` | ADR-0011:80, never overwrite an existing stock key | EXISTS and SET are two commands (`redis.service.ts:127-134`): a second gateway that starts at the same time restores the full stock after seats were sold. |
| `checkout_retry` | the form's "Please try again" (`checkout-form.tsx:49`); ADR-0011:85, rely on backend idempotency | The seat was reserved and the connection broke. The second try carries nothing that identifies the purchase and is rejected as a duplicate of the first (`tickets.service.ts:38-41`); the customer has an order whose id he never learns. |

Five more observations have no run of their own.

- A release that ioredis sends again (`redis.service.ts:39-50`, `58-69`) gives back whatever
  seat its customer holds by then. If he has reserved anew, the seat of an accepted order is
  sold to somebody else. A SET of the stock that is sent again after sales began
  (`tickets.service.ts:23`, `redis.service.ts:132-134`) restores the full count. Both
  oversell, like `sale_oversold`, beyond narrative:37; TLC finds it when `resentRelease`
  (two faults, three requests) or `resentStock` (one fault) is added to `sale_safety`.
  `OversellCostsFaults` says that a release that was sent again costs one seat; a SET that
  was can cost as many as were sold before it.
- `getOrderStatus` reads PostgreSQL, then Redis (`orders.service.ts:16-37`); when the
  worker saves and clears in between, an accepted order is answered with 404, although
  ADR-0010:43 calls the endpoint the source of truth. `NotFoundOnlyInPassing` says
  how far that goes: the order has its row by then, and the next call finds it.
- In the order page the stream's end, an `error`, may come before React has rendered
  the completed status; the page then reconnects, and if its status request fails it
  keeps the label "connecting" beside a completed order. `NeverSilentlyDeaf`
  therefore speaks of the status, not the label.
- After a reset, an accepted order that loses against an earlier one of the same
  customer in the unique index has no row, and its own pending key is never cleared
  (`order-worker.processor.ts:67` clears the other's): it reads "pending" until the
  key expires. `AcceptedNeverLost` counts the earlier order as its record.
- The cleanup of the order page's effect clears a reconnect's timer, but not one that is still
  to be set (`order-status-stream.tsx:74-95`, `129-144`): a `scheduleReconnect` that
  awaits its status request goes on beside the next source. If that source then fails for the
  last time, the page shows that tracking was interrupted, and the timer that is left over
  sets the label back to "connecting". When it counts the attempt that is already
  shown, the effect does not run again, and the page waits with no connection and says
  otherwise. It takes several failures in a row and a slow answer;
  `NeverSilentlyDeaf` therefore claims nothing once a source was opened before an earlier
  one's reconnect was over (`overtaken`).

## Abstractions

- A command takes effect and is answered in one step. Between the two, the answer
  could change only where its own caller stands, so no property can tell. What a
  lost command does is in the faults. A command that is sent again runs a second time
  later, with steps of others in between, as an action of its own. Only for a command on a
  pending key, and for a publish, is the second run taken together with the first: nobody
  else sets a pending key, and it is deleted only after it was set for the last time
  (see `Answers`). Not included: a rejected command that is applied much later.
- A second run comes before the call goes on, since the client resends only what it has
  no reply to.
- `save()` is modelled from TypeORM's behaviour: it selects by primary key, and
  writes nothing, and fills in no `createdAt`, if the row is there unchanged.
- The read committed isolation of PostgreSQL is enough for these single-row
  statements; an insert that meets an uncommitted duplicate waits for it.
- Emails are normalised by the DTO; a raw email is a value that `Normalized` maps.
- Order ids are fresh (`randomUUID`), so a request is named by the id it will get.
- Completed jobs remain in `jobs` as "completed" although BullMQ removes them; no
  action looks at them again. Backoffs and lock durations are left out, so that
  retries and stalls may come at any time.
- A page's three kinds of refusal are what the form's messages amount to:
  "duplicate", "soldOut", and "failed" for anything else (a 500, a broken
  connection). A page that is loaded again starts from nothing, and `sent` with it.
  The browser's own check of the email field leaves only `required`.
- A logged confirmation stands for a sent one; the 500 ms are a step of their own.
- The bootstrap's events differ only in their inventory; nothing edits them later.
- The order page takes the gateway's answers for granted: the event is sent once
  there is a row (`StreamsTruthful`), if at all. Renders come before
  the next fetch or timer is done.
- Heartbeats change nothing in the gateway, and in the page only connectionState.

## Not modelled

The catalog page and the old checkout page (stateless text; the link of the former
to `/events/` when there is no event is out of the model), the ticket field of the
form (no page shows it: it would need a form without an event), validation errors of
the DTOs (they change nothing), dependency injection and configuration, Terraform,
load tests and scripts.

## Plan

1. Write side: Redis, queue, gateway, worker, their composition; type correctness
   and the safety of the sale proved. *Done.*
2. Read side over `OrderLifecycle`: status, streams. *Done.*
3. Catalog and order page. *Done.*
4. Both ends of the purchase: checkout form in front, notification service behind;
   `initTickets` beside the bootstrap; two orders of a customer after a reset. *Done.*
5. Proofs of every safety property and action property that a run checks, and of the two
   refinements of `FlashSale`; with every fault, what one can cost at most. *Done.*
6. Left: a safety counterpart, to be proved, of each liveness property (what a step may
   never take away from what is still owed), and a refinement of the read side.
