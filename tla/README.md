# Verification of the order book engine

TLA+ modules that model the engine, TLC configurations that check them on small
instances, and TLAPS proofs that hold for every value of their constants.

## The system

An engine node owns one *book* per symbol. A *sequencer* (another program)
puts every client command in one order per partition; a *feed* reads that order
and hands each command to the partition's *worker* thread, which calls the
books it owns, one call at a time. A call's events and its reply go to the
*outbox*, from which the *publisher* thread serves subscribers.

    sequencer --> SequencerFeed --> Worker (inbox) --> Book
                                       |
                        console --> Router            events, replies, snapshots
                                       |
                                    outbox --> MarketDataPublisher --> Subscription --> EngineFeedServer
                                                     |  ^
                                                     +--+ asks the worker for snapshots

| Component | State it keeps | Operations | What makes it correct |
|---|---|---|---|
| Book (`engine/src/*.cpp`, `book.hpp`) | levels per side, index of resting orders, node pool, final state and owner of every id, dormant stops and their keys, queue of woken stops, reference price, band clock, halt, events | `add_order`, `modify_order`, `cancel_order`, `place_stop_order`, `cancel_stop_order`, `modify_stop_order`, `drain_events`; reads: `depth`, `snapshot` | its parts agree; nothing is lost or doubled; quantities are conserved; time priority; stops fire once, in order; a halted book trades nothing; every call returns |
| NodePool, Level, Node | free list; head and tail of a level | `acquire`, `release`, link, unlink | a node is free or rests in one level |
| BlockingQueue | a deque under a mutex | `push`, `pop`, `try_pop` | FIFO, nothing lost |
| Worker | inbox, books, last timestamp | `submit`, `run`, `stop` | commands in order, one reply each, time never goes back, all work before the shutdown pill is done |
| Router | routes, `running_`, next seq | `submit`, `start`, `shutdown` | a queued command is executed |
| SequencerFeed | last seq, stopping, failed, retries | `run`, `stop`, `fail` | every command once and in order over any number of streams; a gap is fatal; stop always ends |
| MarketDataPublisher, Subscription | subscribers, seats per gateway, replay history | `subscribe`, `subscribe_replies`, `unsubscribe`, `route`, `run`; `try_push`, `end`, `next_for` | a subscriber sees a snapshot and then every later event, or learns why not; one slow subscriber costs the others nothing |
| EngineFeedServer | open streams | `Subscribe`, `SubscribeReplies`, `pump`, `stop` | what was queued before an end is delivered; the seat is freed |
| engine_node | all of these | start, ordered shutdown | shutdown ends, and loses nothing accepted |
| Console server (`main.cpp`) | next order id | parse, submit, print | every queued command is answered once; its shutdown ends |
| Codecs | none | encode, decode | round trip |
| BookReplica (`tests/book_replica.hpp`) | a reader's copy of the book | `apply` | equals the book after the same events |

Hard behaviours: a call of the book is a long loop that calls itself (a trade
wakes stops, a stop that fires trades); a halt may fall in the middle of it;
the publisher, the workers, the feeds and the streams are threads that meet in
queues; streams break and resume; shutdown races submission. `PROJECT.json`
lists each hazard at its line, with the properties that cover it.

## Modules

| Module | Contents |
|---|---|
| `RestingOrders` | the orders that rest on a book: side, price, queue; what may happen to them |
| `Book` | extends `RestingOrders`: the book, its constants, state, helpers, one action per call and per step of a call |
| `BookProperties` | its type, its invariants, the action and liveness properties, the inductive invariant |
| `MCBook` and `MCBook_*.cfg` | the values of the constants for each run |
| `BookProofs` | lemmas on what joining, leaving and shrinking do to a level and to the index; the inductive invariant of the book and the theorems that follow |
| `BookActionProofs` | what no step of the book does: the theorems about its action properties; that no call misses a stop; that the events and the answer account for what a call accepts; that `Book` implements `RestingSpec`; and where alone the book may be crossed |
| `BookLevels` | how the book keeps its resting orders: the nodes of the pool, their links, the free list, totals and counts of levels, the code's audit `check_invariants` |
| `BookLevelsProperties`, `MCBookLevels` | what the links promise, the inductive invariant, the refinement of `RestingOrders`; the instance |
| `BookLevelsProofs` | the inductive invariant of the links; that every walk along them ends with the right nodes, that the audit never fails, and that the nodes implement `RestingSpec` |
| `SequencerFeed` | the feed of a partition, the sequencer it reads from, the signal and the shutdown |
| `Delivery` | the abstract promise of a feed to its worker: each command once, in order |
| `SequencerFeedProperties`, `MCSequencerFeed` | invariants, refinement of `Delivery`, liveness; the instance |
| `SequencerFeedProofs` | the inductive invariant of the feed, and that it implements `Delivery` |
| `ExchangeServer` | the threads of the console server: producers and `Router`, workers and their clock, the printing publisher, the shutdown |
| `ExchangeServerProperties`, `MCExchangeServer` | replies, the clock, liveness; the instance |
| `ExchangeServerProofs` | that no book's time goes back, and that every command is answered once |
| `Publisher` | the publisher's registry, subscriptions and window of events, and its operations under `mutex_` |
| `EngineFeed` | extends `Publisher` with the threads that call it: workers, the publisher's thread, stream handlers, main's shutdown |
| `FeedView` | the abstract promise of the engine feed to a client: a first state of a symbol, then one event after the other |
| `EngineFeedProperties` | the type, invariants, refinement of `FeedView` and liveness of the output side |
| `EngineFeedProofs` | the inductive invariant of the seats and the theorems that follow |
| `EngineFeedOrderProofs` | the way of an event from its book to the publisher, in order and without loss, up to the close |
| `EngineFeedStreamProofs` | the way of a snapshot and of a reply, what every stream gets, the types of the output side, and that it implements `FeedView` |
| `MCEngineFeed` and `MCEngineFeed_*.cfg` | the values of the constants for each run |

How they fit together:

- `Book` EXTENDS `RestingOrders` and does to levels, index and pool only what its
  operators `Rest`, `remove_resting` and `Reduce` say: it implements `RestingSpec`
  (`BookMovesRestingOrders`). So does `BookLevels` (`KeepsQueues`, `QueuesKept`), and what holds of
  queues of ids holds of the linked nodes.
- `Book` calls its operations with times that never decrease. That this is so
  whatever the producers' time stamps are is `ClockNeverBack` of `ExchangeServer`.
- `Book` and `EngineFeed` meet in `Worker::run`: `Book` has what one call does to a book,
  `EngineFeed` what becomes of the call's outputs, of which it knows only how many
  events there are and for whom the reply is.
- `SequencerFeed` ends where `EngineFeed` begins: its `inbox` is what the step
  `FeedSubmits` of `EngineFeed` fills. `Delivery` is why that step may be "the next
  command" with no more said.
- Both servers share `Worker` and the ordered shutdown; `ExchangeServer` has them with
  the `Router`, `EngineFeed` with subscribers.

### How `Book` corresponds to the code

A call runs on the worker's thread to its end, so no two calls interleave; but
what a call does between its first line and its return is where the book's
difficulties are, so a call is a sequence of steps and `pc` says where it is:

| `pc` | In the code |
|---|---|
| `idle` | between calls; the worker picks the next one, with a timestamp `now` that is not smaller than the last |
| `enter` | `add_order_core` validates its order (`EnterRefused`, `EnterAccepted`) |
| `match` | the walk of the other side, one fill per step (`Fill`), until one of its five ends (`WalkEnds`, `CollarStops`, `SelfTradeStops`, `BandHalts`, `BandStops`) |
| `settle` | the remainder is zero, rests, or expires (`SettleFilled`, `SettleRests`, `SettleExpires`) |
| `wake` | `check_and_trigger_stops` moves the stops the trades reached to the queue (`WakeNext`, `WakeEnds`) |
| `fire` | the drain loop: fire the first stop (`FireNext`), send the unfired ones back if the book is halted (`SendBack`), or end (`FireEnds`) |
| `done` | the call has its result, and the worker drains its events (`Return`) |

Calls that enter no order (cancels, refusals, in-place modifies and all calls
about stops) are one step from `idle` to `done`. `modify_order_replaces` and
`FireNext` go to `enter` with `origin` "modify" and "stop", the callers that pass
`report_reject = false`.

State, where it is not the code's variable under its own name:

- `resting[id]` is the order in the node that `id_index_` names, or `None`.
- `levels[side]` maps the prices that have a level to the sequence of its ids:
  `bids_`, `asks_` and the list through the nodes.
- `free_nodes` counts the free list of `node_pool_`.
- `dormant[id]` is the stop under `id` and the priority in its key: the two stop
  maps and `stop_index_` in one. Priorities count from `kPriorityMid`, so new
  stops get 0, 1, 2 ... and stops sent back get -1, -2, ...
- `reference_price` is `reference_price_` and `last_trade_price_`, which the code
  always sets together; `None` stands for `has_reference_price_ = false`.
- `verdict` says why the walk stopped: `halted_by_band`, `band_limited`,
  `halted_by_self_trade`, `stopped_by_collar` or none of them.
- `trades` keeps of `result.trades` what is used: lowest, highest and last price.

`plan_match` computes all fills before `add_order_core` applies the first.
Nothing that applying a fill changes is read by the rest of the plan (the
collar reads the reference price, which changes only after the walk), so here
plan and walk are one lazy walk.

Left out: sequence numbers, trade ids and timestamps of events; the total and
the count of a level (they are in `BookLevels`); the width of integers; `depth` and `snapshot`, which only
read. One branch of the code is unreachable and has no counterpart: the computed
band edge is never an invalid price (lemma `EdgesValid`).

### How `BookLevels` corresponds to the code

A node is a number of `1 .. PoolCapacity`, `Null` is 0, and each member of `Node` is a
function on nodes. `next` serves in the queue of a level and in the free list, as in
the code, and a released node keeps its old order. A level is known by side and
price; `level_map` has exactly the levels that are in `bids_` and `asks_`.

| Action | In the code |
|---|---|
| `Rest` | `acquire`, `get_or_create_level`, the links and totals of the join, `id_index_` |
| `remove_resting` | `unlink_and_maybe_erase_from_level` with the erasure of an empty level, `id_index_`, `release` |
| `Shrink` | `reduce_resting` by a modify in place |
| `Fill` | `reduce_resting` of the first order of the best level, which leaves when nothing remains |

`Chain` walks the links as `snapshot` does, for as many steps as there are nodes. The
audit is an operator (`check_invariants`) that a run checks as an invariant, without its
parts on stops and on crossing, which are `Book`'s.

### How `SequencerFeed` corresponds to the code

`feed` is where `SequencerFeed::run` is: at the head of the loop, in the call, reading,
after `Finish`, waiting to retry, in `on_fatal`, hanging up, or returned.

| Steps | In the code |
|---|---|
| `Register` | the head of the loop: stop, or a new context registered under `mutex_` |
| `Accepted`, `Refused`, `Breaks`, `CancelledEnds` | the call and what `Finish` returns |
| `ReadGood`, `ReadJunk`, `ReadGap`, `ReadForeign` | one `Read` and what is done with it |
| `EndedByStop`, `EndedForGood`, `EndedTaken`, `EndedOtherwise` | the judgement of the status |
| `WaitToRetry` | `wait_to_retry`, whether the delay passes or `stop` wakes it |
| `OnFatalStops`, `OnFatalKills`, `HangsUp` | `fail`, with an `on_fatal` that calls `stop`, or raises SIGTERM as engine_node's does |
| `Start`, `Signal`, `StopFeed`, `Join`, `StopWorker` | engine_node's main and its guards |
| `Order`, `SeatReleased`, `RivalComes`, `RivalLeaves`, `Misnumbers`, `Restarts` | the sequencer (another program) as the feed must expect it |

A command is one of three kinds: good, junk (its body does not decode) or foreign
(its symbol is on another worker). `mistaken`, `refusals` and `faults` only record what
the sequencer did. `log`, `first`, `seat` and `sending` are the sequencer's. The seat of a
stream that is gone is "stale" until the sequencer notices, which is what the retries
are for.

### How `ExchangeServer` corresponds to the code

`submit` is three steps of a producer (`Sequence`: `running_`, the route and the number;
`Stamp`: the clock; `Queue`: the push), so two producers may take numbers and times in
one order and queue in another. `running_` is read in the same step as the number is
taken: what happens between the two is a shutdown in the middle of a submit, and
`IntakeStopped`, the guard of `ShutdownBegins`, is how the code rules it out: main ends
its input loop before the guard's destructor runs, and the tests join their
producers. A worker takes an item (`WorkerTakes`, with the clock rule `CallTime`) and pushes
its outputs one by one (`WorkerPushes`); main stops and joins one worker after the
other, then sends the publisher its pill and joins it.

One thing seen here that no run is about: `main.cpp` prints "order #n" from a counter of
its own (`next_order`, lines 119, 181 and 229), while the worker gives the order the
item's `seq` (`worker.cpp:64` and `:87`), which cancels and modifies use up as well. After the
first of those the printed ids are behind the engine's, and the id to cancel is
the one in the printed reply or event. The comments differ too: "The gateway assigns
every id" (`main.cpp:117`), "the engine assigns ids" (`worker.cpp:64`).

### How `Publisher` and `EngineFeed` correspond to the code

A step is what one thread does under one lock, or between two locks; all threads
interleave freely.

| Thread | Steps | In the code |
|---|---|---|
| a worker | `WorkerTakes`, then one `WorkerPushes` per output | `Worker::run`: `inbox_.pop()` and the book's call, `publish` and `reply`; other workers push between two outputs of one command |
| the publisher | `PublisherPops`, `PublisherRoutes`, `PublisherDrops` | `run`: `outbox_.pop()`; `route` pushes to every queue concerned, then drops the ones that were full; `Close` on `OutboxClosed` |
| a stream's handler | `Subscribe` or `SubscribeReplies`, `RequestSnapshot`, then the loop `CheckCancelled`, `NextFor`, `CheckEnded`, `Write`, `WriteFails`, and `LeaveStream` | the registration under `mutex_`; the requests after it; `pump`, with a step for each of its reads; `~Leave` |
| main | `FeedsStop`, `StopWorker` per worker, `CloseOutbox`, `StopServer`, `GraceOver`, `ServerStopped` | the signal; `ShutdownInOrder`: `stop` and join of each worker, the `OutboxClosed` pill, the join of the publisher, `EngineFeedServer::stop` |
| environment | `FeedSubmits`, `Write` (the client takes an item), `ClientLeaves` | the feeds; gRPC and its clients |

`route` holds `mutex_` from its first push to its last drop, while handlers pop
under each subscription's own lock. So the pushes of one output are one step,
`too_slow` keeps the subscribers still to be dropped, and while it is not empty
no operation that needs `mutex_` may run (`Unlocked`), but `NextFor` may. A handler is
one process per stream (`Streams` are the calls that may be made in a behaviour),
and `pc` is the place in its code. `pc` "empty" is the gap between `next_for` giving
nothing and `sub.ended()`.

An event is its symbol and number, a snapshot its symbol, the number of the last
event in it and the subscriber it is for; books and their contents are in `Book`.
`as_of` is the sequence number of each book. `subscription` maps an id to the
`Subscription` object, which outlives its entry in `subscribers`, as the handler's
`shared_ptr` makes it do. `next_for` may return nothing at any time its queue is
empty: the wait and the timeout need no clock. `routing` keeps `OutboxClosed` after
the close, because `run` has returned. The checks of a request that need no lock are
made in the step that takes it; their outcome depends on the request alone.

Left out: statistics, the tap, logging, protobuf messages and status texts,
`start` and the port, exceptions of setup.

### Bounds

`MaxCommands` bounds the commands that feeds hand over and `MaxEvents` the events of
one; `Streams` the calls of clients. `MaxLog` bounds the commands of a partition, `MaxFaults`
the faults of the sequencer in a behaviour; `MaxRequests` the commands submitted to the
router and `MaxTime` the clock. `PoolCapacity` is the code's own bound.

`MaxPriority` bounds how often a stop goes to the back of the queue; it is a
guard of `place_stop_order` and of the modify that loses its place. Everything
else is bounded by the finite sets of calls the constants give. The proofs do
not use any bound: `NewOrders`, `NewStops`, `Targets`, `Times` and the rest may be
any sets of the right type, and `MaxPriority`, `MaxLog`, `MaxFaults`, `MaxRequests` and `MaxTime` any
numbers.

## Runs

Every run of the book uses two owners, and the sets of calls defined in `MCBook`. All calls
of a set may come at any time, again and again, in any order.

| Run | Question | Instance |
|---|---|---|
| `book_matching` | Do the parts of the book agree, are quantities conserved, answers true, places kept, and is the book never crossed when no band bites? | 3 ids, prices 3 and 4, quantities 1 and 2, market orders with a collar of 10 %, invalid prices, all cancels and modifies by either owner, 2 nodes; symmetric in ids and owners |
| `book_halts` | Does the inductive invariant hold when the band breaches, halts and resumes; does a halted book trade; does a remainder pulled back to the edge of the band cross what is left? | band of 25 %: the reference 4 gives [3, 5], 8 gives [6, 10]; times 0, 1, 2 with grace and halt of 1 |
| `book_stops` | Are stops neither lost, nor missed, nor fired out of order, also when a halt sends them back; is a re-entry ever refused; does every call return? | 7 ids: 5 orders on three of them, 5 stops on four, whose fills wake each other; stop cancels and modifies; no grace period; with fairness |
| `book_links` | Do the linked nodes implement the queues; does the code's audit always pass? | 4 ids, 3 nodes: three orders in one level, or in two levels of a side and one of the other; a fourth finds the pool empty |
| `book_crossed` | Is the book ever crossed? Yes: see below. | 5 orders, 25 % band |
| `book_two_breaches` | May one sweep trade at two out-of-band levels? Yes: see below. | 6 orders, 25 % band |

The runs of the input side and of the servers:

| Run | Question | Instance |
|---|---|---|
| `feed_resume` | Do resumed and fresh streams get each event once and in order; is the window right; does a slow or leaving stream cost others anything? | 2 streams of one gateway, so one often finds the other's seat taken and may come back later; requests for a snapshot or for the events from 1, 2, 3 or 4; 3 events; a queue of 1 item and a window of 1 event, so that a stream falls behind, a number is too old, oldest, last, next and ahead |
| `feed_replies` | Do the seats agree, does a late `Leave` free only its own seat, are replies private, in order and complete? | 2 gateways, 2 streams, 2 workers, 2 commands, a queue of 1 item; symmetric |
| `feed_node` | Is the promise kept by all threads together; does shutdown end and lose nothing; do snapshots come, seats get freed, readers catch up? | 2 symbols on 2 workers, one stream of either kind, requests with snapshots of both symbols, replays of both, and one of each kind that is refused |
| `feed_drained` | Has an orderly shutdown sent everything queued? No: see below. | one stream |
| `sequencer_feed` | Is every command handed over once and in order, does the feed fail only for cause, is every command dealt with, does stop always end? | commands 2 and 3 wanted of 3, each of any kind; 2 retries; 3 faults, so a stream may break, resume, break and be refused, or find the past gone |
| `exchange_server` | Is every queued command answered once, does time go back for no book, does the shutdown end? | 2 producers, 2 workers with a symbol each, 3 commands, a clock of 2 values, 0 or 1 event per command |

`NoGap`, `NothingMissed` and `KeepsPromise` look at the whole history of a stream: what
was written, what is in the handler's hand and what is queued. `NoGap` allows a
stream to end anywhere, but never to skip. The queue of one item is the smallest the
constructor allows; with a replay the capacity grows by the events replayed, as in
the code. All refusals of `subscribe` and `subscribe_replies` occur.

In `sequencer_feed` the seat is refused more often than the retries allow, by our own
stale stream or by a rival; a restart makes the wanted command unavailable; and a stop
or signal comes in each phase of the thread. In `exchange_server` two producers reach one
worker with times out of order, and the pill is pushed while both workers still have
commands.

Why the book's runs are enough to see the interesting cases: two orders share a level and
two levels share a side; the pool is smaller than the number of ids; a cascade
wakes stops of both sides together, and again from within a stop's own walk; a
breach comes from above and from below; a halt starts in a call of its own, and
in the middle of a cascade. The last needs a grace period of 0, as in the
repository's own test, because a call has one timestamp: with a longer grace a
clock that a call starts cannot run out within it. All steps of the model occur
in the passing runs.

Every property of a passing run has a mutant in `PROJECT.json`: a definition of a
module that models code, changed as a plausible bug would change it (named after
what goes wrong, as in `Unlink_KeepsLevel`, and marked "Fault" in the module), under
which the property fails.

### What the three violation runs show

- **A crossed book** (`book_crossed`). The band stops a buy either because the
  next ask is above the band or because it is below. The remainder rests at
  `min(limit, upper edge)` in both cases. In the second it rests above the asks
  that stopped it. Shortest case: the last trade was at 4, the band is [3, 5], asks
  rest at 1 and at 2; a buy at 4 trades at 1 (the grace print), may not go on to 2,
  and rests at 4. The comment "can't cross: everything left on the other side is
  past the edge" (`book.cpp:188-190`) does not hold, and `check_invariants` is false.
  That nothing else crosses a book is `CrossedOnlyThere`, checked by `book_halts` and
  proved for every band and all calls (see Proofs).
- **Two breach levels in one sweep** (`book_two_breaches`). README.md:182 allows one
  out-of-band level per order. An in-band fill resets `outside_band_since_`, after
  which the next out-of-band fill is taken for the first of the call. A sweep from
  below the band through it to above it trades at one level on each side.

- **Undelivered items at shutdown** (`feed_drained`). The pump leaves its loop "ended and
  fully drained" (`engine_feed_server.cpp:110`), but it asks `sub.ended()` after
  `next_for` has released the lock. The trace: `next_for` times out with nothing; the
  publisher pushes the snapshot the stream waits for, takes `OutboxClosed` and ends the
  subscription; the pump sees the end and returns UNAVAILABLE. The snapshot stays in
  the queue. It is the last poll before the shutdown that has to fall so, and what is
  lost this way may be replies. `NothingLeftAtClose` shows that all before this point,
  from the inbox to the subscriptions, is drained.

`src/README.md:203` and `:222` still say that a subscriber first gets a `BookSnapshot` and
that there is no replay; the code has `from_seq`, and the modules follow the code.

## Fairness

For the output side `FairSpec` asks weak fairness of each worker, of the publisher's
thread, of each handler and of main: threads that can run do. None of it is asked of
clients: `Write`, the step in which a client takes an item, is not fair, so
`ShutdownEnds` and `SnapshotComes` hold with clients that never read, and `SeatIsFreed`
with all of them gone. Only `CatchesUp` has the premise that clients read
(`ClientsRead`). Feeds and subscribing clients may stop at any time.

For the sequencer's feed `FairSpec` asks that the feed's thread and main run, that a call
is answered and what an open stream has to send arrives, that a cancelled call ends
(`TryCancel`, a promise of gRPC), and that the sequencer notices a stream that is gone.
Nothing is asked of new commands, of faults, or of a rival: one that keeps the seat
makes the feed fail, which `EveryCommandDealtWith` allows.

For the console server `FairSpec` asks that the threads run. Nobody is made to submit or
to quit: `ServerEnds` starts from a shutdown that has begun.

For the book `FairSpec` adds `WF_vars(Step)`: the worker's thread goes on with a call it has
begun. `run()` has no wait inside a call, so this is what the operating system
gives any runnable thread. Nothing is assumed of callers: between calls the book
may stay idle for ever.

## Proofs

`BookProofs` proves, for every value of the constants that satisfies
`ConstantsAssumption` (types, `None` distinct from the values it stands beside,
a band of 1 to 9999 and a collar of 0 to 9999 basis points, as the constructor
demands):

| Theorem | Says |
|---|---|
| `BookInvariant` | `BookInv` holds in every state |
| `TypeCorrect` | every variable keeps its type |
| `LevelsAlwaysAgree` | levels and index agree, no empty level, every resting order is in its level once |
| `NothingLostOrDoubled` | an accepted id is resting, dormant, woken, in flight or finished, and only one of them |
| `OwnersAlwaysAgree` | the recorded owner of an id is the owner of what lives under it |
| `ReentryAlwaysAccepted` | a replacement or a fired stop is never refused |
| `StopKeysAlwaysUnique` | dormant stops have distinct priorities |
| `ReplacementAlwaysHasNode` | a replacement has a free node |

None of these is inductive alone. That a re-entry is not refused needs that the
id in flight is in no other place (`LifeCycle`), that what re-enters was
validated when it came in (`RestingValid`, `StopsValid`, `IncomingValid`), and that no
halt is on (`ReentryReady`), which for a stop is the guard of the drain loop and for
a modify the check before the removal. That keys are unique needs that they lie
between the two counters (`KeysBetweenCounters`). That no path leaves a woken stop
behind needs to know when the queue may hold something (`QueueInCall`). That a
remainder pulled back to the edge of the band rests at a valid price needs that
the reference is the price of a trade and so positive (`ReferenceValid`). `BookInv`
is the conjunction, in four parts: what it says of resting orders, of stops, of
the place of each id, and of the call in progress. `Init` establishes it
(`InitEstablishesInv`), each action preserves each part (one lemma per action; the
frame lemmas `RestingFrame`, `StopsFrame` and `PlacesFrame` handle the parts an action
leaves alone, `PlacesChange` an action that moves one id), and each theorem above is
one of its consequences.

`BookActionProofs` proves from the same invariant what no step and no call of the book may do:

| Theorem | Says |
|---|---|
| `FinalStatesStay` | a filled or cancelled id stays so; no path of a call finishes it again |
| `HaltedBookTradesNot` | a halted book neither trades nor fires a stop |
| `PlacesAreKept` | no order passes another of its level |
| `StopsFireInOrder` | the first of two waiting stops stays first until it is woken or amended |
| `SweepInvariant` | `SweepInv` holds in every state |
| `NoStopIsMissed` | no trade of a call or of its cascade leaves a stop dormant that it reached, unless a halt broke it off |
| `LedgerInvariant` | `LedgerInv` holds in every state |
| `QuantitiesConserved` | what a call accepts under an id it trades, rests or expires, to the last unit |
| `AnswersTellFate` | the quantity an answer to `add_order` reports as not accepted is that of the order's Rejected or Expired event |

Each call and each step is shown to do one of a few things to what the property reads
(`Finishes`, `PlaceKept`, `FiringKept`), and those to be allowed. A final state stays because an
action only finishes what is resting, dormant or in flight, and `LifeCycle` says that is not
finished. That a halted book does not trade adds `WalkUnhalted` to `BookInv` (`HaltInv`): an order
walks only while no halt is on, since entering it ends a halt that is over and the step that
begins one ends the walk. Stops keep their order through the queue because all that are woken
come before all that are dormant, and because a stop that a halt sends back is the last of
the queue and gets a key below every other.

`NoStopMissed` looks at the events of the whole call, but the code wakes stops from the lowest
and the highest price of the last walk only. `SweepInv` closes the gap: while the
book is not halted, a dormant stop that any trade of the call has reached lies in the range of
the walk that is still to be woken (`ReachedAreWoken`). A fill widens the range by its own
price, and a walk ends only when nothing in the range is left to wake, so no such stop is
dormant when the next order enters. Two facts keep it so across calls: a call starts without events
(`CallStartsClean`), and only the entry that begins a call finds a halt, and may end it, so
that no trade lies before it (`HaltedEntryClean`).

`QuantityConserved` and `AnswerTellsFate` speak of the end of a call. `LedgerInv` says what holds
of their sums in the middle of one (`AccountsInv`): what an id was accepted with is what its events
say became of it and what the order in flight has left (`QuantitiesBalance`), and an answer once
given stays true. That needs that nothing of the order is refused before its answer is given
(`NothingToldYet`), and that the cascade behind it fires other ids than its own: the answered
order rests or is finished (`AnsweredIsSettled`), and by `LifeCycle` a fired stop is neither. The sums
are running sums over the events. That the running sums of a log exist and all end with one number
is part of the invariant (`Summed`) and is carried from each log to the next (`SumGrows`), so no
induction over the log is needed. Each step adds one event of the order in flight or an event that no
account counts (`Gains`, `SameAccounts`).

Four more theorems of `BookActionProofs` are about what rests:

| Theorem | Says |
|---|---|
| `BookMovesRestingOrders` | `Book` implements `RestingSpec` |
| `CrossInvariant` | `CrossInv` holds in every state |
| `OnlyTheBandCrosses` | the one step that may cross an uncrossed book is the rest of a remainder that the band stopped *before* the band |
| `UncrossedOtherwise` | a book in which that never happens is never crossed |

Every step takes one resting order out, reduces one in its place, or leaves all as they were (`Thins`),
but for `SettleRests`, which adds one whose id is in no other place. So only that step can cross a
book. What it needs to know is how the walk ended (`WalkIsOver`): by itself, when nothing left is
crossed; at an own order, and then nothing rests; or at a best level outside the band. "Nothing left is crossed"
follows from "the best level left is not" because a side with a level has a best one. For bids that is a largest price, which
exists because the prices of all levels lie below some number (`LevelsBounded`). A level outside the band is
past the edge at which the remainder rests, or it is before the band (`StoppedBeforeBand`): a buy
stopped at an ask below the lower edge. The second is the case `book_crossed` shows, and
`UncrossedOtherwise` has its absence as the only hypothesis.

`EngineFeedProofs` proves, from `PublisherAssumption` and `EngineFeedAssumption` (types
of the requests, `None` is no gateway), for any number of workers, streams,
gateways, symbols and any capacity and window:

| Theorem | Says |
|---|---|
| `SeatsInvariant` | `SeatsInv` holds in every state |
| `SeatsAlwaysAgree` | registry, seats and ends of subscriptions agree after every step |
| `LeaveAlwaysFreesOwnSeat` | a handler that is done has freed its seat, and ended no other stream |

`SeatsInv` adds to the two properties that ids are given in order and only given ids
are in the registry (`RegistryOK`), and that a handler that has not subscribed
has no id and every other one only an id already given (`StreamsOK`): without these a new subscriber
could take over the id of an old stream. Each operation of the publisher either
keeps all ends, or ends some with another reason than Unsubscribed (`Quiet`), or is the
`unsubscribe` of a handler that is leaving; `StreamsKeep` and `LeaveStreamKeeps` are the
two cases.

`EngineFeedOrderProofs` follows the events on the same assumptions (and that `None` is no
event):

| Theorem | Says |
|---|---|
| `OrderInvariant` | `OrderInv` holds in every state |
| `WindowIsLastEvents` | the window of a symbol is its last events, without a gap |
| `CloseLeavesNothing` | when the publisher's thread ends, every accepted command has been executed and routed |

The window is only as good as the way to it: the events of a symbol go through the hand of
its worker, an outbox that all workers share, and the hand of the publisher. `OrderInv`
cuts their numbers in three (`TakenOut(s) <= PutOut(s) <= as_of[s]`): up to `TakenOut` they have
left the outbox, up to `PutOut` the outbox holds each of them, in order (`OutboxInOrder`), and the
rest are in the worker's hand, in order (`PushingInOrder`). One event then moves from one part to
the next, and what is routed is always the successor of `last_seq` (`RoutingIsNext`). For the
close it adds what may still stand behind the last message of a queue: behind the pill of a
worker only requests for snapshots (`PillIsLast`), and behind `OutboxClosed` nothing, because by
then every worker has returned with empty hands (`ClosedIsLast`).

`EngineFeedStreamProofs` goes on to the clients, on the same assumptions. `PublisherAssumption`
has for it that the symbols are finitely many, as the map of a request and the registry of
routes are, and that `None` is neither a number nor an item:

| Theorem | Says |
|---|---|
| `WayInvariant` | `WayInv` holds in every state: snapshots and replies keep their place in the line |
| `TypedInvariant`, `TypesHold` | the registry, the queues and the handlers keep their types |
| `ClientInvariant` | `ClientInv` holds in every state: each stream was given what it was promised |
| `NoGapHolds` | what a client has of a symbol is gapless, begins where it asked, and none of it is from before its snapshot |
| `NothingMissedHolds` | while a stream is served, what it was sent, has in hand and has queued ends with the last event routed |
| `RepliesPrivateHolds` | a replies stream has replies of its own gateway only, each one once and in order |
| `RepliesCompleteHolds` | between the replies a served stream has, none of its gateway is missing |
| `FeedKeepsPromise` | `EngineFeed` implements `FeedView` |

A stream is judged by the whole of what it is given (`Given`: sent, in hand, queued), so that the
loop of its handler changes nothing of it and only `route`, `Subscribe` and leaving do. A route appends at most one item to each queue. That the item fits needs
three things of the line in front of the publisher. An event is the successor of the window's
last, which `OrderInv` has. A snapshot, when its turn comes, is exactly as old as the window
(`SnapshotIsNext`): the request waits in the inbox of the worker that owns the symbol, the worker
takes it with an empty hand, and in the outbox it stands between the events it contains and the
ones it does not (`SnapshotsPlaced`). A reply is later than all of its symbol that went before and
earlier than all still to come: along hand of the publisher, outbox, hand of the worker and inbox
each number stands once and they rise (`RepliesOrdered`), and if a command is on its way so are
all later ones of the symbol (`RepliesTogether`). `StreamsInv` is the promise itself: `MarketOK` and
`RepliesOK` for a stream in any state, also after it was dropped, and `Follows` and `HasLater` while it is
served, when a symbol that is live has everything up to `last_seq`. The properties about
streams are consequences of the three.

`FeedView` sees what was sent only. Its step needs that a written item extends what the client
has by the next number, which is `Gapless` of the longer `Given` cut off after the item, and that nothing is shown
that the book has not yet made, which is `last_seq <= as_of` from `OutboxInOrder`.

The replay of a subscription comes out of the window in an order, as long as there are elements wanted. `Replay` is the one
sequence that has the wanted elements in that order. That there is one (`ListExists`) is an induction over a finite set, which can be
had without a theorem that takes an operator: a minimal counterexample exists because
strict inclusion of finite sets is well founded (`FS_StrictSubsetOrderingWellFounded`, `WFMin`).

`BookLevelsProofs` proves, from `BookLevelsAssumption` (the types of the orders), for a pool of any
size:

| Theorem | Says |
|---|---|
| `LinksInvariant` | `LinksInv` holds in every state |
| `LinksAlwaysAgree` | links lead back, levels and index have their nodes, free nodes lead only to free nodes |
| `WalksInvariant` | `WalksInv` holds in every state: every walk ends, and the walk of a level or of the free list meets just its nodes |
| `AuditNeverFails` | the code's audit `check_invariants` is true in every state: totals, counts and links of every level, and as many orders in the levels as in the index |
| `QueuesKept` | `BookLevels` implements `RestingSpec`: the nodes of a level, walked from its head, are the queue |

`LinksAgree` is not inductive. Two nodes could point at each other beside their queue
and agree in every link; taking the last node of the queue proper would then erase a
level that still has nodes. So `LinksInv` adds that the nodes of a level can be numbered from
its head to its tail along `next` (`QueuesOrdered`), which leaves no loop and no node apart;
the number a new node gets is larger than all before, and a node that leaves takes
its own away. And a free list that met itself would give the same node out twice
(`FreeListOK`). Joining (`Joined`) and leaving (`Left`) are stated once as facts about the links
and each part of the invariant is proved from these.

The audit and the refinement walk the links (`Walk`, a recursive function). What such a function
is cannot be had by the library's induction theorems, which take an operator. Here induction is
stated over a set of numbers (`Induction`), which follows from the least number of a set and that from the
well-foundedness of `<` (`NatLessThanWellFounded`, `WFMin`). With it a walk is unique: a sequence that
starts at the head, follows `next` and ends where `next` is `Null` is the walk (`IsWalk`). `WalksInv` says that each
level and the free list has such a sequence and that it has just the nodes it should. `Init` has the
walk of the free list, and each step makes the new walks from the old ones: a
rest appends a node to one and takes the first of the other, a removal cuts a node out of one and puts it
in front of the other, a reduction leaves both. From there:

- the sum over a level (`Total`) changes by the quantity of the node that joins, leaves or shrinks, and so
  does `total_quantity`;
- `order_count` is the number of a level's nodes, and the counts of all levels add up to the number of
  nodes in levels (`CountsAddUp`, an induction over the levels), which is that of the ids in the index;
- mapped to `resting`, `levels` and the number of free nodes, each step is a `Rest`, a `remove_resting`
  or a `Reduce` of `RestingOrders`, in particular with the same place in the queue.

`SequencerFeedProofs` proves, from `SequencerFeedAssumption`, for any number of retries,
commands and faults:

| Theorem | Says |
|---|---|
| `FeedInvariant` | `FeedInv` holds in every state |
| `NeverFailsWithoutCause` | the feed fails only for a cause the sequencer gave |
| `FeedKeepsOrder` | `SequencerFeed` implements `Delivery` |

The feed judges an answer some time after it was given, when the sequencer has moved
on. That the judgement is still right is `AnswersHold`: the past is never served again, a
partition stays unknown, and a refusal already counts. `PhasesAgree` says where main and
the feed may be together; that no command reaches a stopped worker follows from it,
because main is past the join by then.

`ExchangeServerProofs` proves, from `ExchangeServerAssumption`, for any number of producers, workers,
symbols and commands:

| Theorem | Says |
|---|---|
| `ClockInvariant` | `ClockInv` holds in every state |
| `ClockNeverGoesBack` | no book gets an earlier time than before |
| `AnswersInvariant` | `AnswersInv` holds in every state |
| `EveryCommandAnsweredOnce` | a queued command is answered once, events are printed without a gap, none is missing at the end |

A book's time is at most its worker's (`ClockInv`); this needs that
commands of one symbol are only ever in the inbox of the same worker. That a command is
answered once needs to know where its number is: in one of the inboxes, the hands of the workers, the
outbox and what is printed, and there once (`InOnePlace`); a producer's next number is in none of
them (`SubmissionsNew`). Each step of a thread moves one number from one place to the next
(`NumberMoves`), brings one in (`NumberComes`) or moves none. The events of a symbol are cut in three along
the same way (`EventsInLine`). That none is missing at the end needs that nothing is
queued behind a pill (`PillsLast`), which is where main's order of stopping comes in
(`ShutdownInOrder`): the producers before the workers, each worker joined before the publisher's pill.

Only model-checked, and why:

- Liveness (`CallReturns`, `ShutdownEnds`, `SnapshotComes`, `SeatIsFreed`, `CatchesUp`, `StopEnds`,
  `EveryCommandDealtWith`, `ServerEnds`): fairness and ENABLED are outside of what the provers do.
- The statements of the three violation runs, which do not hold. `NeverCrossed` is one of
  them; `UncrossedOtherwise` proves it where it does hold.

## Not modelled, and why

- **Codecs** (`codec.cpp`, `feed_codec.cpp`): stateless conversions between messages and structs,
  field by field, with tests of their own. That a body may not decode is in `SequencerFeed`.
- **`BookReplica`**: test code, a reader's copy of the book. What a reader gets to build
  one from is `NoGap` and `KeepsPromise`.
- **Parsing and printing** of the console (`cli/console.cpp`, most of `main.cpp`), configuration
  files, command lines, logging, statistics and the tap: they change nothing the
  engine reads.
- **gRPC and the sequencer**: external. Streams may break, a cancelled call ends, a
  server's shutdown cancels what is open after the grace period; the sequencer does
  what `SequencerFeed` lets it.
- **Integer width**: the products of the band (`book_levels.cpp:60`) and the totals of a level
  (`book_levels.cpp:51`) are unbounded here; nothing in the code bounds prices or quantities
  either. Prices near 2^63 / 20000 are outside the model.
- **The age of the out-of-band clock** (`book.cpp:141`): it outlives the call that started it. No
  document says how old it may be, so no property does.
- **Setup**: ports, exceptions while starting, `add_book` and `add_symbol` before start.
