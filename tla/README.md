# TLA+ verification of the HFT engine

The engine (Go, about 3000 lines) takes orders over FIX and over an HTTP API for
algorithmic orders, matches them in one order book per symbol, and publishes the
trades to a Redis stream. This directory holds its TLA+ model: one module per
component, `MC*` modules and `.cfg` files for TLC, and `*Proofs` modules for the
TLA+ proof system. `PROJECT.json` lists components, runs, what each definition
translates (`map`), the mutants that show that each property can fail, the hazards
and the theorems.

Run everything from this directory:

    tlc -workers 2 -config MCOrderBook.cfg MCOrderBook     # any run
    tlapm OrderBookProofs.tla                              # any proof

## 1. The system

| Component | Source | State | Operations | Status |
|---|---|---|---|---|
| Order | `model/order.go` | `filledQty`, `status`, two atomics | `TryFill`, `TryCancel` by any goroutine | modelled, proved |
| Order book | `engine/orderbook.go` | per side a map of levels, a heap of levels, a queue per level; `orderMap`; one mutex | `Submit`, `Cancel`, `BestBid`, `BestAsk`, `Depth` | modelled, proved |
| Algorithmic engine | `algo/engine.go` | parents, children, `childToParent`, a heap of due children, one mutex | `SubmitParent`, `CancelParent`, scheduler, one goroutine per child, `Stop` | modelled, proved |
| Direct execution client | `algo/client.go` | none | `SendOrder`, `CancelOrder` | in `AlgoEngine` |
| Trade publisher | `transport/publisher.go` | the batch; the Redis stream | publish loop, flush, retries | modelled, proved |
| Shutdown | `main.go` | contexts and channels | the order in which parts are stopped | modelled, proved |
| Ring buffer | `model/ringbuffer.go` | slots, `head`, `tail`, `count` | `Push` by many, `Pop` by one | modelled, proved |
| Matching engine | `engine/matching.go` | map of books with its mutex, ID counter | `SubmitOrder`, `CancelOrder`, `Stop` | modelled, proved |
| FIX session | `gateway/fix/session.go` | log-on, `seqOut`, `clOrdIDMap`, out channel | one handler per message | modelled, proved |
| FIX gateway | `gateway/fix/gateway.go` | session table, connections | accept, read, write, heartbeat monitor, reports, `Stop` | modelled, proved |
| FIX codec | `gateway/fix/message.go` | none | framing, parsing, building | framing and parsing modelled, proved |
| TWAP slicing | `algo/twap.go` | none (one shared random source) | `Validate`, `GenerateSlices` | modelled, proved |
| HTTP API | `algo/http.go` | none | decodes requests, calls the algorithmic engine | checks and defaults of a submission modelled |
| Lock-free queue | `model/lockfree.go` | slots, `head`, `tail` | `Enqueue`, `Dequeue`, `Len`; unused | not modelled |

How they interact:

- A FIX connection's goroutine, and every `executeChild` goroutine, calls
  `MatchingEngine.SubmitOrder`, which pushes the order to the ring buffer, finds the
  symbol's book and calls `OrderBook.Submit`. The book's mutex is held across the
  whole match and across the sends of its trades on the trade channel, which is
  shared by all books and bounded (65536).
- The publisher is the only receiver of that channel. It batches trades and writes
  each batch to Redis in one pipeline, with three retries of the whole batch.
- The algorithmic engine sends child orders through the direct client, reads
  `FilledQty` and status of the order afterwards, outside the book's mutex, and
  cancels children with its own mutex held.
- `main` stops the publisher first, then the HTTP API, the algorithmic engine and the
  gateway, and closes the trade channel last.

What is hard: the two atomics of an order; four indexes of the resting orders that
must agree after every mixture of fills and cancels; a send on a bounded channel under
a mutex; a child that is sent, failed, retried, filled and cancelled by three
goroutines at once; retries of a pipeline that is not atomic; the shutdown; the
session table of the gateway, through which one goroutine sends on the channels of
others; a book that is used after the lock of the map of books was released. `PROJECT.json` lists each hazard at its line.

What makes each component correct:

- **Order**: no overfill, no quantity lost, `Filled` never too early, nothing filled
  after a cancellation; under the book's mutex, an atomic order.
- **Order book**: the indexes agree, active orders and no others rest, never crossed,
  price-time priority, limits kept, trades add up; a matching loop that ends.
- **Algorithmic engine**: no child sent twice, none forgotten, none waiting after a
  cancellation; fills credited once, to the right parent; `Stop` returns.
- **Publisher**: every trade that was read is published or logged as lost, in order but for
  repetitions and commands that Redis refused.
- **Shutdown**: it ends; nobody sends on a closed channel.
- **Matching engine**: one book for a symbol and one order for an ID, so that a cancel
  finds the order it names.
- **Ring buffer**: first in, first out for one producer; no item twice for many.
- **Gateway and session**: one session per client ID in the table, nothing sent on a
  closed channel, sequence numbers that rise and account for every message, answers that
  agree with the order, a stop that does not depend on the clients.
- **FIX codec**: a message is decoded as it was sent, whatever came before it; numbers are
  read exactly where 64 bits hold them.
- **TWAP**: slices add up to the parent, each at least one unit and due, in order, inside
  the window.

## 2. Modules

| Module | What it is |
|---|---|
| `Order` | `TryFill` and `TryCancel`, one access to an atomic per step. `SerialSpec`: the calls one at a time, as under the book's mutex |
| `AtomicOrder` | abstract: fill and cancel in one step each. `Order` implements it under the mutex (`SerialIsAtomic`, proved) |
| `OrderBook` | the book: `Submit` as the loops over levels and makers, the trades sent one by one with the mutex held, `Cancel`, the publisher as `Receive` |
| `PriceTime`, `AtomicBook` | abstract: each resting order's price-time share, without a loop; a book whose `Submit` is one step. `OrderBook` implements it (`BookIsAtomic`, proved) |
| `AlgoEngine` | the algorithmic engine over an abstract exchange |
| `Publisher` | publish loop, flush and retries over a Redis that fails; its actions are part of `Shutdown`'s `Next` |
| `Shutdown` | extends `Publisher` to the program: the goroutines that send trades, and `main` |
| `MatchingEngine` | `SubmitOrder` by several goroutines, `CancelOrder`, `Stop` over the map of books |
| `RingBuffer` | `Push` and `Pop` |
| `Gateway` | connections, their writers, sessions, the accept loop, the heartbeat monitor and `Stop` |
| `FixStream` | how messages are found in the bytes of a connection |
| `ParseInt` | how a number is read, at any width |
| `Twap` | from a request to the slices of a parent order |
| `OrderProofs`, `OrderBookProofs`, `AlgoEngineProofs`, `ShutdownProofs`, `MatchingEngineProofs`, `GatewayProofs`, `SequentialProofs` | the theorems; those of `ShutdownProofs` are about the publisher too, `MatchingEngineProofs` also has the ring buffer's, and `SequentialProofs` those of `Twap`, `FixStream` and `ParseInt` |
| `SumTheorems` | what the proofs need of sums over finite sets |
| `MC...` | instances for TLC |

How state and actions correspond to the code:

- **Order.** `filled` and `status` are the two atomics; `pc`, and what each call loaded
  and claimed, are the locals of the goroutines. Each load, compare-and-swap and store is
  an action (`LoadStatus`, `LoadFilled`, `CasFilled`, `ReloadStatus`, `CasStatus`,
  `Rollback`, `CancelLoad`, `CancelCas`).
- **OrderBook.** A side's heap is the set of its prices, the best one its extreme;
  a level is the sequence of its orders. `Submit` runs in steps because the code loops
  (`NextLevel`, `VisitMaker`, `LeaveLevel`, `FinishMatch`) and blocks (`SendTrade`); `pc`
  other than `"unlocked"` means that the mutex is held, so cancels and other submissions
  wait. `Cancel` is one step: `CancelUnknown` for what `orderMap` does not have and
  `CancelKnown` for the rest. `TryFill` and `TryCancel` are the atomic order here, which is
  what `SerialIsAtomic` justifies.
- **AlgoEngine.** `parent` and `child` are the atomics of the two structures; `scheduler`,
  `executor` and `canceller` are the places and locals of the goroutines. What runs
  under `ae.mu` without touching an atomic is one step; `CancelParent` holds `mu` across
  its steps. The exchange is abstract: on arrival an order is filled by any amount, later
  fills claim quantity first and set the status afterwards (as `TryFill` does), a cancel
  waits for the book. Time is left out: any child in the heap may be due. The paused
  status is left out because nothing sets it.
- **Publisher.** `at` is the place in `publishLoop`; `WritePart` is the fault: some of a
  pipeline's commands are executed (a prefix when the connection breaks, any part when
  Redis refuses commands one by one), after which the client repeats the pipeline
  (`ClientRetries`) or reports the error (`PipelineFails`). `refused` remembers that a part was
  no prefix. A cancelled context refuses the connection (`Connect`). `Add` is XADD with `MaxLen` and
  `Approx`: with every pipeline Redis may remove oldest entries, any number of them, but leaves
  `MaxLen`. `stream` has all entries that were ever added and `trimmed` counts those removed again,
  so that a consumer that keeps up reads `stream` and one that comes late finds `Remaining`. The
  trimming of the commands of one pipeline is one choice, since nothing looks at the stream in
  between.
- **Shutdown.** `main` goes from place to place in the order of `main.go`; a sender is a
  goroutine inside `Submit` or outside. The HTTP API's stop has a time limit of its own
  and is one step.
- **MatchingEngine.** `caller` is the place and locals of a `SubmitOrder`; `TakeID` is the
  atomic addition, `GetOrCreateOrderBook` one step because it holds `me.mu`,
  `SubmitToBook` another because the map was let go of. `orderBooks` holds the number of a
  symbol's book, so that two books of one symbol, or a book that `Stop` took from the map
  and that a goroutine still holds, are told apart. A book is the set of the orders that
  rest in it. `CancelOrder` looks up, `CancelInBook` cancels.
- **RingBuffer.** One access per step; `pushed` and `popped` are histories. Slots are read
  and written without synchronisation; all items have one Go type, so a torn read is
  no more than nil, which the interleaving has. The matching engine never looks at what
  `Push` and `Pop` answer, so the two modules are run side by side and not composed.
- **Gateway.** `conn` is the place and locals of each `handleConnection`, `writer` whether its
  writer still writes, `outCh` its channel, `session` the sessions it made (one more each
  time the SenderCompID changes, all on the same channel), `sessions` the table, as a set of
  sessions with different IDs. What `sessionMu` guards is a step (`Register`, `Delete`), which waits
  while the monitor walks the table. Every message goes through `TakeNumber` (the atomic
  addition on `seqOut`) and `Enqueue` (the send that drops), so that the connection and the
  monitor can come between. `SubmitOrder` is `onOrder` up to the report, `ReadReport` reads
  status and quantity one after the other, `Claim` and `Settle` are what another order does
  to one that rests. A send on a closed channel is `panicked`, after which nothing happens.
  The look at the context at the head of the loop is part of the step before it.
- **FixStream.** The reader always stops at the end of a field, so the buffer is a sequence of
  fields, and a field is a class: what `LastIndex("10=")` and `Index("8=")` find in it. `Parse` is
  the map of fields, from their places instead of their tags.
- **ParseInt.** One character per step; any other character is a tenth digit. `Limit` stands for
  2^63: the words have `2 * Limit` values, and the proof needs no more of it.
- **Twap.** One action for each of the handler, the defaults and checks of `SubmitParent`, the
  count of slices, one pass of the loop, and the correction after the loop. A slice is kept as
  the quantity allocated before and after it, so its quantity is a difference and the
  sum needs no recursion. Times are integers, a perturbation a percentage.

## 3. Runs

| Run | Instance | Shows |
|---|---|---|
| `order` | 2 fillers, 2 cancellers, 4 units, fills of 0, 1, 3, 4, 5, fair | conservation, settlement, `Filled` is full, cancel is final, every call returns |
| `book` | 4 orders, 2 prices, up to 2 units, channel of 1 | types, and the indexes, the open interest, the tape, limits and priority |
| `book_live` | 3 orders, fair | `Submit` lets go of the mutex; refines `AtomicBook` |
| `algo` | 2 parents of 1 child, 2 units | credited fills add up, completed means executed |
| `algo_live` | 1 parent, 2 children of 1 unit, 1 failed send, fair | no child sent twice, none waits after a cancel; every child is sent or cancelled; `Stop` returns |
| `algo_abort` (violation) | 1 child | a child that `CancelParent` read as `Pending` is sent before it is marked: it counts as aborted, and its order rests |
| `algo_mixed` (violation) | 2 parents | one parent's fill completes another |
| `shutdown` | 2 senders, 4 trades, channel and batches of 2, 1 retry, 3 faults, a stream that keeps 2 entries, fair | every trade that was read accounted for, its copies bounded, the stream in order; full batches leave; no send on a closed channel; hangs only on a full one |
| `shutdown_hang` (violation) | 2 senders, 1 fault | the shutdown may hang |
| `matching` | 3 goroutines, 4 orders, 2 symbols, a canceller, `Stop`; ring buffer of 2 slots, 5 items | one book for a symbol, one order for an ID, cancels find their order; types and counters of the ring buffer agree, first in, first out without overlap, no item twice |
| `gateway` | 2 connections, 2 SenderCompIDs, 4 messages, 1 order of 1 unit, out channel of 1, 1 fault, fair | the table has one session for an ID; no send on a closed channel without a change of ID; sequence numbers; answers; `Stop` returns |
| `sequential` | requests over 4 quantities, windows up to 61, 2 to 4 slices; 2 messages of up to 4 fields; 4 characters at 8 bits | slices cover the parent; messages decoded as sent; numbers exact |

Why the bounds are enough. Two fillers and two cancellers give every pair of calls a
third to interfere, with sizes that fit, fill up and exceed; each may call again and
again. Four orders make two makers on one level or on two, a taker, and a cancel or a
second taker between; two units make partial fills of maker and taker. A channel of one
fills at once. Two children, or two parents with one, meet in everything the engine
shares. Four trades make two full batches, or one and a rest; three faults exhaust the retries of one batch
and hurt the next. A stream that keeps two entries loses some even without repetitions. Three producers let two overrun a third. Three callers of the
engine are two that race for a first book and one that comes later, with `Stop` before, between
or after. In the gateway, a second connection with the first's SenderCompID replaces and deletes
its entry; three messages on the first are a logon, an order or a change of ID, and a cancel;
an out channel of one is full at once, and one fault lets the monitor or a time-out send
in between, or the writer fail. Slice counts, windows and quantities are chosen on both sides of
every comparison of `GenerateSlices`, with 2 and 4 for its 100 and 10000. Eight bits overflow with
three digits, so that four characters have a sign and every overflow of the last step. Bounds that only keep the state space finite are `MaxFailures` (sends that
fail: `executeChild` handles an error of its `ExecutionClient`, though the direct client, the only
one in the repository, returns none), `MaxFaults` (faults of Redis; in `Gateway` failed writes and time-outs), `MaxTrades`,
`MaxItems`, `MaxOrders`, `Script` (messages of each connection), `MaxFields`, `MaxChecksums` and
`MaxChars`. `MCSequential` and `MCMatchingEngine` each run several modules that share nothing: a
behaviour moves one of them and leaves the others in their initial states, which adds their
state spaces and does not multiply them.

`CHECK_DEADLOCK FALSE` stands where the system may really stop: an algorithmic engine that
is stopped, idle or ended by the runtime; a program that has shut down, or hangs (the property of its run says when); an engine, a ring
buffer or a stream whose bounded calls are made; a gateway that has stopped, or ended with a
panic; a call that has returned.

Fairness. Goroutines that can run do (weak fairness of a call's next step); that is what
the Go scheduler gives. Strong fairness stands where a goroutine waits for something
that comes and goes: a `select` with several ready cases, which Go chooses at random
(`Leave`, `ExitScheduler`), a child that is due again and again (`Pop`), a send on a channel
that gets room again and again (`SendTrade`; waiting senders are queued). `CallsReturn`
needs only weak fairness, since each lost compare-and-swap is another call's success and
the quantity bounds those. In `Gateway` one weak fairness of
all that goroutines do by themselves (`Progress`) is enough, since every one of them has finitely
many steps left once the context is done, and strong fairness of the monitor's exit stands for
its `select`, where a tick may be ready again and again; a read is over after 30 seconds, the
client's silence or a full connection notwithstanding. Nobody has to submit, cancel, trade,
connect, go away, send, receive or stop. A fill that
was begun at the exchange is finished and `SendOrder` answers; that the book's `Submit`
returns is `SubmitReturns` as long as the publisher receives, and `shutdown_hang` is what
becomes of it when the publisher has gone.

## 4. What the disagreements show

Three runs expect a violation:

- `algo_abort`: `CancelParent` loads a child's status (`engine.go:183`) and, when it was `Pending`,
  stores `Cancelled` (185) without comparing. In between, `executeChild` may claim the child (319)
  and send its order (329): the child counts as aborted, and its order stays in the book. The same
  becomes, in a longer behaviour, of a child that is `Sent` and whose `ExternalID` is not stored yet
  (341): `CancelParent` reads zero (188) and cancels no order.
- `algo_mixed`: children are cut before the parent has an ID, so their
  `ParentID` is 0 and their IDs collide with other parents'; `childToParent` then leads to
  the parent submitted last, to which fills are credited and whose cancellation
  cancels other parents' children.
- `shutdown_hang`: the publisher is stopped while others still need it.

Others follow from the models, or were met while reading; no run is kept for them:

- Without the book's mutex, an order that two concurrent `TryFill` fill completely may say
  `Partially`, since the status is written after the claim (`order.go:145`; the invariant
  `FullyFilledIsFilled` fails under `Spec`). `orderbook_race_test.go:115` expects `Filled`. Under the
  mutex it is (`SerialFull`).
- Trades that are in the channel when the publisher stops are neither published nor logged
  (`publisher.go:46`), and the rest of a batch waits for later trades without limit
  (`publisher.go:62`). Nothing in the repository promises otherwise: `EachAccountedFor` speaks of the
  trades that were read, `FullBatchLeaves` of full batches.
- `matchAgainstLevel` passes taker and maker where `NewTrade` takes buyer and seller
  (`orderbook.go:220`), so a trade whose taker sells names the seller as buyer.
- A connection that changes its SenderCompID leaves its first session in the table; when it has
  ended, the heartbeat monitor sends on its closed channel and the program panics. This is the
  one exception that `NoSendOnClosed` makes.
- A session that misses its heartbeats is logged as being disconnected (`gateway.go:273`) and gets
  one more heartbeat; nothing disconnects it (`Overdue` leaves the session where it is).
- `clOrdIDMap` belongs to the session, so that a client that connects again cannot cancel what
  rests from before; a cancel that names a wrong symbol is refused as "order already filled"
  (`CancelElsewhere`).
- `heartBtInt` is written by a logon and read by the monitor without a lock; a logon with an
  interval of 1 or 2 is ignored, because it is taken for a side.
- The checksum of a message is not checked; a field with `10=` in it ends a message early
  (`"110"` in `FixStream`): its first part is handled, and the rest is dropped at its checksum.
- A number too great for 64 bits is not refused: its last bits are traded (`NumbersAreExact`).
- `GenerateSlices` refuses slices that would be empty with the advice to increase `SliceCount`, where
  it would have to be decreased. The correction after its loop is never needed: the last
  slice takes what remains (a step in the proof of `SlicesCover`).

## 5. Proofs

`OrderProofs` (any finite set of goroutines, any positive quantity):

- The inductive invariant is `IInv`: types, `QuantityConserved`, what each goroutine's place
  says of its locals (`ControlInv`), a claim that completes the order is unique
  (`FullClaimInv`), `FilledIsFull`. Conservation alone is not inductive: a rollback is
  sound only because the goroutine's claim is still part of `filled`, and the sum over
  goroutines is therefore counted as the size of a set of claimed units.
- Theorems: `TypeCorrect`, `Conservation`, `NeverFilledEarly`, `CancelAddsUp`, `CancelFinal`
  (an action property), `SerialFull` and `SerialRefines` (for `SerialSpec`: every step is a
  step of `AtomicOrder` or a stutter), `LockFree`.
- `LockFree` is what "lock-free" means of the two retry loops, without fairness: `Potential`, the
  work that the calls in progress have left, is a natural number that every step of a call lowers,
  also one that loses its compare-and-swap, and only a new call raises it. `StepsLeft` of a call
  depends on whether what it loaded is still there; a successful write makes every other
  call start again, so a write weighs `WriteCost`, which covers three steps of every goroutine, and
  a call has two writes at most (`WritesLeft`). A call that never returned would need endlessly many
  new calls; `CallsReturn` adds that the calls in progress do get to run.

`OrderBookProofs` (any finite set of orders, any prices, quantities and channel size):

- The inductive invariant is `IInv`: types; what the matching loop relies on (`CallInv`: the
  taker is the newest order, the level it works on is the best and crosses); what a status
  says of the quantities (`FillInv`); `BookConsistent`; `ActiveRests`; and that the levels
  of the two sides are apart (`Apart`). `BookConsistent` is not inductive by itself: in the
  middle of `matchAgainstLevel` the orders before `skipCount` are gone from `orderMap` and
  still in the queue, which its `Live` says.
- `LimitRespected` needs `TapeInv`: every trade made is between two submitted orders of opposite
  sides, at the maker's price and within the taker's limit. It speaks of the whole tape (published,
  in the channel, and held by the call), so that receiving and sending change nothing, and of
  submitted orders only, whose requests no later `Submit` changes.
- `AccountsAgree` is `FillsMatchTape`, which is inductive relative to `IInv` and `TapeInv` (a trade
  adds its quantity to two sums and to two orders), and the depth of a level, which follows from
  `IInv` alone: the level is the set of its active orders, each once.
- `BookIsAtomic` is proved step by step. The `Submit` that takes the mutex is the abstract `Submit`,
  because the abstract state counts what is still to be matched as filled (`FilledInTheEnd`). Each
  `VisitMaker` keeps that prediction, because the maker met is the first of those that cross in
  price-time order (`MakerIsFirst`, `TotalAfterFill`); `FinishMatch` keeps it, because nothing
  remains or no maker is ahead. `CancelKnown` is the abstract `Cancel`; everything else stutters.
- Theorems: `TypeCorrect`, `IndexesAgree`, `BookHoldsActive`, `NeverCrossed`, `ExposureSafe`,
  `LimitsKept`, `AccountsKept`, `PriorityKept` (an action property), `RefinesAtomicBook`. The lemma
  `MakerFacts` also shows that under the mutex the branch of `matchAgainstLevel` that passes over
  a maker without a trade is never taken.
- `MatchingEnds`: a `Submit` of `q` units is back after `4q + 3` steps of its own. `Work` counts them,
  with the trades still to be sent; a `Submit` that has returned has none of them left (`AllSent`).
  The loops stop because a maker that is met takes at least one unit, not because the
  book is finite; what can make a `Submit` last is a send on a full channel, and nothing else.
- `Keep(s, A)` picks the members of `A` by counting them. `KeepSuffix` says what it does where the
  proofs use it; that it is the loop of the code is what `MCOrderBook` compares with `SelectSeq`
  on all short sequences.

`SumTheorems` (any finite set, any function to the integers): a sum is `SumFunctionOnSet` of the
community modules. `SetFamily` is induction over the finite subsets of a set, stated for a set of
subsets, so that it has no operator as a parameter; from it follow how a sum changes with one
summand, and how it compares with another, with a part of itself and with zero, and how much it
grows when some of the summands grow by a constant (`SumShiftOn`, which the measures of work use).

`AlgoEngineProofs` (any finite set of parents, any number and size of slices, any number of
failed sends):

- The inductive invariant is `IInv`: types; the goroutines know their child and parent
  (`Located`); for each child (`ChildInv`), that it is in the heap, or in the scheduler's hands, or
  has a goroutine, and in neither of the first two once its order was sent, that what it and its
  goroutine have of the fills is what was executed or less, and that its goroutine has a parent;
  what a cancellation has dealt with is settled, with the part of it that is under way (`CancelInv`);
  `CompletedInv`; `FillsAddUp`. "Never sent twice" is not inductive without the place of the child, and
  the cancellation's promise is not without the fact that a child without an order does not say
  `Sent`, from which a failed send would make it pending again.
- Theorems: `TypeCorrect`, `NothingSentTwice`, `CancelledForGood`, `NoFillLost`,
  `CompletedAreExecuted`, `WorkIsBounded`, `NobodyWaits`.
- The last two are what `ChildrenSettle` and `StopReturns` rest on besides fairness. `WorkLeft` adds up
  the steps that each child has before it (in the heap, with the scheduler, in its goroutine), those
  of the scheduler and those for which `ae.mu` stays held; every step of the engine lowers it, and
  only a submission, a cancellation, a tick, a failed send or a fill at the exchange raises it, by an
  amount that `StepBounded` names. `NobodyWaits` says that the engine does not stop half-way: where
  no action of its own has its guard (`NothingToDo`), `ae.mu` is free, no goroutine is left, and
  after `Stop` the loop has ended. `CancelParent` waits for the book with `ae.mu` held; that this is
  not for ever needs `ExternalInv`, that a child with an `ExternalID` has an order.

`ShutdownProofs` (any finite sets of senders, any number of trades, sizes, retries and faults;
`ShutdownEnds` is refuted by `shutdown_hang`, so what is proved is how far it is true):

- The inductive invariant is `IInv`: types; `NumberInv`, that the trades which the loop is over
  with, those in the batch and those in the channel are numbered one after the other; `LoopInv`;
  `StreamInv`; and that what `main` waited for has ended (`WaitInv`). `StreamInv` has the stream's
  properties relative to the trades done: nothing beyond the batch is in it, no entry comes before
  one that is a batch older, it was trimmed only down to `MaxLen`, each trade is repeated once per
  fault at most, and each one done was added or lost. Unless commands were refused one by one, what
  is in it beyond the trades done has everything since them before it (`Gapless`), which a pipeline
  that writes a prefix keeps (`PrefixAdded`), and so does the next attempt that starts the batch
  again. Any part keeps the rest of it (`PartAdded`).
- Theorems: `TypeCorrect`, `TradesAccountedFor`, `StreamInOrder`, `NoneSendsOnClosed`,
  `ShutdownBounded`, `HangIsFullChannel`.
- The last two are what `HangsOnlyWhenFull` rests on besides fairness. `StepsLeft` has what is left of
  the flush with its retries, of the channel (each trade may make a flush necessary), of the
  senders and of `main`: only an order that trades raises it. `HangIsFullChannel` says that
  where no action of the program has its guard any more (`NothingToDo`), everything has ended, or the
  publisher is gone, the channel is full and somebody waits to send on it. It needs `BoundInv`:
  `publishLoop` has not decided to leave while it is at its `select`, and the bound `MaxTrades` counts
  the trades that are on their way, so that no sender is stopped by the bound.

`MatchingEngineProofs` (any finite sets of goroutines and symbols, any number of orders):

- The inductive invariant is `IInv`: types; IDs are the places of the orders and no order is
  from after a `Stop` that has not come (`IDInv`); a goroutine's order is its own and unknown to
  clients until it returns (`OwnInv`), so that no order comes to rest while its cancel is under
  way; the book that a goroutine holds is still the map's, unless `Stop` came between
  (`HeldInv`); and `NamesOneOrder` itself, in `PlaceInv`.
- The ring buffer has its own, `RingInv`: types; the counters and what was pushed and popped
  agree (`CountersInv`); an item is with its producer, or in one slot, or with the consumer, or
  popped (`OncePlacedInv`); and, as long as no two `Push` overlapped, the slots from `head` on hold
  in order what was pushed and not yet popped (`OneAtATimeInv`).
- Theorems: `TypeCorrect`, `OneOrder`; `CountersAgree`, `PopsWhatWasPushed` for the ring buffer.

`GatewayProofs` (any finite sets of connections, SenderCompIDs and messages, any channel size, any
faults):

- The inductive invariant is `IInv`: types, with the fields of each record (`Types`); a goroutine's
  session is the last that its connection made (`PlaceInv`); the table keeps no session of a
  connection that has ended, unless it was renamed (`TableInv`); `NumbersInOrder` itself and
  `NumberInv`, that a number taken and not yet sent is not among those sent, and above them unless
  two goroutines held one at once; and `OrderInv`, that what a report will say is true of its order
  already and that a session finds the orders that rest under the names it gave them.
- Why `Stop` ends: `StopLeft` adds up the steps that every goroutine has left once the context is
  done, those of a connection by its place in `handleConnection` and what is in its out channel,
  the accept loop's (it may accept one connection more), the monitor's walk of the table and the
  fills under way. Every step takes one off, but for two: a tick, which the select may
  prefer to the context and which adds a walk of a table that has one session for each
  SenderCompID at most (`TableSize`), and a fill that begins at the exchange, which adds one. That
  the ticks give way is the strong fairness of `MonitorExit`; the orders' quantities bound the fills.
- Why it is not stuck before: `NothingToDo` says that the guard of every step of the gateway fails, place by
  place. A handler always has a step for what it handles (`RequestInv`, inductive with
  `IInv`), a cancel waits only for a fill under way, and the table is free when the monitor is
  out.
- Theorems: `TypeCorrect`, `SendsOnClosedOnlyRenamed`, `NumbersAccountedFor`, `TruthfulAnswers`,
  `StopIsBounded`, `IdleMeansStopped`.

`SequentialProofs` (`Twap`: any requests, any positive durations and bounds, any draw; `FixStream`:
any number of messages and fields; `ParseInt`: any even modulus, numbers of any length):

- `Twap`: the inductive invariant is `IInv`: types; what the checks and the count leave to the loop
  (`Counted`); the slices so far follow on one another inside the window (`Chained`); what one pass
  of the loop needs (`LoopInv`) and what it ends with (`DoneInv`). That slices are due in order is
  not inductive by itself: two neighbours' jitters may meet, so `LoopInv` bounds the last
  slice by its slot and the jitter range, a tenth of the interval (`JitterSmall`), and the next
  slot is an interval later. `LoopInv` also says that a full count has allocated everything, which
  makes the correction after the loop change nothing.
- `FixStream`: the invariant is `StreamInv`. `ReadFIXMessage` runs after every field, so that a field with
  `10=` in it empties the buffer at once, and the buffer never holds one; as long as the message on
  its way has no such field, the buffer is what has come of it. Then the last `10=` that
  is found is the checksum (`LastArrived`), and nothing is left behind it. What was cut into
  pieces before, and the first parts of a bad message, are not in the buffer any more, which is
  why a bad message hurts no other.
- `ParseInt`: the invariant is `NumberInv`: the result is the value of the digits so far, wrapped into
  the word. A step multiplies and adds, and wrapping may come before or after that (`WrapLinear`,
  which follows from the uniqueness of the wrapped number, `WrapUnique`); the sign comes last.
- Theorems: `SlicesCover`, `StreamDecodes`, `NumbersRead`.

Assumptions are the named ones on the constants (`OrderAssumption`, `OrderBookAssumption`,
`AlgoEngineAssumption`, `PublisherAssumption`, `ShutdownAssumption`, `MatchingEngineAssumption`,
`RingBufferAssumption`, `GatewayAssumption`, `TwapAssumption`, `FixStreamAssumption`,
`ParseIntAssumption`), which TLC evaluates in the runs of their modules; `SumTheorems` has none. The invariants were first checked by TLC. `SerialFull` and
`SerialRefines` speak of `SerialSpec`, which no run instantiates: the theorems cover every instance.
The type invariant of the matching engine is no run's property; `TypeCorrect` proves it.

Model-checked only: liveness (`CallsReturn`, `SubmitReturns`, `ChildrenSettle`, `StopReturns`,
`FullBatchLeaves`, `HangsOnlyWhenFull`, `GatewayStops`), since fairness and `ENABLED` are beyond
the prover. A liveness property usually has three parts: the steps that are left are bounded, the
system does not get stuck before it is done, and whoever can go on does. The third is the
fairness; the first two are safety, and they are proved where a theorem above says so: the first
for `CallsReturn` (`LockFree`) and `SubmitReturns` (`MatchingEnds`), both for `ChildrenSettle`,
`StopReturns` (`WorkIsBounded`, `NobodyWaits`), `GatewayStops` (`StopIsBounded`,
`IdleMeansStopped`) and `HangsOnlyWhenFull` (`ShutdownBounded`, `HangIsFullChannel`). These theorems state measures and not properties of a run; TLC checked them on
the instances before they were proved. The runs that expect a violation have nothing to prove.

## 6. What is left

Done: all components that the program uses, with the abstract specifications of the order
and the book and the proofs that they are implemented; every safety invariant, every action property
and every refinement that a run checks is a theorem.

Worth proving next: the safety parts of `FullBatchLeaves`, that a batch which is full is not
kept.

Not modelled, and not planned:

- the lock-free queue (`model/lockfree.go`): nothing in the repository uses it;
- wording and layout of FIX and JSON messages, the average price of reports, logging: nothing
  depends on them;
- the flags and the start-up of `main`, which one goroutine does before there are others;
- the HTTP handlers other than the submission of a parent: they decode, call and encode;
- the clock: what is due, overdue or timed out is a free choice, which has every
  timing the clock allows and more;
- the results channel of the matching engine, whose receiver drops what it gets
  (`main.go:83`); `resultCh`'s own overflow therefore hurts nobody;
- overflow of products of seconds and counts in a parent's window, and a failing `Accept`.

Go's weak memory effects on variables without synchronisation appear as hazards at their
lines; the models have the interleavings of single accesses.
