# Verification of the price feeder

The price feeder runs beside a validator. It collects prices from exchanges and
posts them to the chain's oracle module once per voting period, by commit and
reveal: each transaction opens the hash of the period before (the *vote*) and
commits to the hash of new prices (the *prevote*).

This directory holds TLA+ models of its parts, the TLC configurations that check
them and TLAPS proofs about the parts the rest depends on. Paths such as
`stream.go` are under `src/feeder/...`; `PROJECT.json` names the source lines
behind every definition.

## Inventory

| part | state | operations | module |
|---|---|---|---|
| price poster (`priceposter/`) | `previousPrevote` (salt, rates) | `SendPrices`: newPrevote, prepareVote, getAccount, BroadcastTx | PricePoster, CommitReveal |
| event stream (`eventstream/stream.go`) | `params`, two channels, stop signal | two loops, `Close` | EventStream, EventRelay, Startup, Daemon |
| feeder (`feeder.go`) | `params`, stop and done | `Run`, loop, handlers, `Close` | EventStream, Startup, Daemon, Rates |
| websocket (`eventstream/websocket.go`) | `connection`, `connectionClosed`, stop signal | loop, `connect`, `close` | Websocket, BlockFeed |
| tick source (`sources/tick_source.go`) | ticker, update channel, stop signal | loop, `Close` | PriceSource |
| price provider (`priceprovider.go`) | `lastPrices` | loop, `GetPrice`, `Close` | PriceSource, PriceStore, Configuration |
| aggregate provider (`aggregateprovider.go`) | none but a counter | `GetPrice`, consolidation, `Close` | AggregateProvider, Consolidation, Daemon |
| ten fetchers (`sources/*.go`) | none | a `FetchPricesFunc` each | Sources |
| configuration (`config.go`) | the global map of exchanges and symbols | `Get`, `MustGet`, `Validate` | Configuration |
| keyring (`keyring.go`) | one key | `GetAuth`, `KeyByAddress`, `SignByAddress` | Configuration |
| command line (`cmd/root.go`) | none | wiring, interrupt, exit | Configuration, Startup, Daemon |
| types, metrics, mocks, SDK set-up | stateless | | see "Not modelled" |

How they interact:

- the **node** pushes blocks over the websocket; the websocket's loop hands each
  message to `votingPeriodStartedLoop` over a channel without a buffer, and is
  closed by it when that loop exits;
- `votingPeriodStartedLoop` reads the parameters that `paramsLoop` swaps into an
  atomic pointer, and hands voting periods to the feeder over a channel without a
  buffer; `paramsLoop` hands new parameters over a channel with one place;
- the feeder's loop is the only reader of both. It handles a period by calling
  `GetPrice` on the aggregate provider for each pair, and then `SendPrices`;
- each exchange has a tick source goroutine that sends updates, over a channel
  without a buffer, to the goroutine of its price provider;
- `SendPrices` queries and broadcasts to the node, while the chain moves on;
- an interrupt closes the feeder, which closes the stream, the poster and the
  providers one after the other, waiting for each.

What is hard about it is where these meet: a swap before a send; a query compared
two calls before it is relied on; a broadcast of which nobody knows whether it
arrived; loops that wait for each other's channels while one of them stops; prices
that expire while somebody ranges over them; timeouts that have to fit each other.
`PROJECT.json` lists these hazards at their lines with the properties aimed at them.

What makes each part correct:

- poster: nothing is revealed before it is committed; the vote matches the slot;
  no failure stops voting for good;
- stream and feeder: no parameter update is lost, every signal is handed over
  once, everything stops when told to;
- websocket: no block comes twice or early over reconnections, none is lost between
  them, and close ends the loop;
- stream on websocket: each voting period is handled, once and in order, however slow
  the feeder is;
- sources and providers: valid prices are lost only by age, and not while the
  exchange answers; Close returns;
- aggregate: the result lies among the prices seen, does not depend on a minority of
  them, and on the order of the providers only where rounding has to decide;
- fetchers: a price handed on is a price quoted, and a bad ticker stays local;
- rates: a rate lies between the prices it comes from, cut to 18 decimals, and only a
  price that is no finite number or too large for the chain ends the process;
- configuration: a pair is priced by the symbol given for it, the last one given.

## The models

**PricePoster** composes `Client.SendPrices` with the chain. `pc` walks through the
calls (`prepareVote` only when there is a previous prevote, `account`, `broadcast`);
each call is an action with its failures, and the chain may move between any two. The
chain is external: one slot per validator (`aggregatePrevote`), a committed account
sequence, a mempool that checks the sequence, and transactions that run all or nothing.
`Faults` chooses the failures: a failed call, an ambiguous broadcast, a transaction the
node refuses although its sequence is right, or one that runs out of gas or is evicted,
a prevote that expires, a restart. The sequence is an integer modulo `MaxSequence + 1`.
Three history variables record hashes that have stood, were opened, were counted.
**CommitReveal** is the abstract protocol: one commitment stands, it is opened only
after it has stood, and counts only while it stands.

**EventStream** composes the two loops of the stream with the feeder's. `paramsPc`,
`vpPc` and `feederPc` say where the three are; Swap and send are two actions as in
the code, and so are the receipt of a block, the check and the hand-over. A message
is a height, 0 when it has none (`CheckHeight` drops it). **EventRelay** is what
that promises: a queue of parameters, and a signal handed over exactly once.
Heights are arbitrary here, which makes the safety properties stronger.

**Daemon** puts EventStream on **BlockFeed**, the abstract websocket: the chain has a
`tip`, the subscription a `cursor`, and a message is handed over only when the stream
waits for one. A reconnection moves the cursor past the tip. Every action of EventStream
is one of Daemon; the receipt of a message is joined with the delivery of a block (or of
something without a height), and after `Stream.Close` the feeder closes the providers one
by one before the process exits. The websocket's `Fatal` may end the process at any time.

**Websocket** composes the websocket's loop with `ws.close`, called by the exiting
stream loop. Connections are numbered as dialled, so that `status` can say what
became of each. `ws.close` is four steps (the signal, the flag, the load of
`w.connection`, the close). The load is a data race with `connect`: it
may return any value since the two goroutines last synchronised (`synced`). The
cursor of BlockFeed is the block the loop has read and not yet handed over, or else the
next one of the subscription; the blocks made while none is open are those it skips.

**PriceSource** composes a tick source with its price provider. Prices are their ages.
Time is discrete and passes only when neither loop has something to do at once, so a
tick or an update is not delayed by the scheduler; a fetch takes time. An exchange is
`reliable` or not from the start: a reliable one answers every fetch within
`MaxFetchTime` for all symbols, another may fail, leave symbols out or never answer.
**PriceStore** is what the pair promises: per symbol an age, which grows until the price
is renewed.

**AggregateProvider** ranges over the providers one by one, in any order, while their
prices change and expire; it computes its result with **Consolidation**, the pure
algorithm. Prices are integers there and results are doubled, to stay exact: the
comparison with the standard deviation is squared. The code's floats round, by the order
of the prices, and that decides something where a price is exactly one standard
deviation from the mean (`Ties`): there it may be cut or not, so `Outcomes` is the set
of results over every choice of cut ties. For 0.1, 0.2 and 0.3 the code gives 0.25 in
one order and 0.15 in another. The loops are recursive functions of the number of turns,
and sorting puts each price at its rank. `NotFinite` stands for NaN and the infinities,
which make every comparison with the mean fail.

**Rates** takes the consolidated prices to the exchange rates of a prevote, as
`handleVotingPeriod`, `newPrevote` and `float64ToDec` do: a rate is a number of the
chain's smallest units, decimals beyond are cut off as text (towards zero for either
sign), and a conversion that panics ends the process.

**Sources** gives, for each fetcher, the outcome (prices, error or panic, counted or
not) as a function of the exchange's answer. A ticker's price is a number, a string
that is not one, a value of another JSON type, or missing; fetchers differ in which
of these loses a ticker, fails the fetch or panics.

**Configuration** takes an environment to the parts of the daemon: `Get` with the global
map that it changes in place, `MustGet`, the constructors of the providers, `GetAuth`,
and the wiring of `cmd/root.go`. An optional variable is unset, malformed or a value.

**MCInputs** enumerates the inputs of Consolidation, Rates, Sources and Configuration; a
state is one input of one of them. The configuration is read several times in one
process: `loads` are the environments, and `found` the global map as the last call
finds it.

**Startup** is the timing of the start: the first poll, its deadline and the
feeder's `InitTimeout`, in seconds. `EventStream` leaves this timing out
(`InitTimeout` may happen at any time there).

Definitions named `X_Something` and commented "Mutant of X" are plausible mistakes;
putting one in the place of `X` makes the property it is listed with in
`PROJECT.json` fail.

## The runs

| run | specification, bounds | shows |
|---|---|---|
| poster_faults | 3 salts, 1 rate, sequences 0..2, every fault, fair | TypeOK, NoEarlyReveal, SingleInFlight, ImplementsCommitReveal, VotesResume |
| poster_quiet | 2 salts, 2 rates, sequences 0..2, failing and refused calls, restarts | InStep, PooledTxRuns |
| stream_safety | 2 whitelists, periods 2 and 3, heights to 5 | TypeOK, NoUpdateLost, ImplementsEventRelay |
| daemon_live | 2 whitelists, period 1, 2 blocks, any reconnections, fair | VotingPeriodsAdvance, EveryPeriodHandled, ParamsPropagate, ShutdownCompletes |
| websocket_reconnect | 4 connections, 2 retries, 4 blocks, fair | TypeOK, ImplementsBlockFeed, NoBlockWaits, NoRedial, CloseReturns |
| source_ages | tick 8, timeout 15, fetches to 6 or unreliable, fair | TypeOK, NoGap, ImplementsPriceStore, CloseReturns |
| aggregate_safety | 3 providers, prices 1, 2, 9 | TypeOK, ResultWasSeen, MissingOnlyIfLacked |
| inputs_all | up to 5 prices out of -5, 0, 1, 2, 5, 40 and NaN; up to 3 tickers of 3 symbols; 7 pool prices; up to 2 readings of the configuration | AnswersWhenAsked, WithinRange, OrderShowsOnlyInTies, MajorityWins, MedianOfInliers, RateWithinPrices, NotFiniteContained, PricesAreQuoted, OneBadPriceIsLocal, EthNearBothPools, PairsKeepTheirSymbols |
| startup_timely | 10, 3 and 15 seconds, up to 6 of set-up | PanicsOnlyAfterFailure |

Why the bounds are enough. Poster: only one transaction can be pooled at a time
(checked, and proved for all bounds), so a call meets at most the hash of the slot, the
one pooled and its own, and three hashes are enough to keep them apart. Two sequences
suffice for a stale one, three for it to be neither the committed nor the next. Salts
and rates are only compared, which makes the symmetry of poster_quiet sound;
poster_faults checks liveness and does without. Stream: the channel has one place and
the loop holds one more, and there are four parameter sets; heights to 5 contain a
boundary of each period. Daemon: with a period of one block every block is a voting
period, which keeps the feeder busiest, and the second block arrives while the feeder
works on the first; the arithmetic of longer periods is in stream_safety. One provider
to close stands for several, which nothing connects. Websocket: a third connection
follows a reconnection after a reconnection. The code allows 10 retries where the run
allows 2: the number matters to nothing but when the process gives up. PriceSource runs
with the code's own times; NoGap fails when fetches may take 7. Consolidation: five
prices allow a majority of three against two outliers on either side. Rates have units
of four half prices, so that most prices lie between two rates, and the largest price,
40, is beyond the largest rate. Configuration: two readings, each naming at most one of
three exchanges (a default one, another known one, one without a source), show what the
first leaves for the second. A call over three providers takes all branches of the
consolidation (none, one, two, more). Three tickers give a symbol two quotes beside a
bad one.

`CHECK_DEADLOCK FALSE` stands where the system stops: after the websocket has
closed or given up, after the start, and where a run enumerates inputs.

### Where the code does not do what is written

Three runs expect a violation. Each checks one sentence of the repository:

- source_hang: `cmd/root.go:34`, "gracefully shuts down the feeder". A request without
  an answer blocks Close, for the fetchers use no timeout.
- startup_failure: `types/event_stream.go:5`, "must handle failures by itself". One
  failed query at the start ends the feeder, since the second comes after the timeout.
- inputs_coingecko: `types/price.go:36`, "must map symbol to its float64 price, or an
  error". A coin without a USD price becomes 0.

The models show others, less important, that have no run of their own: `GetPrice` of the
aggregate consolidates all prices where its comment (`aggregateprovider.go:51`) speaks
of the first available one, and it counts each valid answer where `metrics/README.md:16`
says each call; `fetched_prices_total` misses bitfinex's ticker-size error and most of
uniswap's errors (`metrics/README.md:7`); a connection whose subscription failed is
never closed (`feeder.go:80`); TLS is switched on by `ENABLE_TLS` (`config.go:93`), not
by `TLS_ENABLED` as the README says; a second `Get` in one process also returns what the
environment of the first one overrode (`config.go:83`); the price computed from a "map
of prices" (`aggregateprovider.go:89`), which has no order, depends in a tie on the one
in which the providers are ranged over.

### Fairness

- Poster: voting periods keep coming, a call returns (the context has 15 seconds) and
  a pooled transaction is included at last. `VotesResume` assumes in addition that
  from some time on failures stop and each transaction is included before the next
  period starts; it says nothing of a chain whose inclusion is always slower.
- Daemon: each goroutine goes on. Strong fairness stands for `select`, which picks at
  random among the ready cases, so that a case ready again and again is taken. Polls
  do not all fail for ever, and a block the node has sent is read at some time, which
  `NoBlockWaits` shows of the websocket. The
  closing of a provider returns: that is `CloseReturns` of source_ages, and what it rests
  on (fetches return) is what source_hang refutes, so `ShutdownCompletes` holds under the
  same condition. Blocks, changes of parameters, reconnections and the interrupt need not
  come.
- Websocket: the same, a dial returns, and the node either makes blocks or loses the
  connection. Without the last a `ws.close` that comes during a reconnection waits on
  the new connection, which it did not close, until something arrives.
- PriceSource: loops go on and `select` is fair; `FairSpec` also lets fetches return.
  `NoTimeoutSpec` does not, as the code does not.

## The proofs

TLAPS checks these for every value of the constants, under the `ASSUME`s of the
modules (Nil is none of the values, bounds are naturals, vote periods are positive) and
the hypotheses named below. A theorem about a run's property is listed with it in
`PROJECT.json`.

- `PricePoster_proofs`: `TypeCorrect`, `NoEarlyRevealHolds`, `SingleInFlightHolds` and
  `Refinement` (the poster implements CommitReveal), with every failure allowed. The
  inductive invariant `IInv` adds to the properties that a pooled transaction is alone
  and carries the committed sequence (`OnePooled`); that a call which read the sequence
  while something is pooled has read that same sequence, so that the node will refuse it
  (`LateSequence`); that what stands, and what a call is about to open, has been
  committed (`OnlyCommitted`); and that the openings in a pooled transaction are public
  (`PooledIsPublic`). The heart of it is that an accepted broadcast finds the pool empty
  (`PooledAlone`). The second part takes failures away: `PooledTxRunsHolds` for `Faults`
  without ambiguous broadcasts and expiry (`Answering`), and `InStepHolds` where nothing
  undoes an accepted transaction either (`Lossless`). The strengthening `JInv` says that
  a pooled transaction commits to the prevote the client remembers (`PooledIsPrevious`)
  and that a prepared vote opens what the slot still holds (`OpensSlot`): while a
  transaction is pooled the client does not remember what the slot holds, and prepares
  no vote.
- `EventStream_proofs`: `TypeCorrect`, `NoUpdateLostHolds` and `Refinement` (stream and
  feeder implement EventRelay). `IInv` adds that what is compared and sent has been
  fetched (`FetchedIsKnown`), that the feeder's loop runs only once it has parameters
  and that only its shutdown stops the stream (`Started`). Most lemmas are about a queue
  of at most two elements.
- `Daemon_proofs`: `PeriodsAdvance`, the order in which voting periods are handled.
  `IInv` says that the subscription is past the block handed over last, and that while a
  block is at work no period as late as the one it ends has been handled (`AtWork`).
- `Websocket_proofs`: `TypeCorrect`, `RedialsNever` and `FeedImplemented` (the websocket
  implements BlockFeed), for any number of connections, retries and blocks. `IInv` adds
  that a dial under way has retries left (`RetriesLeft`); that a closed connection means
  the flag is set, since `ws.close` sets it first (`FlagFirst`), which is why the loop
  gives up where it might dial again, even when the racy load of `w.connection` returned
  an old connection; and where the message in hand comes from (`InHand`).
- `PriceSource_proofs`: `TypeCorrect`, `StoreImplemented` (source and provider implement
  PriceStore) and `NoGapIfTimely`. The first two need that an update waiting to be sent
  has not aged (`FreshUpdate`). `NoGapIfTimely` has the hypothesis `UpdateTick +
  MaxFetchTime < PriceTimeout`. The tick of 8 and the timeout of 15 seconds are the
  code's (`tick_source.go:12`, `types/price.go:12`); nothing there bounds a fetch, so
  that a fetch takes at most 6 is said of the exchange. `TInv` bounds a price's age by
  what the source does (`Youth`): until the next tick, a tick's length plus the fetch
  under way, and so on.
- `Startup_proofs`: `PanicNeedsFailures` (a panic after n failed polls means
  `InitTimeout <= (n + 1) * TickPeriod + QueryTimeout`, which one failure satisfies with
  the code's numbers) and, for none, `StartsIfAnswered`. The hypotheses are
  `QueryTimeout <= TickPeriod` (3 and 10) and, for the second, `TickPeriod +
  QueryTimeout < InitTimeout` (10 + 3 and 15). `Patience` bounds how long the feeder has
  waited by the number of failed polls.
- `AggregateProvider_proofs`, first part: the consolidation of any number of prices.
  `PriceIfAnswered` (there is a result, and it lies between the lowest and the highest
  price), `ResultIsMedian`, `MajorityPrevails` and `OrderDecidesTies`, whichever ties
  are cut. The loops of `meanAndStdDev` and `removeOutliers` are recursive functions of
  the number of turns; what they compute follows by induction on it, stated with a set
  of numbers that holds 0 and with each number the next (`SetInduction`). Some price is
  an inlier because otherwise the squares of the deviations would sum to more than they
  do (`SomeInlier`). A price that most give is one (`MajorityIsInlier`) because each of
  the others adds to the squares at least the value there of a tangent to the parabola
  (`TangentBelow`), and those values sum up with the deviations themselves.
  `MedianHalves` counts the prices on either side of the middle of the sorted ones. The
  order matters in ties only, since an exchange of neighbours changes one running sum
  only (`TotalExchanged`), and since the median depends on nothing but how often each
  inlier was given (`MedianOfCounts`). Second part: `GetPrice` over any providers, with
  `TypeCorrect`, `ResultSeen` and `MissingOnlyIfAllLacked`. `IInv` adds that each answer
  was recorded when it was read and each provider passed over was seen without a price
  (`Recorded`).
- `Inputs_proofs`: what inputs_all checks on small inputs, for any number of them.
  `AlwaysAnswers`, `InRange`, `OrderHolds`, `MajorityHolds` and `MedianHolds` carry the
  results above to the prices MCInputs is given: `Theory` instantiates
  `AggregateProvider_proofs` with no providers and a constant for each variable, its
  assumptions are proved of that instance (`TheoryApplies`), and its definitions are
  shown to be those of `Aggregate` (`SameOutcomes`). `RateHolds` follows from that and
  from what is cut off a price being less than a unit (`CutIsClose`); `ContainedHolds`
  from three prices or more that are not all finite having no inliers. `NearBothPools`
  is arithmetic. For `SymbolsKept`, the invariant (`Resolved`) says that the global map
  has, for each exchange, the symbols of the last environment that names it out of those
  already read, whether or not that call failed. `QuotedHolds` and `LocalHolds` are
  about answers with any tickers: a ticker that is removed moves those behind it by one
  place, which leaves the last one of each symbol the last (`CollectWithout`).

Every invariant that a passing run checks is proved. Model-checked only:

- everything under fairness (`VotesResume`, `ParamsPropagate`, `EveryPeriodHandled`,
  `NoBlockWaits`, `ShutdownCompletes`, both `CloseReturns`), which is out of the
  prover's reach (the other components claim nothing under fairness);
- that three documented promises fail (`CoingeckoPricesAreQuoted` is one): each of these
  runs shows it by an example.

## Not modelled

- The text of exchange rates, salts and hashes: a hash is the pair it hashes.
- Floating point, but for the ties. The integers stand for prices far enough apart that
  rounding decides nothing else; that the last digits of a result may differ between two
  orders is not modelled. In a tie any choice is allowed, also some that the rounding of
  particular numbers cannot make. NaN and the infinities are one value, after which
  nothing about the result is claimed but that it cannot end the process while three
  exchanges answer.
- Which pairs a prevote holds. A vote for a pair that has left the whitelist since is,
  to the poster, a transaction that fails, and PricePoster has those.
- The chain beyond what the client uses of it: it counts a vote in whatever block it
  comes, and the windows of voting periods appear only as expiry and refused calls.
- The syntax of the environment's values (a value parses or not); the endpoints; the
  derivation of the key, finding it and signing; the bech32 set-up; flags, logging, the
  metrics server; generated mocks. The keyring's other methods only panic and are never
  called.
- HTTP, JSON and ABI decoding, except for which failure loses what.

## Plan

In the order of importance; all but item 13 are written.

1. PricePoster with CommitReveal, and their proofs.
2. EventStream (with the feeder) and EventRelay, and their proofs.
3. Consolidation and AggregateProvider.
4. PriceSource.
5. Websocket.
6. Sources.
7. Startup.
8. BlockFeed: Websocket implements it, Daemon builds the stream on it.
9. Daemon: the shutdown over the stream and the providers, and the voting periods
   from the block to the feeder.
10. PriceStore, which PriceSource implements, and Rates.
11. Configuration: defaults, overrides, and what a second reading sees.
12. Proofs of Websocket, PriceSource, Startup, AggregateProvider with Consolidation,
    Rates, Configuration and the pools of uniswap.
13. Still open: that each voting period Daemon handles ends with a block it received,
    and theorems about the remaining fetchers (binance, coingecko, coinmarketcap).
