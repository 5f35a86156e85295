# x402engine: models and proofs

x402engine is a pay-per-call API gateway: one Node process (Express 4) in front
of some 60 paid upstream APIs, with PostgreSQL for what must survive. A call is
paid by a MegaETH transaction the gateway verifies itself ("direct"), or by a
Base or Solana payment which the x402 SDK and its facilitators verify and settle.

These modules model the parts in which steps of several actors meet: payments,
the request pipeline, the handlers of the API with their upstream clients and
caches, the request log and its shutdown, the prices and the accounts, and the
key pools.
Paths below are relative to the repository (`src/` is its source directory).

## Inventory

| part | state | operations | what is hard about it |
|---|---|---|---|
| direct payment, `src/middleware/payment.ts` | `req.x402`, the race | decode header, race verification against 20 s, 402 / 503 / `next()` | the verification outlives the answer |
| verification, `src/verification/megaeth.ts` | none | check table, fetch receipt, sum the transfers, record the hash | three awaits between check and use |
| replay table, `src/db/ledger.ts` | `used_tx_hashes` | `isTxHashUsed`, `recordTxHash` | concurrent inserts, errors, lost replies, restarts |
| request log, `src/db/ledger.ts` | buffer, INSERTs under way, `requests`, two timers | `logRequest`, `flushLogBuffer`, `cleanupOldRequests`, `shutdownDatabase` | flushes overlap; failure and exit drop entries |
| shutdown, `src/index.ts` | pg pool, process | `shutdown()` for each signal | two signals share one pool |
| facilitator, `src/facilitator/index.ts` | none | `verify`, `settle` over HTTP | the order of calls is the client's |
| pipeline, `src/index.ts`, `src/middleware/*` | `req.*`, `res`, timers | parser, timer, limiter, bypass, direct, SDK, guard, error handler | the timer answers under a running handler |
| API handlers, `src/apis/*` | TTL caches, upload counter | validate, cache, call upstream, answer, log | answer after the timer's; what is logged, cached and released then |
| key pools, `src/lib/key-pool.ts` and providers | index per pool, clients | `register`, `acquire`, `getClient` | wrap-around, keys taken at startup |
| upstream retries, `src/providers/*` | attempt counters | fetch with backoff and timeouts | retries outlive the request timer |
| ENS failover, `src/providers/ens.ts` | a shared index | try three RPC endpoints | concurrent lookups move the index |
| health and caches, `src/lib/cache.ts`, `src/apis/health.ts` | TTL maps | get, set | concurrent misses |
| price conversion, `src/lib/validation.ts`, `src/middleware/x402.ts` | none | decimal strings to token units and back, matching of a payment with a requirement | floats on the way, two numbers of decimals |
| accounting, `src/apis/dashboard.ts`, `src/dashboard/lifetime.ts` | none (parallel queries) | revenue, lifetime metrics | counts rows, not settlements; queries of different moments; rows deleted by retention |
| registry, `src/services/registry.ts` | static tables | `buildRoutesConfig` at startup | the amounts it demands of each network |
| schemas, discovery, MCP | static tables | none after startup | not modelled |

How they meet: the pipeline calls the direct payment middleware, which calls the
verification, which reads and writes the replay table; every handler, and the
wrapped `res.end` of a direct payment, gives its row to the request log; the
handlers take keys from the pools; the dashboard reads the rows. All share the
event loop, so that between two awaits nothing else runs.

`PROJECT.json` lists every component with its status, and under `hazards` the
lines where each part can go wrong and the property that watches it.

## Modules

| module | models | uses |
|---|---|---|
| `TransferLogs` | `verifyTransferLogs` as operators | |
| `Prices` | prices to token units and back, the requirements of a route and their matching | |
| `PaymentOnce` | abstract: a transaction is claimed by one call, once and for good | |
| `MegaethPayment` | middleware, verification, replay table, facilitator, timers, restarts | extends `TransferLogs`; implements `PaymentOnce` |
| `LogOnce` | abstract: an entry becomes a row once, or is lost for good; only retention takes a row away | |
| `RequestLog` | buffer, flushes, retention, shutdown, crash | implements `LogOnce` |
| `Accounting` | settlements, their rows, the queries of the dashboard and the lifetime figures | instantiates `LogOnce` |
| `PaidHandler` | abstract: a handler runs once, is answered once, and a call of its upstream leaves one row | |
| `Gateway` | one request through the whole pipeline, its answers and its log rows | direct payment reduced to the promise of `PaymentOnce`; implements `PaidHandler` |
| `Upstreams` | the upstream clients of `src/providers`, a record for each | |
| `Routes` | the handlers of `src/apis`, a record for each | extends `Upstreams` |
| `ApiRoutes` | concurrent requests to one route, with timer, cache, slots, attempts and ENS index | extends `Routes`; implements `PaidHandler` |
| `KeyPool` | pools of keys and of clients from startup on | |
| `TransferLogsProofs`, `AmountsProofs`, `MegaethPaymentProofs`, `RequestLogProofs`, `GatewayProofs`, `ApiRoutesProofs`, `AccountingProofs`, `KeyPoolProofs` | theorems | each extends the module it is about (`AmountsProofs` is about `MCAmounts`); the first is used by the next two |
| `MCAmounts`, `MCMegaethPayment`, `MCKeyPool`, `MCApiRoutes` | values for TLC; `MCAmounts` also steps through prices and transactions | |

The abstract modules are where the parts are composed. A payment is claimed once
(`PaymentOnce`): `MegaethPayment` shows it, `Gateway` relies on it. An entry is
stored once or lost (`LogOnce`): `RequestLog` shows it, `Accounting` relies on
it. A handler is answered once and logs its upstream call (`PaidHandler`):
`ApiRoutes` shows it of every route with its cache, retries and limits, and
`Gateway` of the handler it runs between payment and settlement, so that what
`Gateway` says of its handler holds of all of them.

**MegaethPayment.** A call is one HTTP request. `phase` is where its HTTP side
is, `verif` where its verification is; they are apart because `Promise.race`
stops waiting and the verification does not stop. Each action is the code
between two awaits: `StartRace` to the first query, `CheckUsed` to the RPC call,
`ReceiptArrives` to the INSERT, `InsertReplies` to the answer. The INSERT has
two steps (PostgreSQL executes it, the reply arrives), since the reply can be
lost. `rows` is the table, each row naming the call whose INSERT made it (the
real table has no such column: it is history, and no guard but "is there a row"
reads it). `Restart` ends the process anywhere; an INSERT that was sent may
still be executed (`OrphanEnds`). Hashes are spellings with a `Lower` function,
because the case of a hash is what a second use could hide in; receipts are a
constant, and a transaction has one once it is `mined`.

**RequestLog.** `buffer` is `logBuffer`; `batches` the INSERTs whose
`pool.query` has not come back; `table`, `dropped` and `deleted` where an entry
can end. `shut` follows each invocation of `shutdown()`. `due`, what had been
logged when the first drain began, is history.

**LogOnce and Accounting.** `fate` is all that is left of the request log: an
entry is pending, stored, lost or deleted. `Accounting` puts calls next to it. A
direct payment is settled before the call and leaves a payment row and an API
row; a payment through the SDK is settled after the handler and leaves an API
row, or none if the answer came from a cache. `created` is the day of the flush,
which may be later than that of the settlement. The dashboard sends its queries
in parallel; `Query` is the moment PostgreSQL executes one, so that rows can come
and go between two of them, and `moved` says which did. `Where` has the WHERE
clauses of the counting queries, `Times` and `Unattributed` what
`calculateLifetimeMetrics` makes of the counts. `Audited` is the census of the
chains that `LIFETIME_AUDIT` stands for.

**Prices.** A price is two sequences of digits, as `split(".")` leaves them;
`PriceStringToTokenAmount` pads and cuts them as the code does. `UsdToUsdm` is the
float on its way through `toFixed`, `Accepts` what `buildRoutesConfig` demands of
each network, `FindMatchingRequirements` the lenient match, `RawToUsd` the way
back. `Floats` are the doubles the SDK may read: $0.03 is 1.11 units of USDm off
(`src/middleware/x402.ts:18`), $1.10 some 89, so that all that is assumed is an
error below half of the sixth decimal, half of 10^12 units. A double keeps to
that, with its product with 10^6 rounded once more, up to a billion dollars.

**Gateway.** `at` is the await a request is at; everything the code runs in one
turn (`next()` after `next()`) is one action built from one operator per
middleware: `WithinLimit` runs `DevBypass`, `ExtractContext` and `SdkWrapper`.
`sent` is the status once the headers are sent; `Finish`, `TooLate` and `Answer`
are what a handler's response does before and after that. A handler that throws
before its `try` block (`Rejects`: `messages: [null]` at `src/apis/llm.ts:146`)
is over without an answer, since Express 4 does not look at its promise and
`src/index.ts:742` only logs the rejection; its request is left to the timer. A
paid handler is modelled by its common shape, as in `chatHandler` (`src/apis/llm.ts`) with the
cache of `src/apis/crypto.ts`. The SDK is external: it may refuse, throw, pass a
method and path that have no price, or accept, hold the response back and settle.
At "reading" the body parser waits for a body, before the request timer of
`src/middleware/timeout.ts` is set: Node's own limit (`requestTimeout`, 300 s)
ends a request whose body does not come (`BodyAborted`). `gone` are the requests
whose client has closed the connection, which clears the timer and makes later
responses do nothing.

**Upstreams, Routes, ApiRoutes.** The handlers differ in few things, and so do
the clients they call. `Upstreams` says of each client how many attempts it
makes and after which replies, the limit of an attempt, and the status an error
ends with; `Routes` says of each handler its client, its timer, its time to
live, and how it treats parameters, URLs, uploads and errors. `ApiRoutes` is the
code these records parameterise: `Handle` is a handler up to its first await,
`Attempt` and `Outcome` the loop of a client, `Succeed` and `Fail` the end of
the `try` and the `catch` block, `Done` the `finally` block. A response throws
once the headers are sent (`Send` changes nothing); so that a success that comes
after the 408 is cached first, then logged as an error (500). For a request in
`sdk`, one whose payment the SDK has verified, a success is not sent but held
back (`answer.held`): its handler goes on and logs 200, and the client gets the
data when the payment has been settled, a 402 when it has not, or the 408 that
the timer writes into the held response (`SdkSettles`, `RequestTimeout`, as in
`Gateway`). `answer.of` is the question whose data the handler handed over, and
stays when a 402 or 408 takes their place. `Throw` is a parameter of a type that
nobody expects: inside of the `try` block an error like one of the upstream,
before it a request without an answer. Time is in ticks
of 30 seconds, since all limits in the code are multiples of that; the backoffs
(at most 4.2 s) end between two ticks, and an upstream without a limit of its
own (`Never`) takes any time. A client that leaves is the code 499, which the
program never sends: it clears the timer, and later responses do nothing.
`RoutesAssumption` states what the proofs use of the records of `Routes`.
`asked` and `fetched` are history. The routes share no state but the index of
ENS, and each route is checked alone with all its requests; the two routes of
ENS run the same code. Where a cache lets two questions differ they do; routes
without one are asked a single question.

**KeyPool.** `Startup` is `main()` from `register` to the init functions;
`Acquire` and `GetClient` are calls. `calls` counts them for each key (history).

**Abstracted.** Base64, JSON, messages, addresses and latencies; the rows'
content beyond service, status and whether there is an amount; times, except
which of two timers is first (20 s before 30 s). viem's `parseEventLogs` skips
what is not a Transfer, so that the catch around it is dead and left out.

## Runs

| run | instance | shows |
|---|---|---|
| `payment_amounts` | prices of up to 2 and 4 of the digits 0, 1, 2, 3 and 9; floats up to 4 units off; 2 accounts, 2 contracts, values 0..2, up to 3 logs; 2 and 3 decimals for 6 and 18 | the amount demanded is the price rounded down, a payment of what the SDK asks for is accepted, revenue is the price again on each network; the verdict on a transaction agrees with a reference definition, the payer is who sent last, and foreign logs never matter |
| `MegaethPayment_safety` | 3 calls, 3 spellings of 2 transactions, 1 restart | the safety properties |
| `MegaethPayment_promise` | 2 calls, 1 restart, fair timers | refinement of `PaymentOnce`; rows are permanent; waiting ends |
| `RequestLog_log` | entries and batches small enough that a batch fills twice over, 1 signal, retention on | no entry is lost silently or stored twice; refinement of `LogOnce`; the shutdown keeps its word and ends |
| `Gateway_request` | 2 requests, 1 transaction, development mode | only the paid are served; a payment is logged once; refinement of `PaidHandler`: what has been sent stands; each is answered |
| `ApiRoutes_api` | each of 34 routes, 2 requests, one paid directly and one through the SDK, 2 questions, 1 upload slot, with and without an API key | the log agrees with what the handler handed over, and that with what the client got unless the SDK held it back; nothing stale is served, nothing fresh fetched again; slots are given back; no ENS endpoint is left out; refinement of `PaidHandler`; calls are logged in the end |
| `Accounting_accounts` | a direct call and one through the SDK, an audit of the first of 3 days, retention of a day | a settlement is counted once but for named reasons; the figures of an answer differ by what moved meanwhile; lifetime figures shrink only by retention |
| `key_pool` | pools of 0 to 3 keys, one wrapped in clients, 8 calls each | load is spread |

Why the bounds are enough: the table, the buffer and the indices treat calls,
entries and keys alike. Two calls are needed for a race on one transaction and a
third for a rival that comes when the race is over; one restart meets every
stage of a call; three logs hold a split payment and a stranger; two requests
are needed for one to find the payment of the other used up, or for one to meet
the cache entry, the slot or the ENS index of the other; a slot less than there
are requests is needed for one to be refused (the code has five slots, and
counts them in one place); three days hold a settlement on each side of the audit
and a row that is too old; the decimals matter only by their difference and by
whether a price has more of them, so that 2 and 3 stand for 6 and 18 with prices
of up to four decimals. `MaxRestarts`, `MaxCalls`, `MaxDay`, `MaxInt`, `MaxDec`,
`MaxLogs` and `MaxValue` are the only bounds of counters. The digits left out
differ from those kept in value only; 9 is the one that carries.
`MegaethPayment_safety` uses symmetry in the calls, the liveness runs do not. In
`ApiRoutes_api` one request is paid by way of the SDK and the other is not, since
how a request is paid touches nothing it shares with another; and the first asks
for the first key, since keys are interchangeable (`OneOfEachKind`). The theorems
are about any requests, however they are paid.

Deadlock is not checked: when every call has been answered, the process has
exited, or the counters are at their bounds, a model stops, as it should.

### Where the code does not do what is written

Each of these runs checks one property that quotes the repository, and TLC
finds a behaviour of the code that violates it.

| run | what is written | what happens |
|---|---|---|
| `MegaethPayment_retryable` | `retryable: true`, `src/middleware/payment.ts:158` | the abandoned verification uses the hash up, and the retry is refused |
| `RequestLog_twosignals` | "Gracefully drain the pool", `src/db/ledger.ts:283` | a second signal exits under the drain of the first |
| `Gateway_revenue` | "actual on-chain revenue", `src/apis/dashboard.ts:189` | a verified SDK payment is counted though it was never settled |
| `ApiRoutes_travel` | "Number of children", `config/services.json:2776` | the cache key leaves the number out: the search of a family is answered with the data for two adults |

Seen on the way, without a run of their own:

- "resolve failed on RPC i/3" (`src/providers/ens.ts:26`) may be one endpoint
  asked twice and another never, when another lookup comes in between; together
  the lookups leave none out (`NoEndpointLeftOut`).
- A paid call that is answered from a cache leaves no row (`src/apis/crypto.ts:38`):
  the SDK settles it, and the lifetime figures miss it. A row that is flushed
  after the audit of a settlement before it is counted twice; and since the
  increments are counted from the rows that are retained, lifetime figures shrink
  when retention deletes them. `LifetimeExplained` names these reasons, and
  `LifetimeShrinksOnlyByRetention` says that there is no other for the last.
- `recordTxHash` returns false for any database error, with or without a row,
  where its comment has "false if it already existed (replay attempt)"
  (`src/db/ledger.ts:181`); `InsertFails` does what it does.
- The HTTP route of `settle()` confirms any hash at any time, where its comment
  has it "only called after verify() succeeds" (`src/facilitator/index.ts:106`);
  it changes no state, and `FacilitatorSettle` does what it does.
- The 408 of the request timer passes through the wrapped `res.end` and logs a
  direct payment before its handler is through, where the comment has "log AFTER
  handler completes" (`src/middleware/payment.ts:176`).
- A failed upstream is answered `retryable: true` (`src/apis/llm.ts:174`), but a
  direct payment has been used up by then: the retry needs a new one.
- The global 1 MB parser (`src/index.ts:90`) comes before the 50 MB parser of the
  transcription route (`src/index.ts:645`), which therefore sees no large body.
- A body the parser refuses, also a malformed one, is answered 503 by the error
  handler (`src/index.ts:666-672`), where the documentation has 400
  (`public/docs/index.html:2017`); likewise a pin whose JSON does not parse is
  answered 503 with `retryable: true` (`src/apis/ipfs.ts:37`, `Throw`).
- A payment is attributed to the sender of the last USDm transfer to the gateway
  in its transaction, be it one of nothing while others paid
  (`src/verification/megaeth.ts:167-173`). `PayerSentLast` says so; the payer
  is logged, and counted by the dashboard, and decides nothing else.
- A row of the request log with `upstream_status` 200 does not say that the
  client got the data: a call that was paid through the SDK is logged before its
  settlement, and may end with a 402 or a 408 (`LogMatchesAnswer`).
- The active uploads are counted after multer has buffered them
  (`src/apis/ipfs.ts:19-24`): the limit bounds the pins, not the memory.

## Fairness

- `MegaethPayment`: only the timers. The event loop runs an expired timer; no
  query and no RPC call has to come back. `WaitingEnds` therefore does not lean
  on PostgreSQL or the chain.
- `RequestLog`: the timers, and that every INSERT ends, if only with an error.
  `GraceEnds`, `FlushAwaited` and `PoolEnded` are continuations of promises that
  are resolved. The pg pool (50 clients) is assumed not to be saturated at
  shutdown, so that an INSERT always has a client.
- `Gateway`: the end of the body (Node's `requestTimeout`), the limiter (in
  memory), the end of the wait for a direct payment
  (`WaitingEnds`), the request timer, and the end of an SDK settlement once
  begun. Neither the SDK's verification nor an upstream has to answer; that
  `EveryRequestIsAnswered` still holds is due to the timer.
- `LogOnce` has an entry leave memory in the end; that `RequestLog` implements it
  is checked under the fairness above.
- `ApiRoutes`: the clock and the timers; that a request whose handler waits for
  its payment or its URL check goes on; and that an upstream call ends. Most have
  a limit in the code; the SDKs of fal.ai, Pinata, Deepgram, E2B and ethers have
  their own, which is an assumption. Only `CallsAreLogged` needs it.

## Proofs

TLAPS proves, for every value of the constants that satisfies the named
assumptions:

| theorem | property |
|---|---|
| `TransferLogsProofs!VerdictIsRight` | a transaction is accepted exactly when its USDm transfers to the recipient come to something, and to at least the amount |
| `TransferLogsProofs!PayerPaid` | the payer is the sender of the last of them |
| `TransferLogsProofs!OthersDoNotCount` | logs of other contracts change nothing |
| `AmountsProofs!AmountIsFloorHolds` | `AmountIsFloor` |
| `AmountsProofs!AskedIsAcceptedHolds` | `AskedIsAccepted` |
| `AmountsProofs!RevenueIsPriceHolds` | `RevenueIsPrice` |
| `AmountsProofs!PaysExactlyWhenSumReachesHolds` | `PaysExactlyWhenSumReaches` |
| `AmountsProofs!PayerSentLastHolds` | `PayerSentLast` |
| `AmountsProofs!ForeignLogsIgnoredHolds` | `ForeignLogsIgnored` |
| `MegaethPaymentProofs!TypeCorrectness` | `TypeOK` |
| `MegaethPaymentProofs!NoDoubleUse` | `TxHashUsedOnce` |
| `MegaethPaymentProofs!RecordedBeforeAccepted` | `AcceptedIsRecorded` |
| `MegaethPaymentProofs!NothingForFree` | `AcceptedIsPaid` |
| `MegaethPaymentProofs!RowsStay` | `RowsArePermanent` |
| `MegaethPaymentProofs!ImplementsPromise` | `PromiseKept`: `Spec` implements `PaymentOnce!Spec` |
| `MegaethPaymentProofs!LossesAreExplained` | `ConsumptionExplained` |
| `MegaethPaymentProofs!RefusalsHaveRivals` | `RefusalHasRival` |
| `RequestLogProofs!TypeCorrectness` | `TypeOK` |
| `RequestLogProofs!NoEntryAstray` | `EachEntryInOnePlace` |
| `RequestLogProofs!BufferIsBounded` | `BufferShortOfBatch` |
| `RequestLogProofs!OneShutdownKeepsItsWord` | `DrainKeepsItsWord`, if there is one signal |
| `RequestLogProofs!LogsOnce` | the steps of `RequestLog` are steps of `LogOnce` |
| `GatewayProofs!TypeCorrectness` | `TypeOK` |
| `GatewayProofs!OnlyPaidIsServed` | `ServedIsPaid` |
| `GatewayProofs!PaymentsAreLoggedOnce` | `OnePaymentRowPerGrant` |
| `GatewayProofs!ImplementsHandler` | `HandlerPromise`: `Spec` implements `PaidHandler!Spec` |
| `ApiRoutesProofs!TypeCorrectness` | `TypeOK` |
| `ApiRoutesProofs!TheLogIsRight` | `LogMatchesAnswer` |
| `ApiRoutesProofs!NoSlotIsLost` | `SlotsAreCounted` |
| `ApiRoutesProofs!NoEndpointIsLeftOut` | `NoEndpointLeftOut` |
| `ApiRoutesProofs!ImplementsHandler` | `HandlerPromise`: `Spec` implements `PaidHandler!Spec` |
| `ApiRoutesProofs!AnswersStayFresh` | `AnswersAreFresh` |
| `ApiRoutesProofs!KnownIsNotAsked` | `NoNeedlessCalls` |
| `ApiRoutesProofs!CompleteKeysKeepApart` | `AnswersMatchQuestions`, of routes whose cache key leaves nothing out |
| `AccountingProofs!LifetimeIsExplained` | `LifetimeExplained` |
| `AccountingProofs!FiguresAddUp` | `AnswersAddUp` |
| `AccountingProofs!OnlyRetentionShrinks` | `LifetimeShrinksOnlyByRetention` |
| `AccountingProofs!RowsKeepThePromise` | the steps of `Accounting` are steps of `LogOnce` |
| `KeyPoolProofs!KeysShareTheLoad` | `LoadIsSpread` |
| `KeyPoolProofs!IndicesInRange` | `TypeOK` |

The assumptions: lower-casing is idempotent (`LowerAssumption`); `NoOne` is no
call and no request (`CallsAssumption`, `GatewayAssumption`); the token is a
contract (`USDmAssumption`); a receipt has a list of logs, and what a route
demands is an integer (`ReceiptAssumption`); USDC has a decimal at least, and USDm more than
USDC (`DecimalsAssumption`); the gateway's account is one of several, and prices
are spelled in digits (`AmountsAssumption`); entries, requests and calls are finitely many and a
batch is not empty (`RequestLogAssumption`, `RoutesAssumption`,
`AccountingAssumption`); there are upload slots (`ApiRoutesAssumption`); and the
routes have the shape of those in `Routes` (`RoutesAssumption`): at most four
attempts, no error with the status 200, no cache where a host is looked up. TLC
evaluates each of them on the instances of the runs.

*Transactions.* What a loop computes for a list of any length is an induction
over data, which the prover has no rule for. `TransferLogsProofs` makes one: a
set of numbers that has 0, and the successor of each of its numbers, has all
(`SetInduction`, from the well-foundedness of the naturals). A recursive function
is a CHOOSE of a function that satisfies its equation, so that there has to be
one first (`Recursion`). Then the two filters select the transfers of USDm
(`SelectedTwice`), appending a log adds to the reference sum what it adds to the
loop's (`ReceivedAppend`), so that the two agree at every length
(`FoundIsReceived`), and the cases of the verdict are read off.

*Prices.* The digits follow from two lemmas of the same kind: the number of a
concatenation is that of its first part, shifted, plus that of the second
(`NumberConcat`), and a number is less than the power of ten of its length
(`NumberBelow`). `padEnd` and `slice` then multiply, or cut off less than a unit
(`AmountOf`). For the SDK's way, a float that is off by less than half of the
sixth decimal is rounded to the price (`Rounded`), and `toFixed` writes digits that read as the number again
(`ToFixedReads`).

*Payments.* `TxHashUsedOnce` is not inductive: a call is accepted two steps
after its INSERT, on what it remembers (`verif`). The inductive invariant `IInv`
adds that memory: a call whose INSERT is on its way has a paid transaction
(`InsertingIsPaid`); a reply "inserted" means that the row is the call's own
(`InsertedHasRow`); a row belongs to a call that names its transaction, and the
transaction is paid (`RowsArePaid`); a call before its INSERT owns no row
(`OwnsNothingYet`); and `AcceptedIsRecorded` itself. Uniqueness is then a
consequence: a row has one owner, and rows never change hands (`RowsStay`). For
`ImplementsPromise` the execution of an INSERT that finds no row maps to `Claim`
(the invariant shows that the call owns no other row), an acceptance to
`Accept`, `Mine` to `Fund`, and every other step to a stutter. `AcceptedIsPaid`
speaks of the sum of the transfers (`Received`), not of the loop: it takes
`VerdictIsRight`.

*Losses.* The last part of `MegaethPaymentProofs` adds, per call, who is waiting (`Explained`): a
verification that runs either has a request that waits for it or one that a
timer has answered; an INSERT nobody waits for belongs to a call that was cut
off, timed out or answered 402 "race"; a row therefore belongs to an accepted
call, to one about to be, or to one of those. `Refused` keeps, for a refusal, the
rival whose row it met, and rows do not change hands.

*Request log.* `EachEntryInOnePlace` and `BufferShortOfBatch` are inductive
together with what the timers and the shutdown have done (`Known`,
`DeletedIsGone`, `CleanerIsRetention`, `EndedIsEmpty`). For the drain, what was
logged before it is handed over as long as it runs (`DueIsFlushed`), and the
process ends by it alone (`EndedByDrain`), which needs that there is one signal:
`RequestLog_twosignals` shows what a second one does. `LogsOnce` is the safety
half of `PromiseKept`, step by step: a flush only moves entries within memory and
stutters, the end of a batch and of the process are `LogOnce!End`.

*Pipeline and handlers.* In `GatewayProofs` and `ApiRoutesProofs` a step is one
of a single request, so that the invariant is one of a single request (`Sound`)
and a step that keeps it for its own request keeps it for the others. Each action
is classified by what it is to `PaidHandler` (`Rests`, `CallsUpstream`,
`Answers`, `Ends`), from which the refinement follows at once; that an answer is
sent only where none was is part of each of these. `LogMatchesAnswer` rests on
`Proper`: data that were handed over stay so, and their status changes only where
the SDK holds them back. `Gateway` counts
rows of a log that grows by concatenation (`CountConcat`); `ApiRoutes` counts the
requests that hold a slot, which a step leaves, adds to or takes from by one. For
ENS the index, until it has come round, counts the attempts of all lookups and so
bounds those of each (`EInv`): a lookup that has made three leaves no endpoint.

*Caches.* `IInv` and what the cache keeps, `CInv`, are inductive together: an
answer is as old as the entry it came from when it was handed over, and that the
SDK may hold it back makes it no older. The age of an entry and the ticks it has left add up to the time to
live (`EntryIsRight`), and an entry is at least as young as each question that
shares it (`KnownIsCached`): the first gives `AnswersAreFresh`, the second
`NoNeedlessCalls`. An entry is kept under the cache key of the question it
answers; where the key is the question, an answer can therefore be for no other
(`CompleteKeysKeepApart`), so that the fault `ApiRoutes_travel` shows is in the
two routes whose key leaves a parameter out and nowhere else.

*Accounts.* A query knows of a row that has not moved since the dashboard began
exactly if it is stored (`SeenIsRight`), and `created` does not change once a row
is there, so that the WHERE clauses say the same of it at any time. A call has
one settlement row, which gives `LifetimeExplained`; `FiguresAddUp` maps each
settlement to the API row of its call, which was seen too, has moved, or is
missing.

*Key pools.* `LoadIsSpread` is not inductive either. `Spread` says what the
counts look like within a turn: all keys of a pool have had as many calls as
there were full turns, the keys before the position one more, less those that
startup had taken out of the first turn. `TurnStep` is the arithmetic of one
call, the wrap-around included; `CallKeepsSpread` applies it to keys and clients
alike.

Every invariant and every action property of the passing runs is stated by a
theorem. Only model-checked is what needs fairness (`WaitingEnds`,
`ShutdownEnds`, `EveryRequestIsAnswered`, `CallsAreLogged`, and the liveness in
`PromiseKept` of `RequestLog`), since the prover has neither ENABLED nor liveness
here.

## Plan

Built, in this order: `TransferLogs`, `PaymentOnce`, `MegaethPayment`, its
proofs, `RequestLog`, `Gateway`, `KeyPool`, its proofs, `Upstreams`, `Routes`,
`ApiRoutes`, `Prices`, `LogOnce`, `Accounting`, `PaidHandler`, and the proofs of
all of them. What could follow:

1. `TtlCache`, an abstract cache that `ApiRoutes` and the tier cache of the health
   routes are shown to implement.
2. The rate limiters as components of their own (`Gateway` has the verdict only).
3. Two routes of `ApiRoutes` side by side, which now meet in nothing but the ENS
   index.

## Not modelled

- The schemas, discovery, Bazaar and MCP tables: static once started. Of the
  registry only the amounts are modelled.
- The Amadeus client, the NFT client and routes, and `payment-402.ts`: nothing
  mounted calls them.
- The public site, its manifests and the scripts: no part of the process.
- The fal.ai credentials: `fal.config` and `fal.subscribe` run in one turn; what
  the SDK does with its global credentials while it polls is inside of it, as is
  the verification and settlement of the x402 SDK.
- The memory that uploads and caches take: the code promises no bound. The
  histograms and cost estimates of the dashboard: sums over the same rows.

## Running

    tlc -config MegaethPayment_safety.cfg MCMegaethPayment.tla
    tlapm MegaethPaymentProofs.tla

The module of each run is named in `PROJECT.json`; `tlapm` has to be run once for
each of the eight modules of theorems.
