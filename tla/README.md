# Flashloan scanner: TLA+ models, model checking and proofs

This directory is the verification project of the flashloan scanner
(`flashloan-scanner/`) and of the console page that drives it
(`frontend/`). Paths below are relative to the root of the repository; those
without a top-level directory are under `flashloan-scanner/`.

## The system

The scanner looks for flash loans of Aave V3, Balancer V2 and Uniswap V2 in
blocks whose events an indexer has already put into Postgres. It runs as a
service (one protocol, once or in a loop) or behind a web console (several
protocols at once, over a block range).

| Component | State it keeps | Operations | Talks to |
|---|---|---|---|
| `scanner/orchestrator` `ProtocolRunner` | none between calls | `RunOnce`, `RunLoop` | fetcher, extractor, verifier, aggregator, stores, cursor, observer: plain calls |
| `scanner/cursor`, `database/scanner/cursor.go` | `scanner_cursors` | `Get`, `Save` | Postgres |
| `scanner/fetcher` | `observed_transactions` | `FetchRange`, `FetchByTxHash`, `LatestBlockNumber` | the node, `contract_events` |
| `scanner/extractor` | none | `Extract` | registry, events |
| `scanner/verifier` | none | `Verify` (events; events and trace) | transaction, stored legs, events, trace provider |
| `scanner/trace` | a cache per runner, `transaction_traces` | `TraceTransaction` | `debug_traceTransaction` |
| `scanner/aggregator` | `flashloan_transactions` | `AggregateByTx`, `AggregateRange` | `protocol_interactions` |
| `scanner/store`, `database/scanner/results.go` | `protocol_interactions`, `interaction_asset_legs` | upsert, update, replace | Postgres, `SkipDefaultTransaction` |
| `scanner/registry`, `scanner/bootstrap` | official addresses | seed, lookup | Postgres |
| `scanner/app`, `common/cliapp`, `common/opio` | started/stopped flags, a done channel | `Start`, `Stop`, signals | the runner |
| `api/service` `JobManager` | jobs, subscribers (one mutex) | `CreateJob`, `Subscribe`, `Mark…`, `Record…` | the goroutines below; channels |
| `api/service` `RunnerBridge` | seeded protocols | `RunJobAsync` | a goroutine per job, one per protocol; `JobObserver` callbacks into the registry |
| `api/ws` | a subscription per connection | `HandleScan`, `forwardEvents` | the page, over a websocket |
| `frontend/src/store/useScanStore.ts` | what the page shows | `startScan`, `applyMessage` | the websocket |
| `api/http` `Server` | a listener | `Start`, `Stop`, routes | the bridge, the query service |
| `api/service` `QueryService`, trace summary, fund flow graph, `scanner/report` | none | `GetTransactionDetail` and lists | Postgres, the node |
| `common/retry`, `config`, `cmd`, serializers, fixtures | none | wiring and formatting | |

What is hard about it:

* **Crash and retry.** `RunLoop` returns on the first error and the program
  ends; the cursor row is all that says where to go on. `RunOnce` writes five
  tables in many statements, none of them in a transaction with the next.
* **Shared tables.** The protocols of a console job, and a service beside them,
  run `RunOnce` concurrently over the same transactions. Rows are keyed by
  chain, transaction and ordinal, summaries by transaction, and the aggregator
  reads the rows of all protocols before it overwrites the summary.
* **Callbacks and channels.** Each report changes a job under a mutex and
  broadcasts copies outside it, to channels that have a bounded buffer and may
  be closed meanwhile.
* **A page beside a scan.** The transaction page reads summary, interactions,
  legs and trace one by one, while a runner may be writing them, and computes
  lanes from a tree of calls with limits, a shared search and string arithmetic.
* **Signals and goroutines.** A process may be asked to end during its setup, by
  its own run, by a signal and by a second one, while goroutines use what it is
  about to close.
* **Outside actors.** The chain grows while the loop works, a node may answer
  with an older head, and the indexer that fills `contract_events` is another
  program.

What makes each part correct:

* loop and cursor: no block is stepped over, little is scanned twice, the scan
  catches up;
* pipeline: after a scan that returned nil every interaction has its own row,
  the verdict and legs of its own verification, a summary that follows the rows,
  and every finding was reported; nothing is called strict without reason;
* console: one active job, an end for each job that accounts for its protocols
  and never changes, and a page that shows it;
* extractors and verifiers: every interaction gets the verdict that what its
  transaction did deserves; strict only where an official provider has emitted
  events for all legs, no debt was opened and more than an event was seen (the code
  keeps neither of the last two in every case); a trace only takes away;
* transaction page: what it shows of a transaction fits together, the evidence of
  an interaction is its callback and what that called, each leg has a lane that
  tells its loan, and no transfer is drawn twice;
* process: it ends when it is asked to, closes what it opened and not under
  anybody who uses it, its status tells how the run went, and no runner lacks a
  configured address.

`PROJECT.json` lists the hazards line by line under `hazards`.

## The modules

| Module | Models | Checked by |
|---|---|---|
| `Checkpoint` | what the cursor row promises, as an abstract specification | `RunLoop` |
| `RunLoop` | `ProtocolRunner.RunLoop`, the cursor, restarts, chain, node, indexer | `RunLoop` |
| `RunLoopProofs` | theorems about `RunLoop` | TLAPS |
| `ScanPipeline` | `ProtocolRunner.RunOnce` of several runners over the tables | `Pipeline*` |
| `MCScanPipeline` | instances: disjoint transactions, one transaction shared, one id shared | |
| `ScanPipelineProofs` | theorems about `ScanPipeline` | TLAPS |
| `Detection` | extractors, verifiers on events and on traces, trace cache, for one transaction | `Detection*` |
| `MCDetection` | the transactions of a small chain | |
| `DetectionProofs` | theorems about `Detection`: what every transaction obeys; types, events, verdicts | TLAPS |
| `JobConsole` | registry, bridge, websocket handler, page store | `Console*` |
| `TraceTree` | the trace summary: frames, token calls, evidence | `PageShows` |
| `FundFlow` | the lanes of the fund flow graph | `PageShows` |
| `TransactionPage` | `GetTransactionDetail` beside the runner that writes what it reads | `PageShows` |
| `MCTransactionPage` | the transactions of a small pool, with their call traces | |
| `TraceTreeProofs` | lemmas about `TraceTree`: the ids, the walk, what is below a frame, for every trace | TLAPS |
| `TransactionPageProofs` | theorems about `TransactionPage` | TLAPS |
| `ScannerProcess` | service and console from setup to exit: connection, seeding, registry, signals, stop | `ProcessEnds` |
| `MCScannerProcess` | a configuration, and what other processes seed | |
| `ScannerProcessProofs` | theorems about `ScannerProcess` | TLAPS |
| `MCJobConsole` | instances: how many findings a job has; the symmetry of its protocols | |
| `JobConsoleProofs` | theorems about `JobConsole`: the registry | TLAPS |
| `ConsolePageProofs` | theorems about `JobConsole`: the page, the types | TLAPS |

### RunLoop

One action per step of the loop between two calls that can fail: `ReadHead`
(`LatestBlockNumber`), `ReadCursor` (`Get` and `nextBlock`), `CaughtUp` or
`PlanBatch` (the range), `RunOnceFetch` and `RunOnceReturn` (what `RunOnce`
reads at its beginning, and its return), `SaveCursor` (`Save` and the test that
follows), `Wake` (the timer), `LeaveLoop` (`ctx.Done`). `Fail` stands for every
`return err`, and for the death of the process, at any of these points; `Cancel`
for the service's context; `Restart` for a new process, which has only the row.
`Mine` and `IndexBlock` are the chain and the indexer. Block numbers are words
of `WordSize` values (2^64 in the program) and `AddWord` wraps.

`scanned` is a history variable: the blocks a `RunOnce` that returned nil has
read. A block whose events are not in `contract_events` yet is read as empty, so
it is not counted. `lag`, fixed at the start, says how many mined blocks the
indexer of the deployment may leave out: `NoSkippedBlock` and `KeepsPromise` speak
of deployments with `lag = 0`, where a block is in `contract_events` before the node
reports it. The code states this precondition nowhere.

`Checkpoint` has a frontier and the set of scanned blocks and two steps, scan
and commit. `RunLoop` implements it with
`frontier = IF cursor = NoCursor THEN 0 ELSE cursor + 1` (`KeepsPromise`); where the
indexer may lag the mapping is constant, since nothing is promised there.

### ScanPipeline

`rows` and `legs` are indexed by `<<tx, ordinal>>`: the unique key of the
upsert, and at the same time what the SHA-1 `interaction_id` is made of. A row
keeps the protocol and the verdict, a set of legs only whose legs they are.
What an extractor finds (`Detects`), which interactions have no legs
(`Legless`), which the verifier rejects before it reads the legs (`Rejected`:
failed transaction, empty swap data) and which verdicts it may reach on its own
legs (`Judge`: several when the trace may be unavailable) are constants; on legs
of another protocol any verdict is possible, since events are matched by token
and amount. Every database call is an action, `Fail` may come at each, and a
failed upsert may have written any part of its rows.

The code goes through interactions in the order of the extractor and through
transactions in the order of the interactions; the model takes any order, which
only adds behaviours. `FetchRange` depends on the events of the range, which do
not change: it stores every transaction of `Txs`, one at a time. The program
stores transactions as they are on the chain, so storing one again changes
nothing (a reorganisation of the chain is not modelled; the code does not handle
one, and `docs/flash-loan-pattern-discussion.md:2968` says so).

### Detection

The same `RunOnce` seen from inside one transaction. A transaction is a record
of what the chain and `contract_events` hold of it: receipt status, address
called, decoded call, events in order, call frames. Its interactions are
`Candidates` (`Extract` of the three extractors: the call to an official address,
and for Balancer, failing that, the events of official vaults grouped by vault
and recipient). `EventVerdict` is `Verify` of the verifiers on events,
`TraceVerdict` what the trace verifiers make of it with a trace. Both are
operators of a candidate and its stored legs, which is what lets the proofs speak
of them apart from any state.

The actions are the steps of a scan between which the tables or the node differ:
`Start` (a new runner, whose cache is empty), `ExtractFails` and `NothingFound`
or `StoreCandidates` (clears the verdicts, replaces the legs), `VerifyEvents`,
then with `TraceEnabled` one of `TraceCached`, `TraceAnswered`,
`TraceUnavailable` (the verdict on events stands) and `TraceFails`, and `Save`,
which writes the result and the legs unless they are nil. The statements between
two verdicts are one step here; `ScanPipeline` takes them apart.

Left out: fees, amounts in, `settlement_mode` (follows from the debt), the notes
but for what they tell of the trace (`traced`: a trace is behind the verdict), the
rows of `transaction_traces` (the verifiers do not read them), decoding of words
(an event or call is decoded or is not there). A row is keyed by its ordinal.

`VerdictIsRight` bounds a verdict from above for every answer of the node: nothing is
verified in a transaction that failed, and nothing strict that opened debt. It bounds
it from below but for two cases. A node that answers `null` gives an empty frame, in
which no callback is found; nothing says what such an answer means. And a Balancer
verdict that stands on events alone is strict in the code and should be none at all
by `docs/flash-loan-pattern-discussion.md:1003-1009`; `EventOnlyIsCandidate` says what
the document asks of a loan that only its event shows (lines 951-963). The code does not
keep it, TLC finds the counterexample (see Runs), and it has no run in `PROJECT.json`.
(For a call of the vault the same document has the event-backed verdict as a stage of
the implementation, so the property is about loans without one.)

An Aave loan has a look-alike when its provider emits a second event for the same
receiver, asset and amount in another mode: `findMatchingAaveEvent` takes the first.
`DebtIsNeverStrict` says what lines 684-689 and 1618-1620 ask, for the modes of the
call, and `DetectionLookAlike` finds it violated: the inner loan of a callback emits
its event first, and lends its mode to the outer one. `VerdictIsRight` leaves such
loans out, and `StrictIsBacked` asks of them for an event only; of all other Aave
loans that are strict it asks that no leg was called with debt and that no event
about a leg tells of any.

Neither says anything of an Aave loan without assets (nothing to match).
`EventsCovered` speaks of transactions that do not call the vault: a call to it
hides the other loan events, which the extractor then does not look at. In a
trace the payout of the loan itself satisfies the repayment path
(`hasAaveRepaymentPath` and its sisters ask for any transfer of the asset), so no
real trace of a loan that paid out lacks one: the branch is modelled but only an
empty leg list or a frame set that no chain produces takes it.

### JobConsole

A `Record…` or `Mark…` is one action for the part under the mutex, which leaves
its events in the `outbox` of the calling goroutine; `TakeSubscribers` and
`SendEvent` are the two halves of `broadcast`, between which the channel may be
closed (`panicked`: nobody recovers, the process ends). The goroutine goes on
when its outbox is empty. `HandleScan` is split where another goroutine can see
a difference: `CreateJob`, `Subscribe`, `ReplaceSubscription`, `MarkJobStarted`,
`SpawnJob`. `Forward` takes an event from the buffer and the page applies it
(`ApplyMessage` is the reducer of the page's store). Every action needs `Alive`:
once the process has panicked nothing moves. Each job has one
subscriber, the page that created it, so channels are named by jobs.

Kept of the data: statuses, which protocols, `FoundCandidates` and its total,
how many findings per protocol. Left out: other counters, blocks, texts, times,
the log and its limit of entries.

### TransactionPage, with TraceTree and FundFlow

`TraceTree` and `FundFlow` are the pure algorithms. A trace is a function from
paths (child indexes from the root) to frames; `Flatten` numbers them as
`flattenTraceFrames` does, with ids spelled digit by digit, because the code
compares ids as strings (`collectSubtreeFrameIDs`, the ties of
`sortFundFlowsByTrace`). Amounts are sequences of digits for the same reason:
`AddDecimalStrings` is the addition the code writes out. `KeySegments` is
`extractKeyExecutionSegments` with its side effects: the search carries the
adjacency map, whose slices `walkBranch` sorts in place while its callers range
over them, the frames seen, and the calls of `walkBranch` under way, each with its
place in its slice and its `branchCount`. A step of it (`Step`) enters a call (`Enter`)
or takes the last one on by one candidate (`Loop`); `MaxSteps` are enough, because a
frame is marked once and its call goes through one slice, so no definition is
recursive and the search can be proved about. Titles, labels and sublabels are left
out.

`TransactionPage` runs them. A scan takes the steps of `ScanPipeline` seen from one
transaction: rows, then the legs of one interaction after the other, then for each
interaction its verification, its verdict and its legs, and the aggregation over the
rows of all protocols. What the events and a whole trace say is left open
(`VerdictsOn`), but not how they go together: events that do not match leave nothing,
debt is never strict, a trace only lowers, a null one has no callback, and where the
events match the legs are written as verified even when the trace has taken the
verdict back (`RewriteLegs`, `aave_v3_trace.go:82-87`). `Verify` also has what
`CachedProvider` and `PersistingProvider` do with the answer of the node. Rows and
legs are kept by place: `interaction_id` and the key of a row are made of chain,
transaction and ordinal, not of the protocol. So `scans` of a transaction says which
loan each scan finds at each place: a rescan may find the same or more, and a scan
of another protocol a loan of its own under an ordinal that is taken, whose row it
overwrites.

Scans take turns in this module. Two runners that write at once are the subject of
`ScanPipeline`, and what they leave on a page is the tables they leave there.

The request's actions are the reads of `LoadReports` and `GetTransactionDetail` in
their order, each of which may fail. The response is computed in the last one
(`Show`). `found`, `had` and `since` are history variables of the request: the trace
stored when it came, the places that had legs, and the number of scans begun by
then, if none was running.

What the properties do not say. A page may show an interaction without legs: rows are
stored before their legs, so once the transaction has a summary, an interaction that
a rescan or another protocol has just found is shown bare for a moment, and for good
when the scan fails there. `PageHoldsTogether` asks for legs where there were some
when the page was asked for, though a scan replaces them meanwhile, and for a trace
where one was stored. A page read during a scan may mix old and new rows, and legs of
the loan that had the ordinal before; only of a page read between two scans, none
having failed, the property asks that each interaction has its own legs, that
conclusion, counts and premiums agree with the interactions, and that the legs of a
strict one are counted as strict. That others are counted too (those of an interaction
that its trace has taken back) is in the model and forbidden by nothing.
`FlowsInCallOrder` compares frames less than ten
calls deep, since `CallIndex*10 + Depth` places a frame deeper than that after
some that follow it. In the segments of a lane amounts are compared as
`compactRawAmount` shortens them; that the sum is right is said of the sum itself.
`dedupeFundFlowSegments` takes two transfers
with the same ends, action and asset for one, whatever their amounts; no
property forbids that. `FlowsOf` falls back on all flows of the transaction when
none is evidence of the interaction, so a lane may show transfers of another
loan; `ExecutionReached` says only that they start at its receiver.

### ScannerProcess

One module for both programs that `lifecycleCmd` runs, because they share the
setup, the contexts and the seeding; `boot` says which one it is, and in which
mode. `Open` is `NewDB` with its attempts, `Dial`, then for the service seeding and
the registry, then `Start`. `SeedAddresses` and `SeedPairs` are the upserts, any
part of which may be written when one fails; `CheckSeeded` and `MarkSeeded` are
the two critical sections of `ensureProtocolSeeded`; `ListAddresses` and
`ListPairs` the two reads of `NewMemoryRegistryFromDB`, between which others may
write. In the console a goroutine of each protocol of a job takes these steps,
in the service the main goroutine. `RunEnds`, `TellDone` and `Shutdown` are the
goroutine `Start` starts; `BeginStop`, `StopWaited` or `StopForced`, `Close` and
`Finish` the rest of `lifecycleCmd`.

A context is the cause it was cancelled for. The two goroutines that block on
interrupts are `watchers`: each starts to listen at some time of its own and
stops at its first signal, so that a signal between the two is lost, as it is
in the program (`Interrupt` needs a watcher; a lost signal changes nothing).
`Kill` and `Boot` are the end of a process by the system and the next process;
`OthersSeed` is anybody else's seeding.

Left out: delays of the retry, the content of errors, `normalizeRunMode`'s
spelling of modes. A run is one step, `RunEnds`, with the result it has: its
inside is `RunLoop` and `ScanPipeline`. A websocket may start a job until the
process exits, also after `Shutdown`, which does not wait for it.

## Runs

`tlc -workers 2 -config X.cfg M`; `ConsoleLive` and `ProcessEnds` take up to two
minutes, `ConsoleSafe` and `PageShows` one, the others less.

| Run | Module | What it shows |
|---|---|---|
| `RunLoop` | `RunLoop` | an indexer that keeps up: `NoSkippedBlock`, `ReworkBounded`, refinement of `Checkpoint`; a late one too: the row stays behind the head, moves forward, and covers every block in the end |
| `PipelineApart` | `MCScanPipeline` | two protocols on different transactions, two scans each, two failures |
| `PipelineShared` | `MCScanPipeline` | **violates** `InteractionsRecordedSeparately`: two protocols share a key |
| `PipelineRace` | `MCScanPipeline` | **violates** `SummariesSettle`: read, then overwrite |
| `DetectionRules` | `MCDetection` | the verdicts of every small transaction, scanned twice, with and without traces |
| `DetectionLookAlike` | `MCDetection` | **violates** `DebtIsNeverStrict`: the event of an inner loan judges the outer one |
| `ConsoleSafe` | `MCJobConsole` | two pages, one may close, two jobs, a buffer of one |
| `ConsoleProtocols` | `MCJobConsole` | two protocols reporting at once |
| `ConsoleLive` | `MCJobConsole` | every job ends, every page that stays sees an end |
| `ConsolePanic` | `MCJobConsole` | **violates** `JobsEnd`: send on a closed channel |
| `PageShows` | `MCTransactionPage` | the page of every small transaction, read while scans write |
| `ProcessEnds` | `MCScannerProcess` | setup, run, signals and exit of two processes, with seeding around them |

The violations are disagreements between the code and what its documents say;
`PROJECT.json` quotes both under `findings`. What the passing runs and the
theorems state is what holds with the precondition that excludes them: batches
of two or more, no id shared between protocols, no transaction shared between
runners, no Aave loan with a look-alike, no Balancer verdict on events alone, a
buffer that does not overflow, no second job on the same page while the first still
broadcasts. Three of these have no run of their own; to see them, take
`RunLoop.cfg` with `BatchSize = 1` (a cursor of 0 reads as nothing scanned, so
`CatchesUp` fails: block 0 is scanned for ever), `ConsoleLive.cfg` with
`Buffer = 1` (`job_completed` is dropped, so `PageShowsEnd` fails), or
`DetectionLookAlike.cfg` with `INVARIANT EventOnlyIsCandidate` (a Balancer loan of a
contract, without a trace, is strict on the vault's event alone).

### Bounds

* `RunLoop`: seven blocks and batches of two give a first batch from block 0,
  full batches, a last short one, and a wait for the head; the node's lag of one
  makes it answer behind the row. Two failures give an error during the rework
  of an earlier one. `WordSize = MaxHead + BatchSize` is the smallest word in
  which no sum wraps. A behaviour has an indexer that keeps up with the chain
  (`lag = 0`) or one that may be a block late, which costs `NoSkippedBlock` and
  the promise of `Checkpoint` and nothing else.
* `ScanPipeline`: an Aave runner with a plain and a debt-opening interaction (one
  of them rejected in `PipelineApart`), a Balancer runner with two interactions
  in one transaction, one of them without legs. Two scans per runner and two
  failures give a rescan over what a failed scan left, and a rescan over what a
  complete one left. More runners or transactions only repeat these; the theorems
  hold for any number. Two processes that scan the same protocol have no run:
  `FindingsReported` and `NothingIsInvented` are proved for any runners, these
  included.
* `Detection`: transactions of one, two or three loans: called directly or
  through a router, nested, reverted, with arguments that cannot be unpacked, with
  an inner loan that failed; official and unofficial providers, two receivers, two
  assets, two amounts, modes 0 and 2, swaps with and without data. Two amounts and
  two receivers are the least that make events mismatch, three loans the least
  that make two groups of vault events interleave. Two scans make a rescan over
  stored verdicts, one error a scan that stops half way.
* `JobConsole`: two pages are needed for a refused job, two jobs of one page for
  a replaced subscription (`MayRepeat`), a buffer of one for drops in
  `ConsoleSafe`. The passing runs about what a page shows use a buffer that
  cannot fill (20 or 40, more than the events of a job) and one job per page,
  because a dropped event is never sent again and a second job is what
  `ConsolePanic` is about. One finding, in the first job, makes its counters
  differ from one event to the next.
* `TransactionPage`: every transaction of one loan whose callback makes up to two
  token calls (`MaxCalls`), side by side or one inside the other, out of twelve:
  transfers out and back, reverted, cut short, of debt, to the zero address, from
  the sender, with the amount owed. Two calls make a branch of two hops and a
  transfer that could be drawn twice. Longer ones are added by hand: a detour
  with more branches than the search follows, calls ten deep, eleven side by side
  (ids of two digits). Three have two scans, so that the page meets the second with
  the tables of the first: `TwoLegs` the same loan again, with a leg of debt, `TwoLoans`
  one loan more, `Crossed` a loan of another protocol under the ordinal of the first.
  One request suffices because a request keeps
  nothing; one failure is a failed read, a failed write or a scan that stops.
* `ScannerProcess`: two protocols, one with two addresses, so that an upsert may be
  partial, one with a pair, so that seeding is two upserts; two attempts to
  connect, a first and a last; two jobs, so that the second finds the flag of the
  first; a failed call per process; two processes, so that the second finds what
  the first has left. The theorems hold for any of these numbers.

`CHECK_DEADLOCK FALSE` stands in the runs whose system may stop: after the
bounded number of scans or jobs nothing is left to do (`Detection*` too). `RunLoop` never stops and
is checked for deadlock.

### Fairness

* `RunLoop`: weak fairness of the loop as a whole (the goroutine is scheduled,
  its calls return or fail, the timer fires) and of `Restart` (a supervisor).
  Nothing is asked of the chain, of the indexer or of the user, and failures are
  bounded, because a program that fails every time never catches up.
* `ScanPipeline` and `Detection` are checked for safety only and have none.
* `JobConsole`: weak fairness per handler, per job and per forwarder, each a
  goroutine the Go scheduler runs when it can. Within a job the fairness is of
  the job as a whole: with a finite number of reports that suffices. No user is
  asked to do anything.
* `TransactionPage` is checked for safety only and has none.
* `ScannerProcess`: weak fairness of the main goroutine, of the seeding of each
  protocol, of `TellDone` and `Shutdown`, and of `RequestEnds`, because calls to
  the database and the node return and the scheduler runs every goroutine; of
  `RunEnds` only where the run has a reason to end (`RunReturns`: a single run, or
  a loop whose context is cancelled). None of signals, of the watchers, of jobs
  or of other processes.

## Proofs

`tlapm M.tla` for the eight modules `*Proofs`. The constants obey only
`RunLoopAssumption`, `PipelineAssumption`, `DetectionAssumption`,
`ConsoleAssumption`, `ConfigAssumption` and `PageAssumption`; a theorem that needs
more has it as a hypothesis of its own, in its statement.

**RunLoop.** `TypeCorrect` needs that a sum of two words is a word. The batch
invariant ties `from`, `to` and `latest` to the row while a batch is under way
(`BatchInvariant`: the batch begins at the frontier, or at block 0 again, and is
no longer than `BatchSize`). `BoundedRework`, `RowBehindHead` and `RowMovesForward`
follow from it, wherever the indexer is. `NothingSkipped`
needs the stronger `CoverInvariant`: besides the frontier, the blocks of the
batch are in `fetched` before `RunOnce` returns and in `scanned` after; it holds
where `lag = 0` and `NoWrap`. `RunLoopKeepsPromise` maps `RunOnceReturn` to
`Scan`, `SaveCursor` to `Commit`, everything else to a stutter, and uses both
invariants to show that a save moves the frontier over scanned blocks, forward.

**ScanPipeline.** `FindingsReported` holds without any hypothesis: what a runner
still has to aggregate, has in hand or has reported is always the transactions
it found something in (`ReportInv`), and no other runner can take a row away
(`RowsStay`). `NothingIsInvented` needs that no two protocols share an id: then
the legs stored under an id are its own (`LegsAreOwn`), so a strict row, a strict
summary in hand and a strict summary stored all come from a verdict on own legs
(`StrictInv`). `VerdictsAreEarned` and `SummariesFollowRows` need that no two
runners share a transaction: then what a runner has verified stays verified
until it returns, whatever the others do (`VerdictInv`, `SummaryInv`).
`InteractionsAreSeparate` needs only `OneProtocolPerId` (the precondition that
`PipelineShared` shows to be necessary): runners may share every transaction, since
all who write a row under an id write the same label.

**Detection.** The transactions are arbitrary here: any log, any frames, not only
those a chain produces. `OrdinalsDistinct` comes first: no two interactions of a
transaction have the same ordinal, since the first events of two groups are
separated by the number of leaders before them (`BeforeSeparates`, an argument on
cardinalities of finite sets). `EventVerdictSound` and `TraceVerdictSound` say of
the two operators what `Sound` collects: legs as extracted, verdict and flags
coherent, strict backed by events of an official provider. `IInv` says that every
row, and the verdict in hand, is `Sound` for the interaction of its ordinal, and
that the interactions still to do have rows and legs with no mark on them; the
last is needed because a verifier reads the legs back from the table, where a
former scan may have left marked ones. `AtTrace` (only a verified result waits for
a trace) gives `TracesOnlyLower`, `Asked` gives `NodeAlwaysAskedOnce`.

`EventsAlwaysCovered` needs the converse of `OrdinalsDistinct`: the ordinals have no
gap, because among the first events of the groups every number of leaders before
is taken (`RanksFill`). `StrictAlwaysBacked` uses that, where a loan has no look-alike, the first event found for
a leg has the mode of the call (`BackedWithoutDebt`). `VerdictsAlwaysRight` is about transactions that a chain can
hold: `Genuine` says that each interaction with legs of a transaction that succeeded
went through (`WentThrough`: the events of its legs are in the log, the callback and
the repayment are in the frames). It is the hypothesis of the theorem; TLC evaluates
`GenuineAssumption` of `MCDetection`, so every transaction of the run satisfies it.
From it each of the six verifiers is shown to reach the verdict the transaction
deserves (`Right`), or no more than that where the node has answered `null` (`Modest`),
whatever marks an earlier scan has left on the stored legs. `DetectionAssumption`
asks of a transaction that its log is finite, its legs are numbered from 1, and
those of a Balancer loan have no mode, as its ABI has none.

**JobConsole.** One invariant, `IInv`, gives the three theorems about the registry. That one job is
active at most, that its end is accounted for and that nothing changes it
afterwards all depend on where its goroutines are, so `JobOK` ties the job to
them: its status follows the goroutine of the job (`MainOK`), the status of each
protocol the goroutine of that protocol, whose count is the number of findings
(`WorkerOK`), a protocol works only while its job waits, and the total is the sum
of the counters once a protocol has completed. `Unborn` says that nothing runs
for a job that is not created yet, so that a new one starts clean. A step of one
job keeps the others (`JobStepKeeps`), a report needs to look at one protocol
only (`ReportKeeps`), and every step leaves ended jobs alone (`TerminalKept`),
from which `EndsAreFinal` follows. `RegistryType` counts the requests not yet
read, which is why `MaxJobs`, a bound of the model, is never exceeded.

`PagesShowTheirJobs` says that a page shows what the registry has once everything
is delivered. It is no invariant by itself: a copy of the job, taken under the mutex,
may reach the channel after a later one. What saves the page is that each part of
its view is written by one goroutine only while it can still change, and that the
last copy comes last. The invariant follows the events on their way from `outbox`
through `queue` to `view`: `Mail` says whose events an outbox may hold; `PagesOK`
that a page has one job at most and that its handler is where the subscription
says (`Connected`); `FindingsDue` that the findings of the registry are those the
page counts, those in the buffer and those in the outbox of their protocol, taken
together; `EndDue` that once a job has ended its last overview is still to be
broadcast, or in the buffer with nothing after it that changes the page, or on the
page. The hypotheses are those of the property:
`MayRepeat = {}`, and `[]HasRoom`, that a channel always has room for one event more
(a full buffer drops it, `JobManager.broadcast`).

`TypeCorrect` comes last because its ranges are consequences: a counter stays
below `MaxFindings` because no counter passes the total of its job
(`TotalOfNumbers`), and the registry's total does not pass what the protocols have
left to find; a buffer holds only events that `Mail` allows. The total is a fold
over the protocols of a job, so `TotalOfNumbers` is an induction, written with the
least-element principle (`Least`): of the sets for which the fold goes wrong one would
have the fewest elements. It needs `Protocols` to be finite, as a configured list is.

**TransactionPage.** A request reads four tables one by one while a scan rewrites
them, so the proof of `PagesHoldTogether` is about what survives between two reads.
`HaveLegs`: legs are those of a row, and a replacement never takes them away, whoever's
they were; so what a request found when it came it finds when it reads. `HaveTrace`: a
stored trace stays stored, so a request that asks the node had none when it came.
`Progress`: as long as nothing has failed, every place that the scan has not still to
verify is in order (`Agrees`: it has its own legs, verified ones where the verdict says so,
and a strict verdict is on legs without debt), and every one whose legs it has replaced
has its own (`HasOwn`); this is where an ordinal changes hands, from the upsert, which puts
the place among those to do, to the legs. A place keeps being in order because the
interactions that the scan has not found are not touched (`AgreesStays`) and because
verification knows of debt what the events say of it, on extracted and on verified legs
alike (`LegsKeepDebt`). `Settled`: between two scans, if nothing failed, the aggregated row
is what the rows give. `ReadsThem`: a request with `since = scans` has met no step of a
scan, so what it has read is what the tables hold. `PageIsRead` and `Reading` tie the page
to the request. What is drawn from a trace (`SummaryOf`, `Graph`) is opaque in that proof:
only the status of the summary matters.

`EvidenceIsAlwaysTheCallback` is the opposite: the steps matter little, as every page
is made by one of them from one trace, and the work is in `TraceTree`. The code marks as
evidence what `collectSubtreeFrameIDs` finds by comparing ids as strings, and the
property asks for the frames that were called, step by step, from a callback. That
the two agree for every trace (`SubtreeIsBelow`) takes four facts. Two frames have
two ids (`IdsDiffer`), since the digits of two numbers differ (`DigitsDiffer`) and no
digit is the dot. An id with a dot begins another one exactly where its path is above
(`PrefixIsBelow`): this is why the code appends the dot, without which `trace-root.1` would
begin `trace-root.10`. The walk numbers each frame once (`WalkVisitsAll`). And no frame is
deeper than there are frames (`DepthBounded`), so following the calls that many times
reaches all that is below. `IsTrace`, asked of every trace by `PageAssumption`, says
that the paths of a trace are those of a finite tree: with a path its parent and the
children left of it. Each of these facts is an induction over numbers, digits, paths
or the walk. The library's induction theorems cannot be used with this prover, so
`CourseOfValues` states the least-element principle for sets, and `Recursion` derives
from it, once, what a recursive function on the numbers is equal to.

`FlowsAlwaysInCallOrder` is of the same kind. No two flows are of one frame
(`FlowsOfFrames`), the order of ids as strings is strict and total (`IdsOrdered`: two
ids part at a first character), so `FlowBefore` is a strict total order of the
flows, the numbers of flows ahead of each are all different and fill every place
(`PlacesFill`), and `InTraceOrder` puts each flow in one place (`FlowsSorted`). Less than ten
calls deep, `CallIndex*10 + Depth` cannot order two frames against their call indexes.
`Deep` of `MCTransactionPage` is a transaction where it does, deeper down.

`ExecutionAlwaysReached` and `TransfersAlwaysDrawnOnce` are about what is drawn from the
flows. `Built` ties the page to a graph of its trace and of the legs it has read, and
`LanesAreDrawn` each lane to the search that drew it or to the tables.
The search is an induction over its steps (`SearchKeeps`). Its invariant, `Searching`, is
what survives the sorting of the shared slices: whichever order they are in, a slice
holds flows that leave its address (`NearestSorts`, `InOrderSorts`: a sort keeps the
members); the calls under way form a way from a seed to the last flow, each leaving
where the one before arrived, none of them at an end (`Way`); and every marked flow was
walked to along marked flows (`Walked`). After it, each branch must still be there once
`Dedupe` has thrown segments away, and it is, because what is thrown away has
the ends of one that is kept (`SameKeysSameEnds`, `ReachedIs`). For the second theorem each
drawn branch and top-up is mapped to a flow of the trace: a frame is marked once
(`SearchKeeps`), the top-ups leave the marked frames out (`TopUpsAreCandidates`), two
flows have two frames (`FlowsOfFrames`), and of segments that look the same one is
drawn (`DedupeKeeps`), so that there are no more of them than transfers (`DrawnTransfers`).

`LanesAlwaysTell` compares digits with numbers, for amounts of any length. `Values` is what
the first digits of an amount stand for. `addDecimalStrings` adds from the right, so
`AdditionIs` goes over the columns from the right: what the columns done so far say,
with the carry in front, is the sum of what the two amounts say there (`ColumnIs`,
`WithoutIs`). `NothingIsZero` (a normalized amount is nothing exactly when it is "0") and
`AddAmountIs` (a missing or unreadable amount adds nothing) give `ExpectedIsOwed`: what
`sumRawAmounts` writes for a leg is what it owes. `LegTold` says the rest of one lane:
the loan first, the repayment last, a node for each end, and no repayment where
nothing is owed. The legs without a lane and the lanes without a repayment are left out on
both sides; `KeptTogether`, an induction over the legs, says that what is kept stays in step,
so that the n-th lane with a repayment is the one of the n-th leg that owes something.

**ScannerProcess.** `IInv` is `TypeOK`, `SeedInv` and `ProcessInv`. `SeedInv` follows
a protocol from one stage to the next: what it has passed is in the tables
(`addresses` after `addresses`, `pairs` after `pairs`), what the flag says is in
the tables too, and what it has read back contains its configuration; since rows
are only added, no other goroutine or process disturbs it, and `RegistryCovers`
is its last stage. `ProcessInv` ties the main goroutine to everything else:
`HandlesOK` says at which `pc` a handle is open, and that one that is closed
early had a forced stop; `WorkersOK` who may seed; `RunOK` which result may come
with which cause; `StopOK` what `stopErr` stands for; `ExitOK` what an exit status
needs. `StatusTold` needs the last three because the result of a run reaches the
status through the channel, or not at all when the stop was forced.
`HandlesClosedInTurn` needs `HandlesOK`. An action is
looked at twice, for `SeedInv` (`SeedStep`) and for `ProcessInv` (`ProcessStep`),
with the facts about types proved once (`TypeStep`).

TLC has checked each of these invariants before it was proved.

**Model-checked only.** Liveness (`CatchesUp`, `JobsEnd`, `PageShowsEnd`,
`EndsWhenAsked`), which is beyond this prover. Every invariant and action property of
the passing runs is stated by a theorem.

## Not modelled

* The other queries of the HTTP API (lists, the summary of a chain, results of a
  job), which are single reads, and the report command, which formats them.
* The pages of the frontend other than the scan store: rendering.
* Configuration, command line, serializers, fixtures, table creation: parsing and
  wiring.
* Delays: of the retry (`database/db.go:59` gives it bounds of 1000 and
  20000 without a unit, which are nanoseconds, so that the ten attempts follow
  each other at once), of the loop.
* Reorganisations of the chain, which the code does not handle.
* `StartJob` of the bridge, which the server does not call, and `AggregateRange`,
  which nothing calls.

## Plan

Done: 1. `Checkpoint`, `RunLoop` and their proofs; 2. `ScanPipeline` and its
proofs; 3. `JobConsole` and its proofs; 4. `Detection` and its proofs; 5.
`TraceTree`, `FundFlow` and `TransactionPage`; 6. `ScannerProcess` and its proofs;
7. the verdicts of `Detection`, the page and the types of `JobConsole`, the page
of `TransactionPage`, its evidence, the order of its flows and the branches,
transfers, loans and repayments of its lanes as theorems.

What would come next:

8. A composition of `Detection` with `ScanPipeline`: `Detects`, `Legless`,
   `Rejected` and `Judge` become what `Candidates` and the verdicts give, so that
   the shared key of `PipelineShared` is derived from two extractors.
9. A composition of `RunLoop` with `ScanPipeline`: the batch is a real `RunOnce`
   and the frontier covers rows that are complete.
10. A run of its own for `EventOnlyIsCandidate`.
