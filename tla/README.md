# Algoridang in TLA+

A verification project for the Algoridang stock-strategy service: TLA+ modules
translated from the source, TLC configurations that check them on small
instances, and proofs that TLAPS checks for every value of the constants.

- [1. The system](#1-the-system)
- [2. Modules](#2-modules)
- [3. The backtest pipeline](#3-the-backtest-pipeline)
- [4. The mini backtest](#4-the-mini-backtest)
- [5. Loading prices and listings](#5-loading-prices-and-listings)
- [6. Requests to the business server](#6-requests-to-the-business-server)
- [7. The strategy page](#7-the-strategy-page)
- [8. Copies in the client and on the server](#8-copies-in-the-client-and-on-the-server)
- [9. Runs and bounds](#9-runs-and-bounds)
- [10. Fairness](#10-fairness)
- [11. Proofs](#11-proofs)
- [12. Disagreements between code and documents](#12-disagreements-between-code-and-documents)
- [13. What is not modelled](#13-what-is-not-modelled)
- [14. Plan](#14-plan)

## 1. The system

Three programs share one PostgreSQL database.

| part | source | state it keeps | operations | hard behaviour |
|---|---|---|---|---|
| Strategy service (NestJS) | `nest/src/strategy/` | `member_strategy`, `invest_profit_info`, hash tags | create, fork, update, soft and hard delete, feeds, search | no transaction around the calls of one request; `save` writes back entities read earlier |
| Trading service | `nest/src/trading/` | `universal`, `base_trading_strategy` | add, batch add, delete, look up | a row is inserted bare and completed by a second call |
| Backtest queue client | `nest/src/backtest/flask.service.ts` | none | push a backtest, mini backtest, quant selection | 15 s timeout against a request that was accepted; pushes whose result nobody awaits |
| Midnight jobs | `nest/src/common/service/cron.service.ts` | the list in a loop | retry backtests without a status, warm the price cache | one failure ends the loop; strategies read long before they are pushed |
| Hash tags | `nest/src/strategy/strategy-hash.service.ts` | `hash`, `hash_list` | look up or insert each tag of a strategy, pair it | parts that run at once and go on behind the answer |
| Feeds and search | `strategy.service.ts`, `backtest.service.ts` | none | pages of new and most viewed strategies, search by ticker, by profit | two queries, or a page at a time, beside writers |
| Member and login | `nest/src/member/`, `nest/src/auth/` | `member_info`, follow lists | register, log in, update | check, then insert; `save` that selects again |
| Upload | `nest/src/upload/` | the object store, `uploaded_object` | store a picture, then its row | two stores, names by the millisecond |
| HTTP cache | `nest/src/common/interceptor/` | Redis, by URL and body | serve and fill | answers older than the data they hide |
| Data server routes (Flask) | `python/route/`, `python/app.py` | class attributes shared by threads | accept a backtest, mini backtest, load prices, quant selection | threads share strategy parameters |
| Backtest queue and workers (Celery) | `python/pycelery/processor.py` | the queue; one task per process | take, run, return | a process dies with a task it acknowledged |
| Portfolio backtest | `python/backtesting/BacktestMultiPort.py`, `Backtest.py`, `BarAnalysis.py` | nine result tables, `status_code` | one run: read settings, simulate, save table by table | every save is select-then-write; every error is printed and passed over |
| Connection pool | `python/DB/connectionPool.py` | 1 to 20 connections of a process | get, put, query | handlers that never give a connection back |
| Mini backtest and cache | `python/backtesting/BacktestMini.py`, `python/DB/RedisConnectionPool.py` | Redis, by ticker | answer from the cache or simulate | class-level parameters, shared dictionaries |
| Nightly job | `python/dailyfunction/daily.py`, `MockInvestCtrl.py` | the cache, prices, all running strategies | flush, load, refill by five threads, sweep | threads that die in the middle of their share |
| Trading strategies | `python/backtesting/Strategies/` | position, pending order, flags | one step per bar | orders against positions |
| Quant selection, stock prices | `python/QuantStrategy/`, `python/openAPI/`, `python/financial/` | `financial_statement`, `corporation`, `daily_stock` | SQL from a formula; crawl and insert | overlapping loads |
| Strategy page (React) | `react/src/components/inspector/`, `components/dashboard/`, `states/common/recoil/dashBoard/` | Recoil atoms: list of tickers, open panel, filters, the strategy shown; state local to panels | search, add, delete, set techniques, select by filters, save, make again | timers and answers that come after the list has changed; a sequence of requests that stops half way |
| Queries and pages (React) | `react/src/states/*/query/`, `pages/`, `components/Router.tsx` | one copy per query key, the token | visit, read, retry, invalidate, sign in and out, fork, change, delete | copies of copies: react-query in front of Redis in front of the database |

How they interact: the client saves a strategy by a sequence of requests to the
business server (create the strategy, add its universe, push a backtest). The
business server writes the shared database and posts the strategy's code to
the data server, which puts a Celery task on a queue. A worker process runs it
and writes the results, one table after another, straight into the shared
database, where the business server reads them. `status_code` of
`member_strategy` is the only signal from the worker back to the user.

What makes each part correct: a user's granted request is not undone by
anybody else; the result tables hold one coherent result per strategy; an
accepted backtest is run once and ends; the status says what happened; a
process does not lose its connections; a cached figure is the figure of the
question asked; what an answer says was written is in the tables; what the page
shows, sends and deletes is what the user sees and clicked; a copy is no older
than its layers allow.

## 2. Modules

| module | models | role |
|---|---|---|
| `BacktestPipeline` | strategy service, trading service, queue client, retry job, Celery queue, workers, `BacktestMultiPort`, connection pool | the core: all of them composed |
| `TaskLedger` | what the queue promises | abstract specification, no code of its own |
| `PipelineLedger` | | the refinement mapping from the pipeline to the ledger |
| `MCBacktestPipeline` | | symmetry for TLC |
| `BacktestPipeline_proofs` | | type correctness, safety, action property |
| `PipelineLedger_proofs` | | the pipeline implements the ledger |
| `PipelineOutcome_proofs` | | what a run that failed, ended or never began leaves behind |
| `MiniBacktest` | mini backtest, nightly job, its route, Redis, the business server's body cache | the nightly refill beside the requests it serves |
| `MCMiniBacktest` | | strategies and symmetry for TLC |
| `MiniBacktest_proofs` | | type correctness and every safety property of `MiniBacktest` |
| `StockLoad` | the stock-loading routes, their Celery tasks, the night's own loads, `pricePykrx.py`, the status route | rows written by loads that overlap |
| `MCStockLoad` | | lists, trading days and symmetry for TLC |
| `StockLoad_proofs` | | type correctness, and that loads leave nothing out and do not collide |
| `Gateway` | middleware, guard and error interceptor of the Nest server | how a request gets in and out; faults |
| `MemberService` | registration, change, login | extends `Gateway` |
| `StrategyService` | create, add a ticker, fork, delete, hash tags | extends `Gateway` |
| `StrategyFeeds` | feeds and searches | extends `StrategyService`, whose tables it reads |
| `UploadService` | pictures | extends `Gateway` |
| `ServerWrites` | | composes the four services: any requests at once |
| `MCServerWrites` | | members, tag lists and symmetry for TLC |
| `ServerWrites_proofs` | | accounts, strategies, tags, lists and pictures, whatever requests overlap |
| `DashboardEditor` | the list of tickers, its panels, tiles, forms and timers | |
| `QuantFilter` | presets, filters and the quant request | extends `DashboardEditor`, whose list it adds to |
| `StrategySave` | "create and backtest", "make again" and what the server makes of them | extends `DashboardEditor`, whose list it saves |
| `Dashboard` | | composes editor, filters and saving |
| `MCDashboard` | | tickers, search results and a list to begin with |
| `Dashboard_proofs` | | every property of the strategy page |
| `Pages` | which page reads which query, from which URL, and leads where | tables read off the components, no state |
| `ResponseCache` | guard, cache interceptor and read handlers of the server, Redis | extends `Pages` |
| `QueryClient` | react-query as the client uses it | extends `ResponseCache` |
| `ClientReads` | the member's actions on the pages, writes and what they invalidate | composes client, server and cache |
| `MCClientReads` | | the instance for TLC |
| `ClientReads_proofs` | | what copies and answers may lack |

Operators introduced by a comment "A slip: ..." are not part of any
specification. Each is a plausible mistake in one action; putting it in the
action's place must make TLC refute the property it is paired with in
`PROJECT.json`.

## 3. The backtest pipeline

### State

`row`, `status`, `profit`, `universe`, `rows` and `report` are the shared
database: whether a strategy exists or is soft-deleted, its `status_code`, its
`invest_profit_info`, its universe, the rows of its six result tables and the
two classification columns a run updates. A result row is abstracted to the
task that inserted it and the principal its figures were last computed with:
enough to tell whether two tables belong together. One key stands for all
dates and tickers of a chart table, because every key is saved by the same
select-then-write.

`request` holds what an HTTP request of the business server has read and not
yet written back, `retry` the rest of the midnight loop. `phase` and `about`
are the Celery queue; `job`, `pc`, `amount`, `seen`, `leaked` a worker
process: its task, its place in `portBacktest`, the principal it read, the
answer of the last select, and the connections it lost.

`wanted` and `overlap` are history variables. `wanted` records what the user
was last told (principal, deletion). `overlap` records that two writers of a
strategy, runs or updates, were at work at once, or that one of them was
overtaken by a deletion or by the second half of a creation; the code has no
protection against that, so the properties below say what holds without it,
and the runs show that the proviso is needed.

### Actions

Every call to the database is an action, because neither program holds a
transaction across two. On the business server: `createMyStrategy` is
`CreateStrategy` and `CreateInvestProfitInfo`; `addUniversal` is
`AddUniversalOnly` and `UpsertTradingStrategy`; `updateMyStrategyById` is
`UpdateRead`, `UpdateSaveRow` (which writes back every column that differs,
`status_code` and `deleteAt` included: TypeORM's `save` of an entity with its
relation) and `UpdateSaveProfit`, and goes on to `pushBackTestQ`. A strategy
whose principal was not stored yet can be updated, too, as long as no principal
or fee is sent; `UpdateRaises` is how such an update ends, after the row was
saved or before, because `save` has nothing to save as the profit or would
unlink one that came in between. `pushBackTestQ` is
`CheckMyStrategy`, then `PostAccepted` or `PostRefused`. The midnight job is
`RetryScan` and one `RetryAccepted` or `RetryRaises` per strategy. A refused
or lost push is printed by its caller and forgotten; an accepted one may be
believed lost (the timeout), which for the database is the same.

In a worker, `TakeTask` acknowledges and starts a task (no `celeryconfig.py`
is in the repository, so Celery's default, early acknowledgement, is
modelled). `portBacktest` is `SetStart`, `GetPeriodInfo`, `NoPortInfo` or
`GetPortInfoFromDB`, `Simulate`, the saves of `saveDB` in the order `After`,
and `SetSuccess`; `SetError` is its bare `except`. A keyed save is
`SaveSelect` then `SaveWrite`; a column save is `SaveColumn`. Each call that
may raise has its failing twin (`...Raises`), with what its handler really
does: `SaveRaises` rolls back, writes "Error" on a second connection and lets
the next save go on; `SaveInvestProfitInfoRaises` dies of a call with an
argument short; `GetPortInfoFromDBRaises` never gives its connection back.
`WorkerCrash` and `BusinessCrash` lose what was in memory.

### Properties

- `TypeOK`: the type invariant, in six named parts.
- `LedgerSpec`: the whole pipeline implements the at-most-once `TaskLedger`;
  `OneWorkerPerTask`, which that needs, is proved and has no run.
- `SerialRows`: running a strategy's backtest again, after any failure or
  crash, never leaves two rows for one key, unless two writers overlapped. The
  daily chart, whose select never finds its row (section 13), is not meant.
- `SerialIntent`: the principal and the deletion a user was granted are what
  the database holds, unless writers overlapped.
- `SuccessIsWhole`: "Success" is shown only with keyed tables, classification
  and report that belong to one principal, without faults and overlaps; the
  daily chart has rows of that principal among its older ones.
- `StartIsExplained`: a strategy is left in "Start" only by a run without a
  universe or by a dead process.
- `LeaksNeedFaults`: a process loses one connection per database error at
  most; only the last may go to a refused insert.
- `StatusIsTheRuns` (action property): without an overlap only a run of the
  strategy changes its status.
- `LedgerFairSpec`, `NullIsRetried` (liveness): the pipeline implements the
  ledger with its fairness, so an accepted backtest is taken and ends; a live
  strategy without a status gets one.

## 4. The mini backtest

Two processes of the data server compute how one ticker did under one
strategy: the nightly job (`daily.py`) for every ticker with default settings,
into Redis; the web process (`BacktestMini.getMiniBacktest`) for a request,
from Redis when the settings are the default ones.

### State

`known`, `bars`, `loaded` are the tables `corporation` and `daily_stock`:
which tickers are listed, whether a ticker has enough bars for the strategies
(`"some"` is enough for all but those in `Slow`), and the night its prices
were last loaded. `cache` is Redis by ticker. `night`, `cron`, `list`,
`position` are the nightly job; `thread[i]` is a thread of `makeThread`: the
rest of its share of the list, the strategy it is at, whether it is clearing
the trade history, and the `totalreturn` and `res` of its current
`BacktestMini`. `cronParam` and `webParam` are the class attribute `param` of
the strategies in each process. `request` is a web thread, `front` the
business server's cache by body.

A result is abstracted to where its numbers come from: a `Figure` is a
ticker, a strategy, the settings read at the run and the night of the prices.
`rate` and `metrics` are kept apart because a simulation that is passed over
for lack of bars returns the cash it was given and leaves the metrics as they
were. An answer also records whether it came from Redis and whether another
request set the same class between its own setting and its run: the history
that `HonestAnswers` is relative to.

### Actions

`Flush`, `GetAllTickerFromDB`, `DailyCorporation`, `DailyStockData` (one
ticker), `MakeThread`, `Join`, `SearchMockInvest` follow `callDaily`.
`FlushRaises` is a flush that raises, carried out by Redis or not, and
`LoadRaises` any call between it and the threads: both end that night.
A thread does `Simulate` and `InitTradehistory` per strategy and
`SetRedisData` per ticker; `ThreadRaises` and the second outcomes of
`Simulate` (the metrics of nothing) and `InitTradehistory` (two threads pop
the last element) end it, the rest of its share with it. A web thread does
`SetParam` before it looks in Redis (`IsCacheHit`), then `GetDBData`, `Run`
(the strategy object reads the class), `ClearHistory`, `Reply`.
`RequestRaises` covers its database and Redis calls and the 60 s timeout,
`Expire` the day of `CacheTTL`.

Assumed: Flask serves requests by threads (`app.run`'s default). Setting the
two or three elements of `param` is one step, though another thread can come
between two of them; that only makes the mix that `shared` records finer.
`startTime` is folded into the settings. The sweep's own backtests are the
pipeline's; here it only leaves some settings in the classes. That an
exception in the first `callDaily`, which is called directly, ends the process
is not distinguished from the end of that night. Requests that lack a field
are answered without computing and are left out.

### Properties

- `TypeOK`.
- `CacheIsOfOneNight`: Redis never holds figures of two nights side by side,
  and tonight's only while the job is past its flush. A flush that raises leaves
  the figures of an earlier night for the day to come; no job adds to them.
- `CacheIsOfTheTicker`: nor a figure of another ticker, whatever dies on the way.
- `DefaultsUntilSweep`: the first night's figures are for the default
  settings. From the second night on nothing resets the classes, which the
  sweep may have changed; the property says exactly until when they are right.
  It is proved and has no run.
- `EveryTickerOnce`: the shares lose no ticker and repeat none. Each ticker of
  the list is in Redis, or left in exactly one thread's share.
- `HonestAnswers`: a computed answer, and its copy in front, is for what was
  asked, unless another request set the class in between.
- `NightEnds` (liveness): a night ends, whichever threads die.

## 5. Loading prices and listings

The data server fills `corporation` and `daily_stock` in three ways at once: a
request cuts the tickers into slices and queues a Celery task for each
(`routeDailyStock.py`), another queues one task for the listings, and the
nightly process does both by itself (`daily.py`). All end in the same
functions of `pricePykrx.py`: for each row select, insert if it is not there,
commit.

### State

`stored[t]` holds the committed rows of a ticker: the days with a price in
`daily_stock` and, as the member `Entry`, its row in `corporation`. A row is
its key; the figures are the exchange's. `load` is a request on the web
process, `task` a Celery task with its slice, `run` what a worker or the
nightly process is doing: its list, its place in it, the rows of the current
ticker still to do, and the row it is about to insert. A row inserted and not
committed is a run in `"commit"`. `tonight` is the list the night read before
it loaded the new listings. `leaked` counts the connections of each process
that are out for good. `today` is the calendar; `Traded[t]` the days with a
price. `task[k].shown` is the state Celery tells of a task, beside the
outcome the model knows; `run[p].began` is a history field.

### Actions

`AskPrices` is the price route up to its list of tickers, in any order, since
the query asks for none; `Push` one turn of its loop, `Answer` the 201,
`AskRaises` and `PushRaises` the ways out of it. The test of "worker" is no
guard because it can never fail; 0 divides by zero. `AskCorporations` is the
listings route: its list is read by the task when it runs, but the market's
list is a constant here, so it is put into the request at once.

A loader does `Fetch` (the exchange, then `getConn`), `Select`, `Insert`,
`Commit` per row, `Put` per ticker, `Finish`. PostgreSQL makes the second
insert of a primary key wait for the first one's transaction (`Locked`) and
raise if that committed (`InsertClashes`); nothing catches the exception, so
the rest of the list is not loaded and the connection is lost.
`FetchRaises`, `FetchExhausted` and `CallRaises` are the other ways to raise,
the commit that arrived and raised all the same included. `Crash` rolls the
transaction back, empties the list of lost connections and drops the task,
which was acknowledged when it was taken; Celery may or may not notice.
`NightBegins` and the first branch of `Finish` are `callDaily` with
`dailyCorporation` and `dailyStockData`; an exception in it ends that night.
`StatusOf` is `get_add_progress`. A result backend is assumed, since the
routes and tasks use one.

### Properties

- `TypeOK`.
- `ProgressIsKept`: a loader that has gone past a ticker has left no hole in
  the window it owes, whoever else wrote the rows or died writing them.
- `LoadIsWhole`: when every task of an answered request has returned, every
  ticker of its list has all rows asked for; the slices leave none out.
- `OneLoadNeverClashes`: a clash is always with another request or a night;
  the slices of one request have no ticker in common.
- `TasksEnd` (liveness): a queued task ends; no two loaders wait for each
  other's rows for ever, because each holds one row at a time.

## 6. Requests to the business server

The Nest server is one process; a request gives way to the others at each
awaited call. `ServerWrites` lets any two requests meet, call by call.

### State

`call[r]` is a request as the network sees it (route, member, what it is about,
status), `frame[r]` the local variables of the service that serves it. A
status may be out while the frame still has parts to do: `Promise.all` rejects
with the first part that fails and does not stop the others. `role` and
`account` are `member_info`; `strategy`, `invest`, `universal`, `hash`,
`hashList` the tables of a strategy, `pushed` the strategies whose backtest was
asked for; `object` the object store and `upload` its table. A setting, a tag,
a picture is a model value. `promised`, `overlapped`, `shared` and `crossed`
are history: what the answers say of an account, and which rows, tags or
object names two requests were at between their two calls.

### Actions

`Arrive` is the middleware and the guard, `Throw` the error interceptor.
TypeORM's `save` is `SaveSelects` and `SaveWrites`: it looks the row up by its
key, writes the columns that differ, and inserts when there is none, so the
second of two registrations that both found the address free takes over the
row of the first if its own look-up comes late, and is refused by the key if
not. The password column is not selected, so a save that was given no
password writes none. `CreateRow`, `CreateInfo`, then per tag `FindTag`,
`InsertTag`, and when all are found `PairSelect` and `PairInsert` are
`createMyStrategy`. `ForkReads`, `ForkRow`, `ForkInfo`, then per ticker
`InsertUniversal` and `FillUniversal`, then per tag `ForkTag`, then
`ForkAnswers` are `forkStrategy`; `Add` shares the ticker calls. `Browse` and
`Search` read with one query a step. Their controller is wrapped by
`HttpCacheInterceptor`, which answers a URL with what Redis keeps under it: so
`ReadPage` may read any list there has been (`past`), and `SearchKept` answers
a search with the codes of one time and the rows of that or a later one. How
old a kept answer can be is left open here, and limited in section 8.
`PutObject` and `SaveUpload` are an upload. A look-up of the member that raises
in the middleware is swallowed and makes the request anonymous, like one that
arrives without a token. `MemberRaises`, `StrategyRaises`, `TagPartRaises`, ... are the calls
that raise.

The update of a strategy is in `BacktestPipeline`, with the runs it races.
That a push reaches the data server is there, too; here it is `pushed`.

### Properties

- `TypeOK`.
- `RowIsAsAnswered`: a row of `member_info` is what the answered requests say,
  its password always, its name unless two writers overlapped.
- `RegisteredOnce`: two registrations of an address are both answered ok only
  if the second overlapped a writer.
- `ForkCopiesItsSource`: a copy holds nothing its source did not hold, and all
  of it once it is answered or pushed, whatever other requests and parts that
  outlived their answer write.
- `AnsweredIsWhole`: an answered strategy has its principal and exactly its
  tags, and no ticker without settings; a strategy without a principal belongs
  to a creation or fork not answered ok, a bare ticker to a request not
  answered ok or to a copy of such a row.
- `TagsDoubleByOverlap`: a tag has two rows only by overlapping look-ups.
- `ReadersMissNothing`: a reader sees every open strategy there was as of its
  first page, kept or not, unless one was deleted or it got a page older than
  the one before it: strategies do get lost to a second page kept from before an
  insertion. A search finds every holder that is left, as of its first query.
- `RowIsTheObject`: the last row of an object's name is about what the store
  holds, unless uploads crossed or one is half done.

## 7. The strategy page

A maker puts a strategy together on one page: panels of an inspector change a
Recoil atom, each ticker has a tile that asks for a mini backtest, and the last
panel saves it all by a sequence of requests.

### State

`selected` is the list of the atom, `ref` the identity of an item's settings
object, because React compares it. `idx`, `panel`, `tab` say what is open;
`chosen` is the set of positions to delete and `ticked` the boxes that show a
tick. `search`, `entered`, `form`, `tile`, `advice` are the local states of the
panels. `strategy`, `body`, `asked` are the quant filters and the requests under
way. `code` is the strategy the page shows, `saves` and `deletes` the runs of
the two handlers, `server` what the server made of them. Values typed into a
form are "own", "bad" or "zero", because 0 falls back to the default when shown.
`moved` and `overlapped` are history.

### Actions

A gesture is one click or entry and what React does then: `Rerender` and `Keep`
compute which panels stay mounted, which lose their state, which tiles ask
again, which form follows. `Settle` is the 100 ms debouncing of the search,
`EnterFires` the timer of Enter, which a key pressed before the search is drawn
again takes back (`TypeTerm`), `TileAnswered` and `AdviceAnswered` the
answers of mini backtests; a later answer of an older request is not taken
(the observer of react-query's mutation follows the last call). `Answered` is
the end of a quant request. `ClickCreate`, `CreateAnswered`, `AddUniversal` per
ticker, `Push` are `handleCreateStrategy`, with the values of the render the
button was clicked in; `ClickReCreate` and `DeleteAnswered` are
`handleReCreateStrategy`. `ServerRefuses`, `CreateLost`, `AddUniversalLost`,
`DeleteLost` fail: a refusal may leave the row without its principal, as
section 6 shows.

### Properties

- `DeletesOnlyTicked`, `TheListIsKept`: no ticker without a tick is taken out
  (one with a tick may stay, section 13), and nothing that comes late undoes an
  edit of the list.
- `FiguresAreOfTheirItem`: figures are of the technique,
  settings and ticker they stand beside; a tile whose ticker changed by a
  deletion keeps the old ticker's figures until it asks again (`moved`).
- `FormShowsTheSetting`: the golden cross form follows the ticker; the code
  does this for that form only, and `Refreshed` says so.
- `PresetIsItsFilters`: a request under a preset's number sends its filters.
- `SavedIsWhatWasClicked`: a pushed strategy has exactly the list of the click.
- `PageKnowsItsStrategy`: the server has a strategy the page does
  not know of, or the page one that is gone, only by overlapping clicks, a
  failed call, or an incomplete form.

## 8. Copies in the client and on the server

What a member reads passes three layers: the tables, Redis with a time to
live, and react-query's copy in the browser, which every page that reads the
same key shares.

### State

`writtenAt` is the history of the database: the time of each write. A copy is
the number of writes it has seen. `store[url]` is Redis, `call[k]` the GET of
query k, with the time its handler read (`asOf`) and how long it took.
`q[k]` is react-query's state of a key: data, the URL of its last fetch,
whether it is marked invalid, fetching, waiting to retry, in error; `quits`
says that the page that wanted it has left, which ends its retries, and `lost`
that it was marked while a fetch was under way, whose answer removes the mark.
`page`, `token`, `form`, `jump` are the member's side, `mut` the one request to
write under way, `ack[k]` the last write the client was told of that copy k
must show.

Four keys are followed: the lists, the strategy of the update page, the
member's own strategies and the profile. `Pages` knows all keys, pages and
links of the router, so that a page mounts what it really mounts.

### Actions

`Serve` and `Answer` are the guard, the cache interceptor and the handler;
`Forgets` is the look-up of the member in the middleware when it raises: the
request goes on as nobody's, a guarded one is refused and "me" answers 200 with
nothing. `Fails` is what raises after that;
`Enter` a page with its redirect (`AuthCheck`), what it mounts and what it
gives up; `Receive`, `Refused`, `WakeUp`, `Collect`, `Look` are react-query.
`Submit`, `Carry`, `Saved`, `Deleted`, `SignedUp`, `SignedIn`, `LogOut` are the
mutations and what their `onSuccess` invalidates. `Jump` is the half second
after which the page changes, whatever the answer was. `Fill` is the effect
that fills the update form.

### Properties

- `AnswersAreRecent` (action property): an answer lacks only writes younger
  than the time to live and the time its handler took.
- `OwnWritesReachTheCopies`: a settled copy of the member's own strategies
  has the member's own writes, unless
  Redis answered it or it was in flight when it was marked.
- `ProfileIsTheSessions`: a settled profile is that of the session, unless in
  flight when it changed. Where the server failed to look the member up, and
  only there, a session shows as nobody's; one that is over never shows a member.
- `FetchesEnd` (liveness): again and again no fetch is under way; retries and
  invalidations do not feed each other.

## 9. Runs and bounds

| run | instance | what it shows |
|---|---|---|
| `PipelineFaults` | 1 strategy, 2 tasks, 1 worker, 2 faults, 1 crash, pool of 2 | results stay unique per key, "Start" and lost connections are explained, whatever fails |
| `PipelineEdits` | 1 strategy, 2 tasks, 1 worker, 1 request, 2 principals | user data and results agree while runs, edits, deletions, pushes and the midnight job interleave |
| `PipelineConcurrent` | 1 strategy, 2 tasks, 2 workers | two runs at once: still at-most-once |
| `PipelineLiveness` | 1 strategy, 2 tasks, 1 worker, 1 fault | accepted backtests end, no strategy stays without a status |
| `PipelineHollowDone` | 1 strategy, 1 task, 1 worker | the first disagreement of section 12 |
| `MiniNight` | 3 tickers, one of them listed the second night, 2 strategies, 2 threads, 2 nights, 1 fault | what Redis holds after any night, the shares, and that every night ends |
| `MiniServe` | 1 ticker, 1 strategy, 2 settings, 2 requests, 1 night, 1 fault | two requests that set one class, beside a night |
| `LoadSlices` | 3 tickers, 1 request for -1 to 3 slices, 2 workers, 2 days, 1 fault, 1 crash, pool of 1 | the slices are whole and apart, with a pool that one failure empties |
| `LoadListings` | 1 of 2 tickers listed, 1 request, 1 worker, 2 nights, 2 days, a holiday, a window of the day itself, 1 fault, 1 crash | listings and prices by a task and by the night at once, and that every task ends, also beside a process that dies |
| `ServerWrites` | 2 requests of any kind, 3 addresses (an administrator signed in, a member who is not, a free one), 2 names, 2 passwords, 2 tags, up to 2 tags a strategy, 1 ticker, pages of 1, kept from any earlier time, 1 fault, 2 clock values | what each answer says is in the tables, whatever the other request did in between |
| `Dashboard` | 2 tickers, 2 techniques, 3 search terms (the empty one finds nothing), quant requests that find either ticker, 3 gestures, lists up to 3, 2 presets, 1 fault, 1 retry | timers, late answers and overlapping clicks on the strategy page |
| `ClientReads` | 4 queries, 4 pages to begin with, 2 actions, 1 write, 1 fault, 1 retry, time 0 to 1, answers kept 1 | how old a copy can be, and that fetching ends |

Bounds: `Tasks` bounds the accepted backtests (`Refusal` lets the data server
refuse for free once they are used up, so that the bound itself blocks
nothing), `MaxFaults` the database errors, `MaxCrashes` the dead processes.
One strategy is enough because no action reads two; two tasks are enough for a
run to meet what an earlier or a concurrent one left; two principals tell an
old result from a new one; a pool of two is the smallest in which a handler's
second connection can be the last. In the mini backtest `MaxNights` bounds the
nights, `MaxFaults` the calls that raise; three tickers on two threads are
the smallest list whose cut is not even, two nights are enough for a stale
figure, one strategy and two settings for two requests to collide. In the
loads `LastDay` bounds the calendar, `MaxTasks` the tasks of a request,
`MaxNights`, `MaxFaults` and `MaxCrashes` the rest; three tickers in two
slices are uneven, in three slices they leave one empty, a window of the day
itself moves off at midnight, and a pool of one makes every lost connection
the last. On the server two requests are
enough for every race of a look-up with an insert, because a request with two
equal tags races with itself, and pages of one strategy make every creation
and deletion cross a page. `Requests` are used once: with both used up the
run stops, which is why it does not check for deadlock. On the strategy page a
gesture is one click or entry; three are enough to begin in any of three
panels, change the list and use a position or a form chosen before the change;
answers and timers are free. Two items to begin with, one with settings of its
own, let a deletion move a ticker into another one's place. In `ClientReads`
the values a copy can have are the numbers of writes before it, so one write
tells old from new; one unit of time is the time to live, so an answer can
expire while another is under way; a visit, then an action, from each of the
pages where the writes are made, reach every invalidation. When its gestures
are used up the client rests, and so do the two runs before it: none of the
three has a state of the program in which nothing can happen, and none checks
deadlock. `Terminated` is the end of the bounded nights and loads, not a state
of the program. The numbers do not matter in the proofs, which hold for all of
them. Deadlock is checked in the runs of the pipeline, the mini
backtest and the loads: the business server can always act, a night only ever
waits for its threads, and an insert only for another loader's transaction.

## 10. Fairness

`Fairness` asks three things. A worker process that has a task goes on with it
and an idle one takes a queued task: the processes run by themselves and every
call they make returns or raises. The midnight job runs and goes on with its
loop: `@Cron`. A request the business server has begun goes on: the event
loop. Nothing is asked of users, and no fault or crash is obliged to happen or
to stop, other than by the bounds. `NullIsRetried` excepts the case that all
task ids are used, which is the model's bound and not the program's.

`MiniBacktest`'s `FairSpec` asks that the nightly process, once a night has
begun, goes on, and so does each thread it started: the operating system
schedules them and every call returns or raises. It asks nothing of the
schedule, of requests or of faults.

`StockLoad`'s `FairSpec` asks that a request that was begun goes on pushing, an
idle worker takes a task when there is one, and a loader goes on with its
list. Weak fairness is enough for an insert that waits: the row it waits for
is committed or rolled back in the end.

`ClientReads` asks one thing: as long as the server has a request to serve,
the client an answer to take or a pause to end, one of these happens. Node,
the network and the browser's timers see to that; a lost answer arrives as a
failure, which axios reports. Nothing is asked of the member, of time or of
other members. `ServerWrites` and `Dashboard` state safety only.

## 11. Proofs

The pipeline's theorems are about `Spec`, for any strategies, tasks, workers, requests,
principals and bounds, under `PipelineAssumption` (distinct model values, a
pool of at least one connection). `ImplementsLedger` also assumes that there
are finitely many workers, because the ledger counts them.

| theorem | statement | argument |
|---|---|---|
| `TypeCorrect` | `Spec => []TypeOK` | `TypeInv`: `TypeOK` and the queue's bookkeeping of what a worker holds |
| `OneWorker` | `Spec => []OneWorkerPerTask` | part of `TypeInv` |
| `RowsAreSerial` | `Spec => []SerialRows` | `SerialInv` |
| `IntentIsKept` | `Spec => []SerialIntent` | `SerialInv` |
| `StatusBelongsToRuns` | `Spec => StatusIsTheRuns` | a step-by-step reading under `SerialInv` |
| `LeaksAreExplained` | `Spec => []LeaksNeedFaults` | the only steps that lose a connection, `LeakSteps`, under `TypeInv` |
| `SuccessIsComplete` | `Spec => []SuccessIsWhole` | `OutcomeInv` |
| `StartIsAccounted` | `Spec => []StartIsExplained` | `OutcomeInv` |
| `ImplementsLedger` | `Spec => LedgerSpec` | initial states map to initial states, every step to a ledger step or a stutter; `TakenIsHeld`: as many tasks run as workers work |

`OneWorkerPerTask` has to be proved with the types because the type of a step
depends on it: a worker's writes are indexed by the strategy of its task.

`SerialRows` and `SerialIntent` are not inductive. That a write inserts
nothing twice depends on what the select before it found still being true
(`FreshSelect`); that it writes back the right principal, on the principal
still being the user's (`FreshAmount`); that an update undoes nothing, on its
snapshot still being the row (`FreshSnapshot`). Each of the three is
preserved only because, without an overlap, nobody else writes in between
(`OneWriter`). `SerialInv` is their conjunction, with `SeenInSave` (a select's
answer lives only inside a save). The proofs first expand every action once,
into lemmas that say which steps touch which variable `StatusSteps`, `RunsSteps`, ...), and then look only at those few.

`SuccessIsWhole` speaks of the last step of a run only, so `OutcomeInv` follows
the run there: at each step of `saveDB` every save before it has left figures
of the run's principal (`SavedSoFar`, `Behind`), what it has seen to be one row
still is (`FreshRow`), and an edit under way writes back the figures it read
(`FreshFigures`). `StartIsHeld` needs that a run which has begun shows "Start"
and still has a connection to end with (`RunIsShown`): a run that cannot write
its last status would leave "Start" behind without a failed call of its own.

For the mini backtest, for any tickers, strategies, threads, requests, nights
and faults, under `MiniAssumption` (finitely many tickers, at least one thread
and strategy) and `NoneAssumption` (the values that stand for "nothing" are
none of the data):

| theorem | statement | argument |
|---|---|---|
| `TypeCorrect` | `Spec => []TypeOK` | `TypeInv` |
| `CacheIsFresh` | `Spec => []CacheIsOfOneNight` | `CacheInv` |
| `CacheIsOwn` | `Spec => []CacheIsOfTheTicker` | `CacheInv` |
| `FirstNightIsDefault` | `Spec => []DefaultsUntilSweep` | `CacheInv` |
| `AnswersAreHonest` | `Spec => []HonestAnswers` | `HonestInv` |
| `SharesAreAPartition` | `Spec => []EveryTickerOnce` | `ShareInv`, `SharesCover`, `SharesAreApart` |

`TypeOK` alone is not inductive: a thread's ticker is one only because no
share reaches beyond the list, and a result can be stored only because a
thread at the end of the strategies has one (`SharesInList`, `Started`).
`CacheInv` follows a figure back to where it comes from: the thread's results
are about its own ticker and night (`ThreadsOwn`), because the prices of the
whole list are tonight's before a thread starts (`Loaded`); with the flush that
begins every night that gets so far, Redis has figures of no other. `HonestInv` says
of a request on its way that the class has its settings, or that somebody else
set it. `SharesAreAPartition` rests on arithmetic: a cut is at or behind
ticker k exactly when `Threads * k <= Len(list) * i` (`CutReaches`), so the
share of k is the first i that reaches it, and no other.

For the loads, for any tickers, market, trading days, requests, numbers of
slices, workers and bounds, under `LoadAssumption` (finitely many tickers, no
worker is the nightly or the web process, a pool of at least one connection)
and `NoneAssumption`:

| theorem | statement | argument |
|---|---|---|
| `TypeCorrect` | `Spec => []TypeOK` | inductive; `OneRunChanges` for the steps of a loader |
| `NothingIsSkipped` | `Spec => []ProgressIsKept` | `NoHole` |
| `LoadsAreWhole` | `Spec => []LoadIsWhole` | `NoHole`, `Orderly`, `SlicesCover` |
| `SlicesNeverClash` | `Spec => []OneLoadNeverClashes` | `Apart`, `SlicesApart` |

`ProgressIsKept` says nothing of the ticker a loader is at; `NoHole` adds that
of its window every row is stored that is not still to do. It is preserved
because rows are never taken back and the calendar never goes back (`Grows`),
so what other loaders do can only help. `Orderly` ties a request to its tasks
and a task to its worker: a queued task has its slice, a worker at it has that
slice as its list and no other worker is at the same task, and a task that
returned has left its slice whole. `SlicesCover` is arithmetic: with slices of
`n \div w + 1` the ticker at place j is in slice `(j - 1) \div (n \div w + 1)`,
which is one of the w. `SlicesApart` is the other half: an element in the i-th
slice is at a place no later than `size * (i + 1)`, one in the j-th at a later
place than `size * j`, so with i < j they differ, if the list has no ticker
twice. It has none, because it is read off a table by its key
(`OrdersNoRepeats`). `Apart` says the rest: a request that has always been
alone queues each slice once, what a worker is about to insert is stored by
nobody else (`Fresh`), and a task that clashed has company (`ClashIsForeign`).

For the business server, for any members, names, passwords, strategies, tags,
tickers, settings, files, page sizes, requests and bounds, under
`GatewayAssumption`, `MemberAssumption`, `StrategyAssumption`, `FeedAssumption`
and `UploadAssumption` (the values that stand for "nothing" are none of the
data and no route's name, there is a tag, a ticker and a setting to send, and a
page has at least one strategy):

| theorem | statement | argument |
|---|---|---|
| `RowsAreAsAnswered` | `Spec => []RowIsAsAnswered` | `MemberInv` |
| `AddressesAreRegisteredOnce` | `Spec => []RegisteredOnce` | `MemberInv` |
| `RowsAreTheObjects` | `Spec => []RowIsTheObject` | `UploadInv` |
| `ForksCopyTheirSource` | `Spec => []ForkCopiesItsSource` | `StrategyInv` |
| `WhatIsAnsweredIsWhole` | `Spec => []AnsweredIsWhole` | `StrategyInv` |
| `TagsDoubleOnlyByOverlap` | `Spec => []TagsDoubleByOverlap` | `TagsInv` |
| `TheServerIsTyped` | `Spec => []TypeOK` | `StrategyInv`, `MemberInv`, `UploadInv`, `Callers` |
| `ReadersMissNothingHere` | `Spec => []ReadersMissNothing` | `FeedInv`, `PageHolds` |

What a writer of a row will write was decided by the look-ups it made before,
so that the row is as answered is not inductive. `MemberInv` adds, for an
address no two writers ever overlapped at (`Alone`), that at most one request
is between its first call and its last, that what it remembers of the row is
the row as it is (`Knows`), and that a registration under it that was answered
ok has left a row and is the only one. `WritersOK` says what a writer
remembers whatever overlaps: no password that was not asked for, which is why
passwords survive overlaps that names do not. Steps of strategies, feeds and
pictures touch neither (`StrategyForeign`, `FeedForeign`, `UploadForeign`).
`UploadInv` says of an upload between its two calls that the store still holds
its picture unless another upload crossed it.

Nothing in the four tables of a strategy says which request wrote a row, and a
request answers for what it wrote many calls ago. `StrategyInv` therefore says,
for each request, what it remembers of the tables (`RequestOK`): the strategy
it made has a principal as soon as it goes on (`NumberOK`), a tag it has paired
is paired (`TagOK`), the row of a ticker it has inserted is that ticker's and
filled when it says so (`UnivOK`), the copy has of the source what it copied so
far (`ForkOK`). Conversely it says whose each row is: no two requests make one
strategy, no two parts fill one row (`CodesApart`, `IdsApart`), every added row
has its part (`RowsAdded`), a strategy without a principal its maker
(`BareAreMade`), and what is to be backtested was answered (`PushedAreForks`).
An insert gives a number nobody holds, because the numbers held are those of
rows. The proof separates the two sides of a step: `Advances` is what a step
of one request leaves to the others (their frames, their rows, growing tables,
numbers that are new), and `AdvanceKeeps` needs of each action only that and
the request's own clause; `Elsewhere` covers members, lists and pictures.

`TagsInv` adds that two parts which have looked for one tag, or will insert
it, are of a tag in `shared` (`SeekersApart`), and that a part about to insert
a tag which is not in `shared` still finds no row of it (`InsertsAreNew`): the
parts of one `create` are such an overlap as much as two requests are.

The three invariants give the types of their own tables. Those of calls,
tokens and faults are inductive beside `MemberInv` (a token is only issued for
a row that is there): `Callers` gives the types of a call, and `CallStep` says
what a step of any handler does to its call, once for all handlers.

`PastInv` says what the lists of earlier times have to do with each other: what
was there and is not deleted is in every later one, and without a deletion the
open strategies only grow. `FeedInv` says of a reader of pages that every
strategy it is to see it has seen, or at least `page * Take` newer ones were
shown as of its last page (`Browsing`): new rows only push it back, so in any
list that is not older it is still ahead. Only a deletion may move it to a page
already read, and only an older list may show it there, which are the two
exceptions the property makes. An empty page ends the list. `NewestFirst` is chosen, not computed, so it has to be
shown to exist: the place of a strategy is the number of newer ones plus one
(`AboveCounts`), an injection into as many places as there are strategies, so
onto them (`NewestFirstIs`). No induction is needed.

For the strategy page, for any tickers, techniques, search results, presets,
findings, lists to begin with and bounds, under `EditorAssumption` (the first
list is one of items, and items that share a settings object share its
values), `FindingsAssumption` (a quant request finds tickers) and
`SaveAssumption` (the bounds are numbers):

| theorem | statement | argument |
|---|---|---|
| `PresetsAreTheirFilters` | `Spec => []PresetIsItsFilters` | the filters shown and those of every request under way, one lemma per action of the tab; no other step touches them |
| `DeleteFollowsTheTicks` | `Spec => []DeletesOnlyTicked` | `PageOK` |
| `TheListKeepsItsTickers` | `Spec => TheListIsKept` | every step under `PageOK` |
| `FiguresFollowTheirItem` | `Spec => []FiguresAreOfTheirItem` | `PageOK` |
| `FormsFollowTheSettings` | `Spec => []FormShowsTheSetting` | `PageOK` |
| `PageIsTyped` | `Spec => []TypeOK` | `PageOK` |
| `SavesWhatWasClicked` | `Spec => []SavedIsWhatWasClicked` | `SavingOK` |
| `PageAndServerAgree` | `Spec => []PageKnowsItsStrategy` | `SavingOK`, `QuietOK` |

What stands beside the list is computed when React renders, by comparing
identities, and is looked at many gestures later. `PageOK` therefore says of a
settings object that as long as it is the same it has the same values
(`Carried`, `KnowsSettings`), and of every tile, recommendation and form, shown
or under way, that its values are those of the object it was computed from
(`TileOK`, `AdviceOK`, `FormOK`). `Redrawn` shows once that `Rerender` restores
this after any change of the list, and each gesture is one lemma that uses it.
The list without the chosen positions is described by counting: the place a
kept position moves to is the number of kept positions up to it (`Places`,
`WhatIsLeft`).

`SavingOK` adds what the handlers of the two buttons remember between their
calls. `SavesOK` holds whatever is lost or overlaps: a run that adds tickers
has exactly those in the row that it has not still to add (`RunOK`), and a
pushed row has all (`RowOK`). `QuietOK` holds until two clicks overlap or a
call fails: there is at most one unanswered call (`OneCall`), a page in the
middle of "create" shows no strategy (`OpenOK`), what is being deleted is what
the page shows (`AskedOK`), and a strategy the page does not show is being
made or was made from an incomplete form (`StrayOK`).

For the copies, for any keys followed, start pages, times, writes, faults,
retries and gestures, under `ResponseCacheAssumption` (an answer is kept for
at least one unit of time), `QueryAssumption` and `StartAssumption`:

| theorem | statement | argument |
|---|---|---|
| `AnswersNeverAge` | `Spec => AnswersAreRecent` | `RecentInv` |
| `OwnWritesAreSeen` | `Spec => []OwnWritesReachTheCopies` | `ClientInv` |
| `ProfilesAreTheSessions` | `Spec => []ProfileIsTheSessions` | `ClientInv` |

`RecentInv` says what an answer under way and an answer kept must still hold
when they are given: a handler's answer lacks only writes made since it read
(`Since`), a kept one only writes that were made less than the handler's time
before it was kept, and no answer is kept beyond its time (`IsKept`). A write
made now is then always young enough. `ClientInv` adds that a copy nobody
marked fits the session and the last news of it (`CopyOK`), and that so does
the call that will replace it (`CallOK`): a step that changes session or news
marks every copy they are about, and what is marked while it is being fetched
is `lost`. A look-up that failed makes an answer nobody's, but never one that
was asked for by nobody a member's (`Own`). Which pages mount which keys does not matter: the proof never opens
`Pages`.

Every invariant a passing run checks is stated by one of these theorems. Only
model-checked: the liveness properties (fairness and ENABLED are beyond the
prover).

## 12. Disagreements between code and documents

One is shown by a run:

- `DoneMeansSaved`: "Done" is documented as normal operation, and is returned
  after any number of failed saves (`BacktestMultiPort.py:371`).

Others, seen while modelling, that have no run of their own:

- The client labels "Start" as "backtest in progress"
  (`StrategyCardInfo.tsx:79`), and a run without a universe leaves it for ever
  (`BacktestMultiPort.py:67`); `StartIsExplained` says when.
- The result of each strategy is documented as its own, and is cached under its
  name; the four are one dictionary, and all names show the last one
  (`daily.py:54`).
- The status route is to tell from an id whether Celery is at it; of a failed
  task it reads the exception like a dictionary and raises (`state.py:16`,
  `StatusOf` in `StockLoad`).
- The entity documents the states null, Running, Error, Success, while the runs
  write "Start" and never "Running" (`BacktestMultiPort.py:59`).
- Evaluated price = principal + profit does not hold between an update of the
  principal and the next run (`strategy.service.ts:738`).
- "worker" is documented as 0 < integer <= 10, but its two bounds are joined by
  `and`, so every number is accepted, 0 divides by zero and a negative one is
  answered 201 (`routeDailyStock.py:49`).
- The feed of most viewed strategies sorts a page the database has already cut
  and cuts it again by the same offsets, so only its first page is ever not
  empty; the feed by profit sorts the profit ascending and lists strategies that
  are not open (`HighViewPage`, `CodesOf`).
- The third quant preset is described as a bound on ROE
  (`finance/interface/entities.ts:224`), and sets PBR
  (`UniversalSettingTabQuantSearchVM.tsx:106`). The preset of the user's own
  bounds says the user sets them, and what is typed reaches no request, because
  no `onChange` is handed to the item.
- The comment beside each time to live says 10 seconds (`app.module.ts:136`);
  the same comment stands beside the finance module's default of a day
  (`finance.module.ts:31`).
- The list named for high profit shows another query's strategies
  (`StrategyListType`).

## 13. What is not modelled

Section 1 of this file lists every part; `PROJECT.json` says of each how much
is modelled.

On the data server: the figures of a portfolio simulation are abstracted to the
principal they were made with, so the class-level trade history that a failed
run leaves behind (`BarAnalysis.py:7`), the share of the cash of a ticker that
is skipped (`BacktestMultiPort.py:126`) and the four order machines of the
trading strategies are out. Quant selection is SQL text whose meaning is the
database's, the crawlers are I/O. A price loaded while the market is open is the
unfinished one and is not loaded again (`pricePykrx.py:80`): a row is its key
here.

On the business server: finance look-ups, charts and filters by type or name
are single reads. Hard deletion, follow lists, deletion from the object store
have no route, the routes that write a history row no caller. The job that
warms the price cache at midnight (`cron.service.ts:30`) and the cache of the
finance module are not followed. The seeder is a development tool.

`ServerWrites` does not follow which list Redis
keeps under which URL and until when: any list may be answered as of any
earlier time, more than the program does, and which codes the feed by profit
would have found then is left open among the strategies of that time.

Some races are in the models as they are in the program, and the properties
say of them only that nothing else has their effect: `overlap` in the pipeline,
the shared class of `HonestAnswers`, `overlapped`, `shared` and `crossed` on
the server, `ordered` in the feeds, `moved`, overlapping clicks and lost calls
on the strategy page, `hit` and `lost` in the client. `PROJECT.json` notes at
each hazard what is excused.

On the strategy page: the fields of the basic form are one flag, the settings
one of four values; the sub-tabs of the result panel and the number of figures
a filter lists are left out. A box keeps its tick for the same position and
ticker after a deletion, because the DOM keeps it; that is `ticked`.

In the client: one browser, one member, one request to write at a time; a
reload, and the keys that are not among the four followed. Among those are
keys that two queries share: the status of a backtest has no strategy in its
key, and the search by ticker has the key of the search by name.

TypeORM, psycopg2, Celery, react-query, react-router, Recoil and NestJS are
modelled by what their callers rely on: `save` writes the columns that differ
from the stored row, giving back a connection rolls back an open transaction, a
task is delivered once, a fetch of a key is joined and not doubled, leaving the
last page that reads a key ends its retries.

## 14. Plan

What was planned and is done: the pipeline and its ledger, the mini backtest,
the loads, the members, strategies, tags, feeds and pictures of the business
server, the strategy page, the client's copies beside Redis. What is left, in
order:

1. `Portfolio`: one worker process over several tasks: parameters set per
   ticker, trade history and its leak after an exception, skipped tickers,
   weights. Abstract specification: a history belongs to the run that wrote
   it.
2. The price cache: the midnight warm-up beside the day-long time to live.
3. Composition of `StrategySave` with the first actions of `BacktestPipeline`.
4. `TradingStrategies`: the four order machines on bounded price moves.
