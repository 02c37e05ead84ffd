# TradeLoop: specification and proofs

TradeLoop is a trading journal: a FastAPI back end (`app/`) that imports trades from
CSV files and brokers, computes analytics, checks the user's trading rules and the
limits of prop-firm accounts, and a React client (`frontend/`). This directory holds
TLA+ models of the parts where the order of events or the bookkeeping of a loop
decides whether the program is right, the TLC configurations that check them, and
TLAPS proofs of the results that hold for every value of the constants.

Paths below are relative to the repository root. `PROJECT.json` lists for every
definition the source lines it models, and for every property the mutation of the
code that breaks it.

## 1. Inventory

The server is one process with one asyncio event loop. Only what lies between two
`await`s is atomic. Every request runs in a database session of its own (`get_db`,
`app/db.py`), which commits or rolls back after the handler; background jobs and
event handlers are tasks of the same loop with sessions of their own.

| Component | State | Operations | Hard behaviour | What makes it correct |
|---|---|---|---|---|
| Analytics cache (`services/analytics_service.py`) | `_store`, `_timestamps`, in memory | get, set, invalidate, get_full_analytics, get_insights | filled from rows read before an await; invalidated by tasks that race with the commit; lost on restart | only committed rows of the right user are served; staleness is bounded |
| Event bus (`services/event_bus.py`) | handlers, scheduled tasks | emit, _safe_run | emit schedules, nothing waits; tasks are lost on restart or rollback makes them wrong | the invalidation is not undone |
| Request transactions and pool (`db.py`) | sessions, eight connections | checkout, commit, rollback, close | commit before or after background tasks, by FastAPI version; a request that waits for a broker keeps its connection, and its job needs another | the job sees the upload; everyone gets a connection or gives up |
| Post-upload job (`services/background.py`, `engine/auto_tagger.py`) | rows read and lists to write, between awaits | auto_tag_trades, check_trading_rules, precompute_analytics, check_all_compliance | two jobs of one user, requests on the same rows, failure at any step | no manual tag lost, each violation recorded once and linked, an undisturbed upload fully processed |
| Rule checker (`engine/rule_checker.py`) | counters of a loop | seven checkers | boundaries (`>`, `>=`, truncation), breach remembered within a day | the loops list what the rule says |
| Trades and rules API (`services/trade_service.py`, `api/trades.py`, `api/rules.py`) | rows of trades, rules | upload, edit, delete, create, toggle, ... | emits before commit; database cascades; read-modify-write of a switch | as for cache and job; toggles counted |
| Accounts (`api/auth.py`, `security.py`, `audit_service.py`) | users, audit log, tokens handed out | register, login, refresh, change, forgot and reset password, delete | each reads the row first and commits after hashing or mail; overlaps with deletion | one account per address, a complete and linked audit log, deleted accounts stay deleted |
| Payments (`api/payments.py`) | plan of a user, orders at the gateway | create order, verify | plan committed before the audit entry; the process may end in between | no request takes an upgrade back; completed ones are audited |
| Broker connections (`services/broker_service.py`, `api/broker_connect.py`) | connection rows | connect, disconnect, sync | a 30-second external call between check and write; repeated syncs | one active connection; what a sync imports |
| Order matching (`engine/broker_sync.py`) | two queues per symbol | match_orders | partial fills, equal timestamps | first in first out; quantity conserved |
| Prop accounts (`engine/prop_rules.py`, `services/compliance_service.py`) | account rows with limits | create, check_compliance, delete | historical drawdown, late imports, days passing | the account's own limits decide |
| Report engines (`engine/analytics.py`, `counterfactual.py`, `behavioral.py`, `weekly_report.py`, `intelligence.py`, `auto_tagger.py`) | none: functions of the trades | overview, time, symbols, streaks, equity curve, risk; eight scenarios; detectors; weeks; alerts; tags | one-pass loops with state, five engines that each look for the same habits with code of their own, week and day boundaries, timezones | sums agree, one habit is found the same everywhere, history only grows |
| CSV parser (`engine/csv_parser.py`) | none | detect format, search columns, parse generic, Zerodha, MT4 and headerless files | guessed headers, dates and times in separate columns, attempts until one parser finds a trade, rows that end early | one list of trades is the same in every format; a row that ends early costs no other unless the parser raises |
| Client session (`frontend/src/api/client.ts`, `store/auth.ts`) | localStorage, store, `isRefreshing`, `failedQueue` | interceptors, login, register, logout, hydrate, updateProfile, reload | several 401s at once; answers that outlive their session | one refresh at a time, no call forgotten, one account |
| Client pages (`frontend/src/pages`, `components`) | form state | forms, tables | answers after the page changed | server-side data wins |
| Market data, synthetic trades, admin, middleware, migrations | none of their own | read-only or run once | - | - |

How they interact: a mutating request writes through its session, calls `emit` (the
bus creates a task that invalidates the cache) and adds `run_post_upload` to its
background tasks. The job tags, checks the rules, precomputes the analytics into the
same cache and logs the compliance of the prop accounts. Insight requests read
through the cache; reports and prop accounts are computed anew from the trades each
time. Every session takes one of the pool's connections. The client reaches all of it
through one axios instance whose interceptors renew the access token.

The hazards of the code, each at its line, are listed in `PROJECT.json`.

## 2. Modules

| Module | Models | State ↔ code | Actions ↔ code |
|---|---|---|---|
| `AnalyticsCache` | cache, bus, transactions, precompute, GET /insights/full | `store`, `stamp` = `_store` and age of `_timestamps`; `db[u]` = committed changes of u's trades; `snap` = rows between SELECT and use; `tasks` = scheduled handlers | `Mutate` = handler up to its first suspension after the write; `Commit`, `Rollback` = `get_db`; `RunHandler` = `_on_trade_change`; `JobRead`, `JobFill`, `JobAbort`; `ReadInsights`, `AnswerInsights`; `Tick`, `Restart` |
| `RecentView` | what reading through the cache promises: an answer is the user's trades as they stood at one moment not long ago | `db`, `answer`; no cache, no job | `Change`, `Answer`, `Tick` |
| `RuleChecker` | the seven checkers as set definitions | constants: day, hour, pnl, quantity of a trade | operators only |
| `RuleCheckLoop` | the same checkers as the code's loops | `count`, `loss`, `breached`, `consec`, `out` | one `Visit...` per checker's loop body |
| `PostUpload` | `run_post_upload` and the requests on the same rows | `live`, `tag`, `rule`, `rows`, `orphaned` = tables; `pc`, `sel`, `todo` = a job's locals at its await | `TagRead`, `TagCommit`, `RulesRead`, `TradesRead`, `ExistingRead`, `InsertCommit`, `Finish`, `Fail`; `Upload`, `PatchTag`, `DeleteTrades`, `CreateRule`, `ToggleRule`, `DeleteRule`, `DeleteAccount` |
| `AuthClient` | axios client and auth store | `ls` = localStorage; `sto` = store; `isRefreshing`, `failedQueue`; `pc`, `hdr`, `retried`, `carried` per call | `Send`, `Answered`, `Rejected`, `Unauthorized...`, `Refresh...`, `Hydrate...`, `Submit`, `LoginOk`, `LoginFailed`, `Logout`, `Reload` |
| `BrokerSync` | broker connections, syncs, sessions and their connections | `conns` = rows of broker_connections; `imported` = rows of trades per round trip; `seen` = what a request's SELECT found; `answer` = the broker's; `pool` = sessions that hold a connection; `pc` = where a request or its job is | `Checkout`, `Close`, `GiveUp` = session and pool; `ConnectSelect`/`ConnectCommit`, `DisconnectSelect`/`DisconnectCommit`, `SyncSelect`, `Fetched`, `FetchFailed`, `SyncCommit`, `SelectRefused`, `JobDone`; `Execute` = a round trip completed at the broker |
| `Semaphore` | what is asked of the pool | `holders` | `Acquire`, `Release` |
| `Accounts` | accounts, tokens, audit log, payments | `users`, `audit` = tables; `issued` = tokens handed out; `orders`, `paid` = the gateway's; `got` = id and row a request's SELECT returned | `Arrive`, `Select`, `SelectNobody`, `Refuse`; one action per write: `Register`, `Login`, `Refresh`, `Forgot`, `SetPassword`, `Toggle`, `Delete`, `CreateOrder`, `Upgrade`, `LogUpgrade`; `WriteFails`, `Interrupted`; `Pay` |
| `OrderMatcher` | `match_orders` | `left` = remaining quantity, `buys`, `sells` = queues | `Enqueue`, `Match` |
| `PropCompliance` | prop accounts and the compliance engine | `account`, `accountTrades` in timestamp order, `today` | `CreateAccount`, `DeleteAccount`, `Import`, `DeleteTrade`, `NextDay`; the report is an operator |
| `TradeHistory` | a history, and what the engines share: days, hours, sums, groups, rankings | a sequence of trades in timestamp order | operators only |
| `TradeAnalytics`, `Counterfactual`, `Behavioral`, `WeeklyReport`, `Intelligence`, `AutoTagger` | one engine each | parameters: history, timezone offset, end of the week | one operator per function or detector; a loop with state is a fold or a recursive function with the same state |
| `SortedLists` | Python's `sorted` with a key, and lists made from sets | parameters | operators only |
| `CsvParser` | the parser, over cells of known kinds | a file is lines of cells and its delimiter | one operator per function |
| `CsvImport` | files of every kind, written and read back | `closed` = closed trades | `CloseTrade`; `Export` = `export_csv`, the other writers are brokers' |
| `Tradebooks` | a day's orders as the broker's API lists them and as the tradebook the user uploads does | the orders and matches of `OrderMatcher` | operators and `PairingsAgree` |
| `Reports` | the engines over a history that changes | `history`, `offset`; `Texts` = what a symbol, a mood or a mistake may be called | `ImportTrade`, `RemoveTrade`, `AutoTag` |

`PostUpload` extends `RuleChecker`, so the job's verdicts are the checkers'.
`RuleCheckLoop` extends it too and shows that the code's loops compute these definitions.
`BrokerSync` takes from `OrderMatcher` what an answer is (`FifoAgrees`: more orders only
add round trips) and instantiates `Semaphore` with a refinement mapping; `AnalyticsCache`
does so with `RecentView` (`ServesOneMoment`). `Intelligence` and `WeeklyReport` call the
detectors of `Counterfactual` and `Behavioral` as the code does. Each `MC...` module
instantiates a module for TLC; `MCCsvImport` does so for the files and is shared by two
runs; `MCEngines` extends it, `Tradebooks`, `RuleCheckLoop`, `PropCompliance` and
`Reports` and holds the engines side by side, as alternatives of one next-state relation:
they share no state, so a behaviour exercises one of them. `SampleHistories` holds the
histories. The `...Proofs` modules hold the theorems: `AnalyticsCacheProofs`,
`AuthClientProofs`, `BrokerSyncProofs`, `PostUploadProofs` and `AccountsProofs` those
about the module they are named after, `HistoryProofs` those about sums, histories and
prop accounts, `ReportProofs` those about the report engines, `LoopProofs` those about the
loops of order matching and rule checking and about the parser. `Tradebooks` composes two
components that never meet in the code: the same orders go through `OrderMatcher` and, as
a tradebook, through `CsvParser` (`PairingsAgree`).

Abstractions, all on the data: a cached value is the set of changes it was computed from
(so "stale" means "misses a committed change"); a client's token is the account it was
issued to, the server's also its type, and any token may turn out to be expired; a job's
tag is `none`, `auto` or `user`; a broker's order list is the round trips completed; a
broker's access token is real or not; money and quantities are whole numbers; in the rule
checker these and thresholds are counted in parts of which `Unit` make one, so that
`int(threshold)` truncates; there local time is already shifted by the user's offset, in
the reports it is shifted there. Of averages, ratios and percentages the reports keep the
sums and counts they are made of, and compare them without rounding where a threshold
does. A cell of an uploaded file is its kind (date, date and time, time, number, amount
with a currency, word, ticker) with its number or word. Control is kept in full: each
action ends at an `await` of the code.

Ghost variables (`sinceRead`, `sinceCommit` in `AnalyticsCache`; `overtaken`,
`duplicated`, `clean` in `PostUpload`; `ended`, `crossed`, `stale` in `AuthClient`;
`overtaken`, `raced` in `BrokerSync`; `toggled`, `crossed` in `Accounts`) record
history for the properties; no guard reads them except the bound `MaxDelay`.

## 3. Runs

Runs that pass:

| Run | Checks | Instance, and why it is enough |
|---|---|---|
| `cache` | `TypeOK`, `CommittedOnly`, `ServesOneMoment`, `EventuallyFresh` | TTL 1, delay 1, fair specification; either two requests of two users in two timezones with a restart and both commit orders, or three requests of one user, two changes and a reader, without slow reads (the state constraint `Instances` cuts off what mixes the two). A job that reads before its own commit, fills after it and a later reader served from that entry are the longest chain from a commit to a stale answer, mixing up users or losing memory needs no more, and two changes are the least of which an answer could hold the later without the earlier. All but the liveness is also proved for any number of requests |
| `post_upload` | `TypeOK`, `RecordedOnce`, `ViolationsLinked`, `QuietJobCovers` | PostgreSQL and SQLite, two jobs, two trades, a per-day rule of one and a half trades and a time-of-day rule: two trades are the tagger's minimum and give a per-day rule one violation |
| `session` | `TypeOK`, `SessionConsistent`, `RefreshLock`, `EveryCallSettles` | hydrate's call and either two calls of the pages with one account (one refreshes, one waits, one is replayed) or one call with two accounts. The state constraint `Instances` cuts off what mixes the two; the safety properties are proved for any accounts and calls |
| `broker_sync` | `TypeOK`, `OneActive`, `SyncsActive`, `PoolIsSemaphore`, `EveryRequestEnds` | three requests of any kind to one broker with one round trip, two connections, both commit orders, fair specification: two connects and a sync or disconnect between them are the shortest races, two connections for three requests and their jobs is a pool that runs dry while everyone in it waits for one more |
| `accounts` | `TypeOK`, `OneAccountPerAddress`, `AuditComplete`, `AuditLinked`, `PlanIsVerified`, `TogglesCount`, `DeletedStaysDeleted` | any three requests, an account registered before, two addresses, two passwords, both databases: order, verification of it with any plan and a deletion or a password change between;  two toggles and a third; deletion and new registration of an address |
| `engines` | `WellTyped`; orders: `Conserved`, `FifoAgrees`; rules: `LoopAgrees`; prop accounts: `DrawdownAgrees`, `DrawdownSticks`, `ConsistentNeedsDays`; reports: `OnePassAgrees`, `EnginesAgree`, `TotalsAgree`, `WeeksAgree`, `ReportsGrow`; files: `FormatsAgree`; orders and files: `PairingsAgree` | every list of four orders over two symbols, quantities 1 and 2, equal and different times: partial fills on both sides of both queues. Every subset of seven trades over two days with hours 0 to 23, two thresholds per rule type, whole ones and halves that `int()` cuts off. Up to four prop-firm trades over four days with gains and losses around both limits: four winning days are the least that the 30 per cent rule accepts. Every history that four imports and deletions build from nine kinds of trade, and four long histories, of 15 to 31 trades, that reach the engines' thresholds, each with its neighbours, in two timezones. Every list of up to three of five trades (two symbols, both sides, won, lost and even, one at midnight, one of two with a fee, listed in any order) in nine kinds of file, and with any row of a backup cut after any column but the first two: three rows are the least that the search for columns needs. The tradebook of every one of those lists of four orders in which a symbol's orders have one size and each of its sides is in time order |

Runs that show a disagreement between the code and what the repository says of it
(quoted in `PROJECT.json`, "findings"):

| Run | Property violated | What happens |
|---|---|---|
| `cache_stale` | `InvalidatedOnTradeChange` | the invalidation task runs at the first suspension after `emit`, before the commit; a reader then puts the old value back and it is served until its TTL |
| `post_upload_tags` | `ManualTagKept` | a tag set by the user between the tagger's SELECT and its commit is overwritten |
| `short_rows` | `ShortRowReported` | a row of a backup that ends before its side makes the parser raise, and no trade of the file is read |
| `session_logout` | `LoggedOutStaysOut` | an answer pending at logout writes tokens or the user back |
| `prop_firm_rules` | `FirmRulesChecked` | the limits stored with an account never reach the engine |
| `weekly_period` | `WeekIsItsPeriod` | the report for an earlier week names that week and counts every trade since its start |

`CHECK_DEADLOCK FALSE` is set throughout: requests, jobs and orders of an instance are
finite and each is handled once, so a behaviour may end.

What the properties of the newer runs say, and where they stop:

- `OneActive` excludes brokers for which a connect was overtaken: two connects that
  both find no active connection both insert one (`services/broker_service.py:36`), and
  nothing in the schema forbids it. The exclusion is as narrow as the code allows: a
  connect that nobody overtook leaves one active connection.
- `EveryRequestEnds` includes the builds where a request keeps its connection while its
  job waits for one: the pool's timeout of the job resolves that, and the mutant without
  it makes everyone wait for ever.
- `AuditLinked` is about PostgreSQL; on SQLite a login that overlaps the deletion of its
  account leaves an entry without a user.
- `TogglesCount` excludes users with two toggles under way at once: both write the
  opposite of the same value (`api/rules.py:123`).
- `EnginesAgree` compares engines that each look for revenge trades, tilt, crowded days
  and last trades with code of their own; `TotalsAgree` every breakdown with the
  overview, and the impact of a scenario with the two ends of its chart (`AddUp`);
  `OnePassAgrees` the one-pass loops with definitions that look at the history as a
  whole; `WeeksAgree` the week's own count of revenge trades with the history's;
  `ReportsGrow` a report with the report a day later.
- `PlanIsVerified` says no more than the code does: `verify_payment` compares the
  signature of an order and its payment, and takes the plan from the request
  (`api/payments.py:152`). Whose order it was, which plan was ordered and whether it was
  verified before are not looked up, so the model lets any paid order vouch for any plan
  of any user. What the code owes is that a committed upgrade stays: no request that had
  read the user before writes the old plan back.
- `ViolationsLinked` is about databases that enforce foreign keys. No PRAGMA turns them
  on for SQLite, the default, where a recorded violation outlives its rule and its
  trade; the run has both databases.
- `FormatsAgree` reads back what was written with the columns the parser documents; the
  search for columns, the fallbacks and the headerless reading are gone through on the
  way. Of a row of a backup that ends after its side, the cells it has are read and what
  is missing counts as zero; the other rows are read as ever. A row that ends earlier
  makes the parser raise (`ShortRowReported`).
- `PairingsAgree` reads the tradebook through `parse_csv`. It is about days with a round
  trip: on one without, the tradebook parser finds no trade and the generic one reads
  each leg as a trade (`engine/csv_parser.py:63`). And it is about orders of equal
  quantity per symbol whose buys, and whose sales, are in time order: the tradebook
  parser neither splits a fill nor sorts, and takes the quantity bought.

Two facts about the code are described and have no property, since none could say more
than the action does: every sync inserts all round trips of its answer
(`services/broker_service.py:100`), so that two syncs of a day import it twice; and an
upgrade interrupted between its transactions stays without an audit entry
(`Interrupted`), which `AuditComplete` allows.

Three more places where the code does something its comments do not say are in the
models without a run of their own. With a FastAPI version that leaves yield
dependencies after background tasks (`exitOrder = "after"`), the job computes from the
rows before the upload and caches the result: `ServesOneMoment` and `EventuallyFresh` hold
for both orders. A
winning trade taken after N losses in a row is not listed by
`max_consecutive_losses`, documented as "stop after N consecutive losses"
(`app/models/trading_rule.py:31`). hydrate ends the session on any failure of its
refresh call, where the comment at `store/auth.ts:53` names an expired token.

The passing runs state what does hold around each of these: a stale answer is at most
TTL + MaxDelay old and was the truth at that moment, and every entry becomes fresh,
expires or goes (`ServesOneMoment`, `EventuallyFresh`); the session is
one account's unless a crossed answer wrote it (`SessionConsistent`); the week before
and this week are disjoint and complete (`WeeksAgree`).

Bounds: `MaxDelay` (ticks between a SELECT and its use), `MaxRestarts`, `LastDay`,
`MaxTrades` (of a prop account), `MaxClosed` (of a file), `edits` (imports and deletions of a
history; none bounds `AutoTag`); a request of `BrokerSync` and `Accounts` is made once;
ages stop counting at `TTL + 1` and `TTL + MaxDelay + 1`, beyond which nothing
distinguishes them. `MaxDelay` is an assumption on the environment: the code sets no limit
between reading rows and caching what was computed from them, so the bound in
`ServesOneMoment` is relative to it.

Symmetry is declared only in runs without liveness properties.

## 4. Fairness

`AnalyticsCache!FairSpec`: weak fairness of each request's started work (`Handle`:
the event loop resumes every task, a session always commits or rolls back) and of
`Tick`. Nothing obliges users to send requests; `Mutate`, `ReadInsights` and `Restart`
are not fair.

`AuthClient!FairSpec`: weak fairness of each call's `Progress`: the browser reports an
answer or an error for every request. Send, hydrate, login, logout and reload are the
user's and not fair, and neither is any particular answer: the server may answer 401
for ever.

`BrokerSync!FairSpec`: weak fairness of each request's `Progress` as a whole. A waiting
session gets a connection or runs into the pool's timeout, the broker answers or httpx
raises after 30 seconds, handlers and jobs end. Nothing says which: no session is owed
a connection, no sync an answer. `Execute` and `Arrive` are not fair.

`Accounts` and the engines state safety only.

## 5. Proofs

Checked by TLAPS for all values of the constants that satisfy the named assumptions
(natural bounds; `ExitOrders` and `Databases` among the values the code knows; `Me`
not a page's call; `None` not an account, row or request; a pool of at least one connection; trades numbered by naturals;
histories to begin with in the order of time, a verdict with its mistake; whole balances;
orders numbered in the order of the broker's list; the symbol of a closed trade neither
the name of a side nor a word that tells a file's format).

`AnalyticsCacheProofs`
- `TypeCorrect`.
- `Inductive`: `IInv`. `CommittedOnly` is not inductive: a fill copies rows read
  earlier, so held rows must be committed (`HeldCommitted`). `ServedIsRecent` needs
  that held rows miss only changes younger than the read (`HeldRecent`) and that an
  entry misses only changes at most `MaxDelay` older than its timestamp
  (`EntryRecent`). The step is split by what an action does to each piece of state
  (`TxSteps`, `HeldRows`, `CacheSteps`) rather than by action alone.
- `CacheIsCommitted`, `BoundedStaleness` (an action property, from `EntryRecent`,
  `HeldRecent` and the TTL test).
- `CacheImplementsView`: the cache with its jobs, handler tasks and restarts implements
  `RecentView`, which has none of them. The mapping takes the age of a change from
  `sinceCommit`; a commit is a `Change`, an answered request an `Answer`, all else but
  the clock a stutter. That an answer is the trades of one moment, and does not mix two,
  is more than that it is recent, and needs `MomentInv`: held rows are as of the tick
  they were read in (`HeldAsOf`), a fresh entry's as of a tick between its timestamp and
  `MaxDelay` before it (`EntryAsOf`). A commit disturbs neither, since its change is
  newer than either moment (`CommitKeepsMoment`, with `OnlyCommits`: what is committed
  came from its owner's request), and the clock moves moment and changes alike
  (`TickMovesMoment`).

`PostUploadProofs`
- `TypeCorrect`.
- `ViolationsRecordedOnce`: with `StillNew` (a job not overtaken since its SELECT
  still inserts only pairs with no row).
- `EnforcedKeysLink`: where foreign keys are enforced, violations stay linked.
- `QuietJobsCover`: with `Covered`, what a job must have done at each await; the other
  jobs of the user only add to what it relies on (`JobsOnlyAdd`, `OthersHelp`).

`AuthClientProofs`
- `TypeCorrect`, `RefreshIsExclusive` (`RefreshLock` is inductive given the types).
- `Inductive`: `SessionConsistent` needs `OwnAccount` (a call that has not outlived
  its session carries that session's account) and `NotHydrated` (before hydrate
  nothing is pending). `SessionIsOneAccount` follows.

`BrokerSyncProofs`
- `TypeCorrect`: with `ConnectCommits`, `DisconnectCommits` and `SyncCommits`, what each
  commit does to the active connections, used by every later proof.
- `OneActivePerBroker`: `OneActive` counts and is not inductive. `AtMostOne` says the
  same without counting and `FoundAll` why it lasts: a connect about to commit that was
  not overtaken has found every active connection of its broker.
- `SyncsForActive`: with `SyncsWork`, the same for every stage of a sync.
- `PoolRefines`: every step is a step of `Semaphore` or leaves the pool alone. That each
  connection is given back is `PoolIsSemaphore`'s liveness and stays with TLC.

`AccountsProofs`
- `TypeCorrect`, with `Reads`: what a request knows when it writes (it has read a row;
  only a verification is between an upgrade and its entry). `Written` sums up what any of
  the writes may do to `users`.
- `AddressesUnique`, `DeletionsStand` (an action property) and
  `AuditEntriesLinked` follow from `Written` and `Reads`.
- `PlansAreVerified` needs `PlansRead`: whoever has read a paid plan has read what a
  verification committed, so that nothing a later write could put back predates all of
  them; committed verifications are never forgotten (`UpgradersStep`), and a new account
  has none (`Unborn`).
- `AuditIsComplete` and `TogglesAreCounted` need `Unborn`: nobody knows an account
  before its registration is done, so a new account starts with no entries and no
  toggles. `AllAlone` is the strengthening for toggles: one that nobody overlapped is
  alone between its read and its commit, and what it read still holds.

`HistoryProofs`
- What `SumFunctionOnSet` computes over every finite set: it is defined by recursion
  over an unspecified order, and `SumWithout` shows that the order does not matter. The
  induction is over sets of naturals (`NatsByInduction`), so it needs no theorem with an
  operator parameter. Sums over unions, of equal and of larger terms, and the largest
  member of a bounded set follow.
- `PropTypeCorrect`: with `InsertKeeps` and `RemoveKeeps`: an insertion at its place and
  a removal leave a sequence in the order of any key.
- `DrawdownExact`: the running balance after i trades is the sum over `1 .. i`
  (`RunningIsNet`), the peak the highest balance so far (`PeakIsHighest`), so that the
  falls below the peak are net losses of runs and bound all of them (`FallsAreRuns`).
- `DrawdownIsFinal`, an action property: what a prefix has lost over a run, the longer
  history has lost too (`WorstRunGrows`).
- `ConsistencyNeedsDays`: the winning days add up over every subset of days
  (`WinningDaysAdd`), and the best of them is at least their average.

`LoopProofs` (extends `ReportProofs`, so that it holds the theorem about all engines)
- `TypeCorrect`, `QuantityConserved`: with `Queued` (a queue holds open orders, each once)
  and `UsedUp` (a trade uses up one of its two orders). The trades are a set, and without
  `UsedUp` a second trade of the same pair would be lost in it.
- `FirstInFirstOut`: `FifoAgrees` is about the finished book and not inductive. The
  strengthening lays the quantities of a symbol's buys on one line, order after order, and
  those of its sells on another: what is matched so far is the same prefix of both
  (`MatchedTo`), so that two orders have shared the overlap of their intervals in it
  (`Shared`). `Lines` says that the loop takes orders in turn, that only one side waits
  and that the queues hold one symbol at a time. `LinesKept` is the induction: a match
  moves the end of the prefix to the nearer of two ends.
- `LoopsAgree`: with `Counting`, `DayLosses` and `Consecutive`, which say what each counter
  of a loop holds after the trades seen so far, and `Ordered` (the trades seen come before
  the rest, so a later trade changes no earlier verdict).
- `TradebookAgrees`: `PairingsAgree` needs beside `LinesKept` only `Sided`, that a trade's
  side is that of its earlier order. As a symbol's orders are of one quantity, an order's
  place in line is its quantity times its rank among the orders of its symbol and side, so
  that two orders overlap exactly if their ranks are equal (`FirstInFirstOut` gives the
  trades). The parser groups the rows by symbol and pairs buys with sells by rank
  (`Paired`), which gives a one-to-one correspondence of trades and pairs, and with it
  both the number of round trips and the prices, side and profit of each.
- `FormatsAreOne`: the invariant is only that `closed` is a list of trades; the work is in
  what the parser computes from a file. One lemma for each kind of file (`BackupIsRead`,
  `StatementRestored`, `SplitRestored`, ... summed up in `FilesAreRead`) follows the same
  four steps. Which format is detected depends on which of the `Marks` are mentioned
  (`DetectedFrom`, `TableMentions`); the columns are those of the first alias that the
  header has (`ColumnIs`, `NoColumn`), and where a name is missing the search by contents
  finds the column from the first rows (`StrangeMapIs`); under that map each row is read as
  its trade (`...TradeIsRead`); and as every row is a trade none is dropped (`AllRead`).
  A backup with the word ticket in a note is read by the MT4 parser, which finds nothing,
  and then by its columns (`SecondTry`). A file without a header has a first row that is
  mistaken for one: no alias belongs to two fields (`Owners`), so a row of data has too few
  of them to be taken for a header (`DataIsData`). For a row that ends after its side
  (`CutIsRead`) the cells before the cut hold what `CutTrade` says; the other rows do not
  see it, unless it is the first, whose cells the search for a time column looks at
  (`ExportMapIs`).
- `EnginesAreTyped`: `WellTyped`, from the inductive invariant of whichever engine runs.

`ReportProofs`
- `ReportTypeCorrect`: imports at their place, removals and the tagger's job keep a
  history in the order of time and a verdict with its mistake.
- About the operators: `SortSeq` is an unspecified permutation in the library, and
  `SortedFacts` shows what it lists and in which order for any strict total order; a fold
  over a sequence has a run (`LoopRuns`), which is what the loops are reasoned about with.
- `OnePassExact`: the streaks after n trades are laid out by the positions where a side
  begins (`LaidOut`, kept by `LaidMore`); a losing run is no longer than the streak it
  ends in (`LossesInStreaks`). The scan for drawdowns keeps in `Watching` which point of
  the curve is its last high, the lowest point since and the drawdowns recorded up to
  it; the daily curve is the running total at the last trade of each day (`CurveIs`), so
  a fall of the curve is a fall of the trades, and the deepest of these is the trailing
  drawdown of `PropCompliance` on the same history (`CalmarIsTrailing`).
- `LaterDaysOnlyAdd`, an action property: a later day adds one point to the curve, and a
  trade changes the last streak or adds one.
- `WeeksAreExact`: a week is an interval of positions, because the history is in the order
  of time; shifting by its start maps the week's revenge trades to the history's.
- `TotalsAddUp`: the groups of any breakdown are disjoint parts of the history
  (`GroupFacts`), and sums over disjoint parts add up (`PartsAddUp` of `HistoryProofs`,
  by induction over their number; a count is a sum of ones). No choice of trades makes
  less than the losing ones (`LosersAreWorst`), so alerts about disjoint groups charge no
  more than was lost. Every scenario returns nothing, or an insight whose cost is what
  its trades made (`Finds`); a curve that excludes trades ends at the sum of the others,
  which gives the gap of a chart and the potential total.
- `HabitsAgree`: two engines compare the trades of a day with the same multiple of the
  average, one of them after a truncating division (`OverQuotient`: it changes no
  verdict); the last trade of a local day is the largest position of its group.

Every invariant and every safety property of the passing runs is proved. Only
model-checked are the liveness properties (`EventuallyFresh`, `EveryCallSettles`,
`EveryRequestEnds`, the fairness of `PoolIsSemaphore`), since fairness and ENABLED are
beyond the prover, and the counterexamples of the runs that expect a violation. No module
declares a recursive operator: loops of the code are folds or recursive functions, and
the proofs reason about them by induction over naturals (`NatsByInduction` of
`HistoryProofs` is about the set of numbers a claim holds for).

## 6. Not modelled, and the plan

Left out for good: market data (a stateless proxy), synthetic trades, hashing and token
encoding (libraries), which requests and headers reach a broker, logging, rate limiting
(slowapi's own state), migrations, rendering. Within modelled parts: amounts with
fractions, texts, the risk score, averages and ratios, fees and durations, read-only
listings and exports, name and timezone of a profile, the payment routes without
gateway keys; `compute_all` (`engine/analytics.py:52`), which computes the behavioural part
without the timezone offset and is called by no route.

Of the CSV parser are left out: telling numbers, dates and words apart (a cell has its
kind), with it the order of day and month in dates written with slashes, which the parser
decides per cell (`_TIMESTAMP_FORMATS`, month first, where the comment above it says day
first); the sniffer (the files of the instance are separated by commas, without quotes or
line breaks in notes); durations, setups, notes and error texts; the classification of
columns in headerless files, which decides nothing, since a row that the loose parser
cannot read has no date in any column either. Without a header a ticker with digits is
read as the entry price; the sample tickers have none.

Worth doing next: the client pages that call the session client (`TradeTable`,
`BrokerConnect`), whose answers may come after the page has changed.
