# AQOS in TLA+

AQOS is a Python platform for AI-assisted trading. It keeps users, trading
accounts, signals, paper orders, positions, trades and paper sessions in MySQL
behind a FastAPI HTTP API, and surrounds them with libraries for data, features,
models, backtesting, brokers, reliability and reporting. This directory models
the parts whose mistakes cost most and are hard to test. At the centre is **paper
trading** - how a signal becomes an order, an order a position, a position a trade
and a trade a balance - first with one request at a time, then with requests that
overlap. Around it stand the users' logins and sessions, the runner that migrates
the database under a crash, the supervisor that guards calls to the outside, the
in-memory broker and the backtest simulator.

Paths below are relative to the repository; `aqos/` is short for `src/aqos/`.

## 1. Inventory

| Component | State it keeps | Operations | What is hard | What makes it correct |
|---|---|---|---|---|
| `paper_trading` (commands, execution service, gate, repositories) | rows of sessions, orders, fills, positions, trades, decisions; the balance of the account | `open_session`, `command_session`, `submit_order`, `close_position`, `cancel_order`, bar sweeps, flatten | five statements per close, decisions on a snapshot, three ways to close one position, money floored at zero | a signal pays for one fill; a position is closed by one trade; trades, balance, decisions and orders agree; nothing leaves its account |
| `paper_trading/memory_broker.py` | orders, fills, positions, trades and a balance in dictionaries | `submit_order`, `cancel_order`, `fill_order` | partial fills and closes; an exception between the bookings is not undone | what is closed was filled; trades explain positions; the balance adds up, also after a call that raised |
| `signals` | status, expiry and audit rows of a signal | create, decide, execute, expire one, expire all due | the sweep and a caller race; timestamps come from clients | the audit trail explains the status; no execution without approval; ends are final |
| `execution_policy` with the gate's `collect_execution_constraints` | none (a pure fold) | `resolve_execution_mode` | which ceilings exist, in which order, and who is blamed | the strictest ceiling wins and is named |
| `http_api`, `database/engine.py` | one transaction per write request | `get_write_session`, commit, rollback | overlapping transactions, foreign-key locks, deadlocks | all or nothing; every request ends |
| `database/migration_runner.py` | one row per applied file, with its checksum; the schema itself | discover, plan, apply, record | MySQL commits every DDL statement by itself; a deployment may run two | a recorded version is there in full; repeated runs complete what crashed ones began |
| `accounts` | status, mode, balances, default account | create, update, archive | one default account; the automatic-trading switch | a disabled account trades nothing |
| `users`, `http_api/auth.py`, `routes_auth.py` | credentials, failed logins, lock, session tokens | login, authenticate, touch, revoke one or all, logout, set the password, unlock, suspend | a failure that must be committed although it is reported as an error; overlapping logins, touches and revocations | no failure is lost with its transaction; what a logout-all ended stays ended; the first revocation stands |
| `trading_settings` | per-user defaults and a mode ceiling | upsert | - | the ceiling is honoured (ExecutionMode) |
| `funded_rules` | rules, breaches | evaluate, record breach | daily windows and high-water marks | a breach stays a breach |
| `signal_reasons`, `account_reports`, `account_analytics` | append-only rows, reports | add, register, compute | - | - |
| `notifications` | notification state and delivery attempts | create, deliver, retry, read | retries of what was already delivered | attempts are bounded; read stays read |
| `reliability` | a breaker per operation, a window per rate key | `supervise`, `check`, resets and clears | nested calls, late results in another state, interrupts, the seam of two windows | an open breaker starts nothing and closes only after a trial; bursts stay bounded; trials come again |
| `brokers` | an older paper broker with cash and quantities; HTTP venues | place, cancel | - | cash and positions add up |
| `backtesting` | balance, open positions, orders, trades, the equity curve | one step per bar: levels, signal, equity point; close at the end of the data | stop and target within one bar, several exits on one bar, a second point on the last bar | a position leaves where its level says; every entry has one fate; the drawdown is the worst fall |
| `model_training` | registry file of promoted models | promote, retire | read-change-write of one file | one current model per scope |
| `data`, `features`, `models`, `learning`, `training_data`, `strategy`, `risk`, `memory`, `evaluation` | files and arrays | numerical pipelines | numerics | outside a model checker's reach |
| `services`, `agents`, `api`, `interfaces`, `product_api`, `dashboard`, `cli`, `core`, `common`, `providers`, `news_providers`, `observability`, `production`, `security`, `scripts`, the web frontend | little or none | adapters, formatting, I/O | - | - |

### How the parts interact

A write request opens one database transaction (`http_api/dependencies.py`,
`get_write_session`), which commits when the handler returns and rolls back when
it raises. Paper routes call `PaperCommandService`, which checks the session and
calls `PaperExecutionService`; that asks the eligibility gate, whose last rule
folds the ceilings of the account, the settings, the funded rules, the promotion
stage and the risk engine into one execution mode. The execution service writes
through the paper repositories and marks the signal executed through the signal
repository, in the same transaction. Nothing locks a row it reads: requests are
coordinated only by the database's own write and foreign-key locks and by CHECK
and FOREIGN KEY constraints. Every protected route first turns a bearer token into
its caller (`get_current_caller`), which reads and touches the session row in the
same transaction; `login` is the one route that commits in the middle, so that a
failed attempt is counted although the request fails. The migration runner works on
the same database through the same session, where the commit means less: MySQL has
committed each DDL statement already.

The libraries stand beside that: `RuntimeSupervisor` composes a rate limiter, a
circuit breaker, a deadline and retries around any callable, in one thread;
`InMemoryPaperBroker` keeps paper books without a database; the two backtest runners
drive one simulator bar by bar and measure its equity curve.

## 2. Modules

| Module | Models | Proofs |
|---|---|---|
| `PaperLifecycle` | the transition tables of orders, positions, sessions and signals, shared by the others | |
| `ExecutionMode` | `collect_execution_constraints` and `resolve_execution_mode` | `GateProofs` |
| `SignalLifecycle` | `TradingSignalRepository`, with clocks, expiry and audit rows | `GateProofs` |
| `PaperLedger` | abstract specification: what the books promise | |
| `PaperTrading` (`MCPaperTrading`) | `PaperCommandService`, `PaperExecutionService` and the gate, one request at a time; implements `PaperLedger` | `PaperTradingProofs` |
| `PaperRequests` (`MCPaperRequests`) | the same requests when their transactions overlap | `PaperRequestsProofs` |
| `MemoryBroker` | `InMemoryPaperBroker` | `SimulatedTradingProofs` |
| `UserSessions` (`MCUserSessions`) | login, lockout, tokens and revocation under overlapping requests | `UserSessionsProofs` |
| `Migrations` (`MCMigrations`) | the migration runner over MySQL, with crashes and overlapping runs | `MigrationsProofs` |
| `CircuitBreaker`, `FixedWindow` | the breaker and one bucket of the rate limiter, as operators on their records | |
| `Supervisor` | `RuntimeSupervisor.supervise`, composing the two with deadline and retry around nested calls | `SupervisorProofs` |
| `BacktestSimulator` | the functions of `simulator.py` over a simulation state | |
| `SumTheorems` | nothing: what the sums over finite sets in the models above return | itself |
| `Backtest` (`MCBacktest`) | the bar loop of both runners over the simulator, and the equity curve | `SimulatedTradingProofs` |

Definitions in a module whose comment starts with "Mutant:" belong to no
specification. Each is a plausible bug of the definition that follows it and
shows that the properties can tell the difference.

### ExecutionMode

`ModeInit` picks an eligibility context and a requested mode. `GatherAccount`,
`GatherSettings`, `GatherPromotion`, `GatherFunded`, `GatherRisk` and
`GatherExtra` are the blocks of `collect_execution_constraints`
(`eligibility.py:281-358`) in their order; `Resolve`, `Fold` and `Explain` are the
check for an empty set, the loop and the blame list of `resolve_execution_mode`
(`modes.py:148-188`). The loop takes one step per constraint so that its
invariant can be stated and proved. Its specification is called `ModeSpec` because
`GateProofs` extends it together with `SignalLifecycle`.

### SignalLifecycle

One action per repository method. `Transition` is `transition_signal`: the table
is consulted, the row updated and the event appended in one step, as in the code.
Time is whole seconds, the precision of the columns. The creation and execution
events carry times the client supplies, the others the server's clock; the ids of
event rows are random, so they are picked from a set and never in order. `number`
and `written` are ghosts that remember the order in which rows were written. The
expiry sweep `ExpireDue` treats all due signals, of one user or of everyone, in one
unit of work.

### PaperTrading

State: accounts (status, mode ceiling, balance), sessions (status, account),
signal statuses, orders, positions, trades, decisions, and the bar sweep in
progress. One action per route or per outcome of a route:

| Action | Code |
|---|---|
| `OpenSession`, `CommandSession` | `commands.py` `open_session`, `command_session` |
| `RefuseWithOrder`, `RefuseWithoutOrder` | the gate refuses; a rejected order is stored only if its columns can hold the rejection (`_can_persist_rejection`) |
| `ExecuteOpen` | `_execute_open` |
| `ExecuteClose`, `CloseNothing`, `CloseMismatch` | the three outcomes of `_execute_close` |
| `ClosePosition` | the close endpoint, which neither asks the gate nor looks at the session's status |
| `StartSweep`, `SweepCloses`, `SweepPasses` | `process_bar` and `close_all_positions`: the list of positions is read once and then visited |
| `SetAccountStatus`, `SetExecutionMode`, `CreateSignal`, `DecideSignal` | the surroundings that change what the gate sees |

`BookClose` is the part every close shares. It moves the balance of the account its
caller brings - the request's, the session's or the swept one - and books the trade on
the account of the position, as `close_position` does (`execution_service.py:528-600`,
`853`); that the two are the same account is proved. `StartSweep` requires that the
session sits on the swept account. `PaperExecutionService` does not check that itself:
it is what its callers keep to, who construct it for no session or for one of the account
(the tests; no route calls the sweeps yet). A position remembers the order that opened it. `RuleFails` and `GateOrder` are the
rules of the gate in their order; every rule runs and the first failure is the
primary reason, which decides whether a rejected order is stored. Prices are
abstracted to the gross result of a close, quantities to whether a close asks for
what is open (`CloseMismatch` if not), because partial closes are refused. A
request's faults (bad quantity, price, symbol, stale market data) are an input.

### PaperLedger and the refinement

`PaperLedger` says what a reader of the books relies on: a position is entered
once and settled once, money moves only with those two steps, only on the account
that owns the position and never below zero, and a signal pays for at most one of
them. It knows no requests, gates, sessions, orders or sweeps. `PaperTrading`
implements it under the mapping at its end (`Ledger == INSTANCE PaperLedger WITH
...`): `ExecuteOpen` enters, the four closes settle, everything else stutters.

### PaperRequests

One transaction per request. `Begin` takes the snapshot of its first query and
decides on it with the code's conditions (`Accepts`); `Acquire` takes the locks
its statements need, in their order; `Commit` writes what the handler computed
from its *snapshot* over what is *committed by then*, because the ORM writes
absolute values by primary key. `Violate` is a CHECK constraint's refusal,
`BreakDeadlock` the database's choice of a victim, `Abandon` a lock wait timeout,
a lost connection or the death of the process; all three roll back. The lock rules
are those of InnoDB at REPEATABLE READ, its default, and external to this
repository: an INSERT shares the parent rows of its foreign keys, an UPDATE owns
its row, both until the end of the transaction. The constraints are read off
`V0012` and `V0015` of the migrations. An exit's order and trade repeat the signal the position was opened for (`OpenedFor`),
and so share its row; the positions that are open at the beginning are of no signal.
Commissions are zero here and the gate is reduced to the rules that read rows other
requests write.

### MemoryBroker

One action per method. `BookFill` is the part of `fill_order` that comes before the
positions and is never taken back; `FillOpening`, `FillClosing` and
`FillNothingToClose` are what follows it. Two calls raise after they have booked:
a close that finds no position any more keeps its fill and its order
(`FillNothingToClose`, remembered in the observer `orphans`), and a fill dated
before its position opened closes the position and moves the balance, and then
cannot build its trade (`TradeFits`). Each fill of an opening order is a position of
its own; a closing fill takes the oldest position, up to what it has open, and the
rest of the fill is dropped. One symbol, because positions of different symbols
never meet. Prices, quantities and commissions are small integers, so that the sums
are exact; the code's are floats.

### UserSessions

A request `Start`s with what it read: `Login` with the credential row, the
authenticated requests with their session row. What it commits is what the ORM
writes of it: `Column` leaves a column alone whose new value is the one that was
read, and otherwise writes it over whatever is there now. `RegisterFailure` and
`RegisterSuccess` are the two ends of `authenticate`; `CommitFailure` is the commit
that `login` makes before it raises, and `Forbid` the right password of a suspended
user, whose refusal takes the reset of the counter back. `Revoked` is the revocation
of one or of all sessions of a user (`WHERE revoked_at_utc IS NULL`), `Touched` the
time a session was last seen. `ClearCounter` and `SetStatus` are calls the API does
not offer (an administrator's `set_password`, `unlock`, `set_status`). Passwords are
abstracted to right or wrong, tokens to the session they name, minutes to ticks.
Requests that are refused without a write have no step. `purge_expired_sessions`
(`users/repositories.py:528`), which deletes the rows of sessions whose time has run
out, is left out: nothing under `src/aqos` calls it (an operator may, as a stored
procedure), and a session it deletes could not authenticate anyone any more.

What the code does and the properties therefore leave open: two overlapping failures
count once; a failure that read the counter before a reset writes its count after
it; a lock that has expired leaves the counter where it was, so the next failure
locks at once; suspending a user or changing a password leaves the tokens valid,
though a suspended user's are refused while the suspension lasts; `last_seen` may
move backwards.

### Migrations

A run `Discover`s the files, makes its plan from the rows of `schema_migrations`,
and then executes statement by statement. `ExecuteDDL` first commits whatever the
session holds, then takes effect or fails, and a failure undoes nothing more;
`ExecuteSeed` and `Record` (the version's row) stay in the transaction until the
next DDL statement or `Finish`. `Crash` ends a run anywhere. Statements are
abstracted to what they do to an object: make it unless it is there (`ensure`), make
it and fail when it is (`alter`, `create`), drop it, or insert a row; `MCScripts` has
the shapes of V0001, V0002, V0015 and V0005. Two assumptions say what all the shipped
files have in common: a table, a column or constraint, or a seed is made by one
statement among all of them (`MadeOnce`), and only procedures are dropped, each made
anew by the next statement (`MadeAnew`). `Edit` changes a file that was shipped,
which the checksum detects. What MySQL does is external: implicit commits, row locks
of uncommitted inserts, the errors of the statements.

A crash in the middle of a script leaves half of it behind, whatever
`database/engine.py:43` says of its session; `SchemaIsAsRecorded` and
`RerunCompletes` say what is left to rely on. The one case no rerun repairs is a
script that alters a table: its second run fails on the column that is already
there. `TablesStay` is the weaker promise under overlapping runs, in which a dropped
procedure may be missing between the drop of one run and the row of the other.

### Supervisor, CircuitBreaker, FixedWindow

The package starts no threads and takes no locks. Calls overlap because a supervised
operation may itself call `supervise`, so the calls in progress form a stack
(`calls`) and only the innermost can return. A call passes the limiter, then the
breaker, then the deadline, then its first attempt (`Started`), in the order in
which `supervise` wraps them; every layer is given the start of the call as the
present, so the deadline never expires inside `supervise`, and a breaker opened by a
slow call counts its recovery from that call's start. `supervise` lets its caller name
that present; the model takes the real one, so calls whose time runs backwards from one
to the next are outside it. `Retry` repeats the operation
inside the breaker; `Succeed`, `Fail` and `Interrupt` are the three ways out, the last
recording nothing. Time is relative: ages instead of timestamps, cut off where they
stop to matter. `Clear` forgets the breakers while calls that hold one still run
(`live`). `recent`, `streak` and `probed` are observers.

### BacktestSimulator, Backtest

The simulator's functions are pure and appear as operators over the state. At most one
order is created per bar, so an order and its position are known by that bar, the code's
`order_index`. New positions are appended and closing one keeps the others in order, so
the tuple `open_positions` always stands in the order of these numbers: it is modelled as a
set, and the loops over it (`CloseEach`) as a recursive function that goes through the
numbers and lets each position leave that is due (`CloseDue`), with the state the ones
before it left. The runner's loop has three phases per bar, as
in the code: levels (`NextBar`), signal (`Hold`, `ExitSignal`, `EntryRefused`,
`EntryFilled`, `EntryRaises`), equity (`RecordPoint`); `EndOfData` closes what is
left and adds a second point for the last bar. Any exception ends the run in phase
`failed`, before results are written. The quantity of an entry sized by a risk
fraction is any of `RiskQuantities`; prices and money are integers. With the timing
`next_open` the code fills at the open of the bar at hand, not of the next one, and so
does the model (`BarPrice`).

## 3. Runs

| Run | Question | Instance and why it is enough |
|---|---|---|
| `mode_resolver` | Do gathering and folding end in the strictest mode, with the right explanation? | every context, every requested mode, at most one extra ceiling: the gate's five sources give up to five folds, and one extra already doubles a source |
| `signal_lifecycle` | Do the audit rows tell the truth? | two signals, so a sweep can take both; two seconds, so "before", "at" and "after" an expiry all occur; three rows per signal, which reaches every status |
| `paper_trading` | Do money, signals, decisions and orders agree, and does the service implement the ledger? | one account, balance 2, commission 1, results -2 and +1, so that the floor at zero is hit; one session and one signal, retried after a refusal; two positions and four orders, so that both may be opened and closed; two decisions |
| `paper_accounts` | Is anything booked twice or on the wrong account? | two accounts with two sessions, so that a close may reach across; two positions and four orders, so that both may be opened and closed |
| `overlapping_requests` | What do the rows still promise when requests overlap, and does every request end? | two transactions, the smallest number that races, with a run, two signals and two held positions, so that they may meet on any or none; results -2, 0 and +1, so that a balance may be floored, kept or raised |
| `supervised_calls` | What do limiter and breaker promise together, and does an open breaker let trials through again? | one operation, calls nested three deep, so that two late results may follow a trial; both thresholds 2, windows and recovery of two ticks, two slots per window, two attempts |
| `memory_broker` | Do fills, positions, trades and balance account for each other, also after a call that raised? | three orders and three fills of quantity 1 or 2 at two prices and two times: an order filled in parts, two positions, a fill cut short, a fill without a position and one dated too early all occur |
| `backtest` | Do positions leave where they should, once, and is the drawdown right? | four bars of four kinds (flat, wide enough for every level, above, below), two symbols, two positions at most, four entries with levels on either side, on one side and none, both policies; a cost of one makes entries and the end of the data lose money |
| `migrations` | What does a row in `schema_migrations` promise, and do repeated runs complete? | two runners, four files that make, seed, alter, drop and make anew, one edited file, two crashes: a crash in a run and one in the run that repairs it |
| `user_sessions` | Which failures, touches and revocations survive each other? | two requests at a time of one user with two sessions, a lock after two failures, lock and session of one tick and a clock of one, so that both may have run out |
| `finished_run`, `signal_race` | two statements of the repository the code does not keep, see section 5 | one property each, on an instance as small as the disagreement needs |

Bounds and where they stand: `MaxExtra`, `MaxClock` and `EventIds` (how often a
signal can change), `MaxDecisions`, `Orders` and `Positions` (rows that may be
written) and `Txns` (each served once). All are constants. The theorems below hold
for every value of them; the invariants of `overlapping_requests` were also checked
once with three transactions, a signal and two held positions (6.3 million states),
with the same result. Sessions are interchangeable in `paper_accounts` and `finished_run`, instances of
`MCPaperTrading`, and form their symmetry set, as do the clients of
`MCUserSessions`; the properties checked there are invariants and step properties,
for which that is sound. Bounds of the other modules: `MaxOrders` and `MaxFills`
(MemoryBroker), `MaxBars` (Backtest), `MaxEdits` and `MaxCrashes` (Migrations),
`MaxSessions` and `MaxClock` (UserSessions), `MaxDepth` (Supervisor). Deadlock is
checked in `supervised_calls` and `migrations`, which go on forever. It is not in
the others: every instance ends when its ids, seconds, bars or requests are used up,
and a wait between transactions is a liveness question (`EveryRequestEnds`), not an
absence of steps.

### What the properties say

- `StrictestWins`, `DowngradeIsExplained`, `BreachForbidsOrders`, `NeverUnchecked`:
  the resolved mode is the strictest of all and one of them, is blamed on someone
  exactly when it was lowered, never sends orders after a breach, and the resolver
  never meets the empty set for which it raises.
- `TrailExplainsStatus`, `ExpiredWasDue`, `ExecutedWasApproved`, `EndedIsFinal`: the
  audit rows are one unbroken chain of legal moves, no two of which leave the same
  status - so the rows alone give their order, however their times and ids sort -, an
  expiry row is never dated early, the last row before an execution is its approval,
  and an ended signal never moves again.
- `SignalConsumedOnce`: whatever was refused, retried or closed, a signal is
  executed exactly when one order was filled for it, and as long as it is approved
  nothing that earlier attempts left behind blocks the next.
- `DecisionsExplainOrders`: each order a caller sent has exactly one decision, on
  the same account, session and signal. A refusal leaves its decision and at most one
  rejected order, never a fill or a position: each position goes back to a filled order
  of its own. (The documentation promises that it leaves no order; see section 5.)
- `BookedOnce`, `BookedOnSessionAccount`: each closed position has exactly one trade,
  on its own account, and no row sits on another account than its session, although
  a CLOSE order may close a position that another session opened.
- `BalanceCoversBooks`: the balance is never less than the trades and entry
  commissions explain; the floor at zero only ever adds.
- `ImplementsLedger`: every step is one of the ledger's or a stutter.
- `ClosedIffTraded`, `LastEventIsStatus`, `BalanceIsReported`, `EndedRunStaysEnded`:
  what survives overlapping requests. A failed request leaves no half-closed
  position, and a position is booked twice only by requests neither of which could
  read the other's rows; the status of a signal is what its last row says even after one request
  overwrote another; the balance is always one that some trade reports, even when an
  update was lost (it need not be the *last* trade's: the ORM leaves the column alone
  when the value it computed is the one it read); and
  a stale `pause` or `start` cannot reopen an ended run, because the run keeps its
  end time and the schema refuses an open run that has one.
- `EveryRequestEnds`: no request waits forever.
- `FailuresInARow`, `RunningBeforeOpening`, `ClosedByProbe`: a closed breaker counts
  exactly the failures since the last success; nothing starts under an open breaker;
  and a breaker closes only when a call let in since it half-opened has succeeded or
  was interrupted. The last is weaker than one would wish: successes of calls started
  before the breaker opened count as well, and after an interrupted trial two of them
  close it.
- `BurstBound`: over any stretch of one window's length at most twice the limit pass.
- `Recovers`: an open breaker leaves that state; a rejection does not restart the
  recovery time.
- `NothingClosedUnfilled`, `BalanceAddsUp`, `TradesExplainPositions`: what is open and
  closed is what fills opened and closed; the balance is the start plus what was
  realised less every commission but those of orphaned fills; trades account for what
  was closed of a position, or, when a fill is dated too early, for less.
- `LeavesAtFirstTouch`, `OneFate`, `DrawdownIsWorst`: see the comments in `Backtest`;
  together they say that no position outlives a bar that touches its levels, that
  nothing is closed twice or forgotten, and that the one pass over the curve finds the
  worst fall in amount and in fraction.
- `SchemaIsAsRecorded`, `TablesStay`, `RerunCompletes`: a recorded version is complete
  unless runs overlapped; what it added for good is there even then; repeated runs get
  everything recorded unless a shipped file was changed or a crash cut an altering
  script in two.
- `CountIsExact`, `LoggedOutEverywhere`, `FirstRevocationStands`: without overlapping
  logins the counter is the number of wrong passwords since its reset; what a
  logout-all covered is never alive again; a revocation is neither moved nor undone.

### Fairness

Three specifications assume some.

`PaperRequests!FairSpec`: weak fairness of each request's
`Acquire` and of its `Commit` or `Violate` - the server runs its threads, and the
database grants a lock nobody holds against it - and of `BreakDeadlock`, because
InnoDB detects deadlocks. `Begin` is not fair (nobody has to send a request) and
neither is `Abandon` (nothing has to time out), so the result does not lean on
timeouts.

`Migrations!FairSpec`: weak fairness of each runner's `Step` - a run goes on unless it
crashes or waits for another's lock, and somebody runs the migrations again when a run
has ended. `Ship`, `Edit` and `Crash` are not fair, and crashes are finitely many.

`Supervisor!FairSpec`: time passes, an operation that was called comes back, and
callers keep asking (strong fairness of `Supervise`, because rejections and full
windows interrupt it). The last two are assumptions about the callers, for which the
package itself does nothing; without them `Recovers` says nothing.

## 4. Proofs

All theorems hold for every value of the constants that satisfies the named
assumptions of the module: the bounds are naturals, amounts, prices and times are
integers, thresholds, windows and attempts are at least one, `None` is no row, and a
request's new position is not a held one. TLC evaluates the assumptions in every run.

- **GateProofs**, of ExecutionMode - `ModeTypeCorrect`; `ResolverIsStrictest`, for any number of
  ceilings, through the loop invariant `FoldInv`: the mode reached so far is at or
  below the request and each ceiling already folded, and equals one of them.
  `GateNeverUnchecked` through `GatherInv`: after the account's step the list is
  never empty, and no later step removes a constraint. `DowngradeIsExplainedHolds`
  from `FoldInv` and `BlameInv` (the blame is what the fold's result binds).
  `BreachForbidsOrdersHolds` through `CeilingsInv`: what a stage has gathered stays in
  the list, so a breach found at one stage still caps the fold at the end.
- **GateProofs**, of SignalLifecycle - `TypeCorrect`, `TrailIsComplete`,
  `ExecutionFollowsApproval`, `ExpiryIsTruthful` and `EndIsFinal`. Seen from one
  signal, a step creates it, moves it or leaves it alone (`StepPerSignal`), which
  reduces every invariant to three cases. None of the properties is inductive as it
  stands: `SignalInv` adds that a signal that does not exist has
  no rows, that the newest row is the one that set the present status, that every row
  leaves a status the signal is past (`StatusRank`), so no two leave the same, and that
  the approval is that of the row before; then a move extends the chain by one legal row.
- **PaperTradingProofs** - `TypeCorrect`, and with `BaseInv` (an open position has
  an account and a session, a created session an account): `SignalsPayOnce`,
  `ClosesAreBookedOnce`, `ActivityStaysOnItsAccount` and
  `TradingImplementsLedger`. Every step has one of five shapes as the books see it
  (`StepShapes`), and each invariant is proved over the shapes. That a close moves the
  money of the account its position is on (`ClosesAreOwn`) and that activity stays on its
  account need `Ownership`, positions sit on the account of the session that opened them,
  and `SweepPlaced`: what a sweep still has to visit is on the account it sweeps, and so
  is its session. `SignalsPayOnce` needs that a position, and an order that was not turned
  away, names no signal but an executed one (`NamedAreSpent`).
  `DecisionsAreTheTrail` needs `TrailInv`: no decision and no position points at an order
  that is not written yet, or a new order would inherit one (`OpenedOnce`).
  `BalanceCovers` needs `CashInv`: an account has entered finitely
  many positions and an unused position is on none, so that an entry adds exactly one
  commission to what the balance has to cover, and a close exactly one net result.
- **PaperRequestsProofs** - `RowsCorrect`: `RowsInv` is inductive. It says that the
  committed rows are consistent (`Books`, the constraints), that a snapshot is
  well typed, that a request's own position does not exist before it commits
  (`Fresh`), and that what a working request closes exists (`Working`). From it follow
  `TrailFollowsStatus`, `BalanceHasItsTrade` and `EndsAreFinal`, and with `ReadInv`
  (whoever read the order of a close read its position closed, and what a request closes
  it read open) `NoHalfClose`. The
  argument never uses the locks: consistent writes over consistent rows stay
  consistent, however stale the snapshot. The locks matter only for liveness, and
  `TypeCorrect` adds that they stay within their plans (`LocksInv`).
- **SimulatedTradingProofs**, of MemoryBroker - `NothingClosedUnfilledHolds`,
  `BalanceAddsUpHolds`, `TradesExplainPositionsHolds`, for any number of orders, fills,
  positions and trades.
  The three are inductive together with `RowsFit`: types, and that fills refer to
  orders, trades to positions and orphans to fills of closing orders. Each action
  appends a row or changes one, so each proof comes down to what a sum does when one
  term joins or changes. The sums therefore range over columns of the tables
  (`Opened`, `Closed`, `Charged` and the others in `MemoryBroker`).
- **SimulatedTradingProofs**, of Backtest - `LeavesAtFirstTouchHolds`, `OneFateHolds` and
  `DrawdownIsWorstHolds`, for any bars, signals, costs, sizes and limits. They follow from
  `BacktestInv` (`BacktestInvHolds`), which has four parts. `RunFits` is types. `BooksInv`
  adds to the bookkeeping that a position is known by the bar of its own entry and that
  no two share one, or `Without` could take out more than the position that left; and
  that before the signal of a bar nothing was entered on it. `TouchInv` states the
  property with a bar's levels instead of the trades' reasons: no bar after an entry
  touches an open position's levels, and every trade left in time (`LeftInTime`).
  `CurveInv` says that each point was taken from the greatest equity before it and that
  the running peak is that of all points.
  A bar may close many positions, so the induction is over the turns of the loop as well:
  `LoopCarries` carries any set of states that `CloseDue` does not leave through the
  loop, and `CloseEachPasses` picks the set of states whose books agree, whose positions
  due up to this turn have left and whose others are untouched. It is applied to the
  levels (`LifecycleTouches`) and to the closes of a signal and at the end of the data
  (`CloseAllTouches`). That a balance or a price raises in the middle of the loop is one
  of the cases: the run is then `failed`, and its books hold the closes made before.
  `DrawdownIsWorst` is a second induction, over the points the pass has seen
  (`PassExists`, `FoundNext`, `CurveFound`): after n of them the amount is the greatest
  fall, and the pair kept is a fall that was reached and that no other exceeds as a
  fraction. Fractions are compared by cross products; that the comparison is transitive
  needs that the divisors are positive (`Cross`, `HigherIsWorse`), which they are because
  every peak is at least the initial balance.
- **SupervisorProofs** - `TypeOKHolds`, `FailuresInARowHolds`,
  `RunningBeforeOpeningHolds`, `ClosedByProbeHolds` and `BurstBoundHolds`, for any
  thresholds, window, attempts and depth. `IInv` says that ages never increase along
  the stack of calls (`StackOrder`), that a trial call knows the registered breaker
  (`TrialsLive`), that a half-open breaker none of whose trials has come back has one
  running, above which only other trials of it run (`TrialRuns`), and that an open
  breaker's count leaves room for each call still running under it (`FailuresFit`). `ClosedByProbe` does
  not follow without `TrialRuns`: a late success of an older call could close the
  breaker first. `BurstBound` needs `LimiterInv`: what was let in since the window began
  is no more than it has counted, and what was let in before no more than the limit;
  when time passes, both sums shift by one age.
- **UserSessionsProofs** - `CountIsExactHolds`, `LoggedOutEverywhereHolds` and
  `FirstRevocationStandsHolds`, for any number of clients, users and sessions. `IInv`
  adds that requests and logouts name sessions that exist (`SessionsExist`), or a session
  issued later could appear among those already logged out, and that until the logins of
  a user overlap at most one is under way and the credential is what it read
  (`OneLogin`).
- **MigrationsProofs** - `TablesStayHolds` and `SchemaIsAsRecordedHolds`, for any files
  that satisfy the two assumptions, any number of runners, edits and crashes. `BaseInv`
  is types, that a run applies files that were shipped, and that a seed waiting in a
  transaction is its version's. `TablesStay` needs `KeptStays`: what a run is about to
  record, or has executed of the next version, is in the schema or, as a seed, in its own
  transaction, so a commit brings row and seeds together and a rollback loses both.
  `SchemaIsAsRecorded` needs `OneRun`, which holds until two runs have been active
  at a time: the versions recorded, or to be with the commit, are all those up to one
  (`Sound`); the run's plan is what is left of its files; and the statements behind the
  next one have made what they make, but for a procedure just dropped (`DoneBy`). A
  statement of a version not yet reached may then disturb any object without a claim
  about it, since that version is itself a later maker. That a failed run's half applied
  script is repaired by the next one is not proved: it is false of scripts that alter a
  table (see `RerunCompletes`).
- **SumTheorems** - the sums above are `SumFunctionOnSet` of the community modules, a
  recursive function over the subsets of its index set. `SumAdd`, `SumRemove`,
  `SumChange`, `SumUnion`, `SumShift`, `SumMonotone` and the others say how a sum changes
  with its set or its terms, over any finite set of integers. The library's induction
  theorems cannot be instantiated by the installed provers; the well-founded orderings can: each
  fact is shown to hold because a least subset for which it fails would have a smaller
  one (`MinimalSubset`, `NoMinimalFailure`).

The inductive invariants were checked by TLC on the runs' instances before they were
proved.

Every invariant and every action property that a passing run checks is stated by a
theorem. Model-checked and not proved: the three liveness properties `EveryRequestEnds`,
`RerunCompletes` and `Recovers` (liveness under fairness is out of the prover's reach) and
the two violations.

## 5. Where the code and its documentation disagree

| Run | The repository says | The code does |
|---|---|---|
| `signal_race` | `execution_service.py:372` of marking a signal executed: "this transition is always legal" | two overlapping requests both read the signal approved and both fill an order for it; the second marks executed what already was, and `signal_events` has a row from approved to executed twice |
| `finished_run` | `session_service.py:444` "A paused or finished run must not silently accept more activity." | the close endpoint does not look at the session's status and books an order, a fill and a trade under a run that has ended |

One more statement is not kept, and has no run of its own because `paper_trading` shows
it in passing: `commands.py:140-143` says that "a refusal must not leave an order, a
fill, a position or a trade behind", and
`tests/integration/test_http_api_paper_actions_mysql_integration.py:6` that "A refused
attempt must leave a decision and nothing else." Whenever the columns of `paper_orders`
can hold the attempt (`_can_persist_rejection`, `execution_service.py:810`), `_reject`
(`execution_service.py:768-790`) writes a rejected order: for a second order on a spent
signal, a signal that is not approved, an execution mode that sends no orders, and every
other reason but those of `UNPERSISTABLE_REJECTION_REASONS` (line 114). The submit route
returns that order in its outcome (`_collect_outcome`, `commands.py:448`). A run
that stated the sentence would find it violated by the first such refusal
(`RefuseWithOrder`). `DecisionsExplainOrders` states the rest of the sentence, which does
hold - no fill, no position, no trade - and that the order left behind is rejected and
explained by the refusing decision; `SignalConsumedOnce` that it blocks no retry.

`routes_signals.py:159` promises the audit trail "oldest first". `list_events`
(`signals/repositories.py:381`) sorts by a time of whole seconds, for some rows the
client's, and then by a random id, so rows may come back out of order. What a reader can
rely on is that their statuses link up in one order only (`TrailExplainsStatus`).

The same missing coordination shows in other places, which no run repeats: two
overlapping decisions on one signal may move it after it ended
(`signals/repositories.py:195`, against `signals/models.py:63`), two overlapping closes
both book a trade (`execution_service.py:528`, against `commands.py:419`), and one of
their results is missing from the balance (`execution_service.py:853`, against
`account_analytics/metrics.py:396`). What does survive such overlaps is what the run
`overlapping_requests` checks.

## 6. Not modelled, and why

Order types, stop and target arithmetic, sizes and prices are data to paper trading;
the gate's rules on them are inputs. Session results and history queries, preferences
and the read routes change no row modelled here. Creation, archiving and the default
flag of accounts are single-row updates outside the requests that race. Of
`funded_rules` and `notifications` the repository has the rows and the arithmetic and
no caller that runs them: no service evaluates a rule during trading and no worker
delivers a notification, so they have no protocol yet. The promotion registry is a file
one person edits from the command line. Numerical pipelines (features, training,
strategy, risk, evaluation), formatting, adapters, dashboards and other I/O have no
state machine to check; they are most of the source.

## 7. Plan

The plan is carried out: what the runs check and the prover can reach is proved. What
would extend the model is listed in section 6, with what keeps it out.

## 8. Running it

`tlc -config X.cfg M` checks a run and `tlapm MProofs.tla` a module of proofs; the
table in section 3 names the questions and `PROJECT.json` the module, the
configuration and the properties of each run. The passing runs take between five
seconds and two and a half minutes with two workers; the proofs of all modules about four
minutes.
