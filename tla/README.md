# Hase Bench in TLA+

This directory holds TLA+ models of Hase Bench, the TLC configurations that
check them, and TLAPS proofs about all of them. Paths such as
`src/hasebench/cli.py` name files of the repository; task directories are
abbreviated (`rust_004` is `src/tasks/rust/rust_004_bounded_worker`).

Run a model with `tlc -config X.cfg M.tla`, check the proofs with
`tlapm M.tla` for the modules whose name ends in `Proofs`. `PROJECT.json` lists
components, runs, the source lines of every definition, hazards, theorems, and
one mutant per property: a plausible bug that the property must catch.

## 1. The system

Hase Bench gives an AI agent a copy of a programming task, builds and tests
what it leaves behind, and reports the results. Two kinds of code carry logic:
the harness in Python, and the reference solutions of the tasks, among them
small concurrent libraries with written contracts (`TASK.md`).

| Component | State | Operations | Interacts with |
|---|---|---|---|
| Workspaces (`hasebench/workspaces.py`) | directories under `work/`, their marker files | `prepare_workspace`, `discover_workspaces` | file system, `git init` |
| Runs and batches (`runs.py`, `cli.py`, `reports.py`) | run metadata, summary files, rows and counts in memory | `run TASK`, `run --all`, summary | workspaces, agent, validation; other commands through the disk |
| Validation (`validation.py`) | a `ValidationResult` | the sequence of cmake/ctest/cargo/script commands | external programs |
| Agent process (`agents.py`) | an OS process tree, its output pipe, a time limit | `run`, `_terminate_process_tree`, log telemetry | OS, OpenCode |
| Run history (`history.py`) | none; reads `work/` | `load_runs`, `latest_attempts`, report | the metadata the runs wrote |
| RUST-004 bounded worker | admission and outcome mutexes, a channel, a thread | `try_submit`, `close`/`Drop`, `take_undelivered`, `status` | caller threads, the caller's handler |
| RUST-007 single-flight cache | sharded map, flights, closed flag, clock | `get_or_load`, `len`, `close` | caller threads, loaders that may call back |
| RUST-008 async service | semaphore, chains of requests per stream, first failure, close task | `try_start`, request task, `close`, dropped handles | Tokio tasks, the caller's transport and clock |
| CPP-019 recorder, CPP-020 mini service | queue, worker thread, statistics, parser state | `submit`/`ingest`, `close`, snapshots | producer thread, the caller's sink |
| CPP-015 dispatcher | subscriptions, next id | `subscribe`, `emit`, `reset`, re-entrantly | callbacks |
| CPP-014, RUST-005 parsers | buffered bytes, finished messages, error | `push`, `finish`, `take` | producer of chunks |
| RUST-006 document service | the store's values, a transaction, middleware list | `execute` | storage and middleware that may fail |
| rust_grep | directories entered, locals of one scan, exit status | walk of the operands, search of a line, scan of an input, records and exit status | file system, standard output that may be closed |
| RUST-003, RUST-002, RUST-001, CPP-021, CPP-017/018 | none or local | sequential computations | none |
| other CPP tasks | starters only | no reference implementation | none |

What is hard here: threads and tasks that interleave between lock regions
(RUST-004/007/008, CPP-019/020), callers dropped or timed out in the middle of
an operation (RUST-008, agent process), failures of one step among several
(worker, cache, harness, RUST-006), kills of a command between two writes
(harness), two commands sharing a directory (harness), chunk boundaries
(parsers), callbacks that change what is being iterated (CPP-015), and running
state that must agree with the whole input (the context windows, spans and exit
status of rust_grep).

What makes each correct, in a line: the worker loses and repeats no job and its
`close` drains; the cache runs one loader per key and is empty once closed; the
service sends a stream in order, one at a time, and closes its transport last;
the harness never shares a workspace between attempts, reports only what is
saved, and never calls a failed run a success; an agent's outcome is the
agent's own, and what a timeout leaves running was out of reach; the report selects the latest attempt; the
recorder and the mini service deliver a prefix of what they accepted and keep the rest;
a parser's results do not depend on where its input was cut; a batch of
document operations is applied whole or not at all; an emission calls whoever
was and stays subscribed, once; rust_grep searches every file once and writes
what `grep` writes.

## 2. Modules

| Module | Models | State and actions |
|---|---|---|
| `FifoWorker` | what RUST-004 promises: a sequential worker | `mode`, accepted jobs, results, recovered jobs |
| `BoundedWorker` | `rust_004/reference/src/lib.rs` | one variable per field of `Admission` and `Outcome`, the channel, the thread's place, each closer's place; one action per critical section |
| `SingleFlightCache` | `rust_007/reference/src/lib.rs` | entries, flights, the stack of calls of every thread, the progress of `close` and `len` through the shards |
| `AsyncService` | `rust_008/reference/src/lib.rs` | the place of every request from `try_start` to its result, semaphore, chain, failure, the close task and its callers |
| `Validation` | `validation.py` | operators only: pipelines, what each command's result does, the outcome |
| `BenchmarkRun` | `cli.py`, `runs.py`, `workspaces.py`, `reports.py` over `Validation` | files of every workspace, saved outcomes, summaries; per command its place, rows and counts |
| `AgentProcess` | `OpenCodeAgentRunner.run` on both platforms | run()'s place, the tree of processes, who holds the pipe |
| `RunHistory` | `history.py` | the saved attempts in the order of their directory names; selection as operators |
| `DeliveryLog` | what CPP-019 and CPP-020 promise: items delivered in order until the sink fails | delivered and undelivered items, closed, failed |
| `NumberedRuns` | sequences numbered without a gap | |
| `MessageRecorder` | `cpp_019/reference/message_recorder.cpp` | the fields of `State`, the writer's place, the closer's place; a step per critical section, call of the sink and use of the condition variable |
| `MiniService` | `cpp_020/reference`: service, queue, parser, statistics | the partial line, the queue, the worker's place, the statistics; history of chunks accepted and events sent |
| `FrameParser` | `rust_005/reference/src/lib.rs` | buffer, frames, state; one round of `parse_available` per step |
| `HttpParser` | `cpp_014/reference/http_parser.cpp` | pending tokens, requests, error; one `push` per step |
| `DocumentService` | `rust_006/reference/src` | the store, the open transaction, where `execute` is among hooks and operations; one call that may fail per step |
| `EventDispatcher` | `cpp_015/reference/event_dispatcher.cpp` | subscriptions of each type, a stack of emissions, each with its snapshot |
| `GrepWalk` | rust_grep `walk.rs` | a stack of entries to look at, directories entered, inputs found |
| `GrepMatcher` | rust_grep `matcher.rs`, fixed patterns | line, cursor, spans |
| `GrepScan` | rust_grep `runner.rs` | options, the locals of `scan`, the records of the input, the exit status; one line per step |
| `MCComponents` | an instance of all modules from `AgentProcess` on that share no state: each behaviour is one of `subject` | |
| other `MC...` | instances for TLC | constants only |
| `BoundedWorkerProofs`, `AsyncServiceProofs`, `SingleFlightCacheProofs`, `BenchmarkRunProofs` | theorems about the module of that name | |
| `ComponentProofs` | theorems about `AgentProcess`, `RunHistory`, `EventDispatcher` | |
| `ServiceProofs` | theorems about `DocumentService`, `MiniService`, `MessageRecorder` | |
| `ParserProofs` | theorems about `FrameParser`, `HttpParser`, `GrepWalk`, `GrepMatcher`, `GrepScan` | |
| `SequenceProofs` | lemmas on sequences, finite sets of numbers and `NumberedRuns` that these share | |

`BenchmarkRun` composes workspaces, validation and reporting; the agent is a
choice of outcomes there and is modelled on its own in `AgentProcess`, since
the rest of the harness sees nothing of it but the outcome.

### Where a step ends

A step ends where another actor can see or make a difference.

* RUST-004: at each critical section. The admission mutex spans several steps
  only in the failure path of the thread (from `Failed` to the published
  outcome), the thread mutex only while a closer joins; both are read off the
  places instead of being variables.
* RUST-007: what runs under a shard's mutex is one step. The first look at
  `closed` and the reading of the clock come before the mutex and form one
  step of their own: `closed` is never reset and is looked at again under the
  mutex, so a close in between changes nothing. The loader's end and `publish`
  are one step, as nothing sees a loader that has ended and not published.
* RUST-008: at every lock, atomic, semaphore operation and await.
* Harness: at every change to the disk and every call of another program. A
  kill may follow any of them.
* CPP-019: at each critical section. Testing the wait's predicate and going to
  sleep are one step, as the mutex is held until the writer sleeps; a
  notification that finds the writer elsewhere is lost, and a wait may end
  unnotified. `close` sets its flag and notifies in two steps.
* CPP-020: at each critical section of the queue, and where the worker calls
  the sink or the statistics. `ingest` belongs to one producer, and parsing
  touches nothing shared, so it is one step with the submission it ends in.
* RUST-005 and CPP-014: at each call of `push`, and in RUST-005 at each round of
  its loop; sequential code, where a step serves to say what holds in between.
* RUST-006, CPP-015: at each call of a hook, of the storage, or of a callback:
  what comes back from there may fail or call again.
* rust_grep: at each entry looked at, span found, line read and record written.

### What is abstracted

Jobs, keys, payloads, errors and processes are model values; a result is named
by what it belongs to. A loader that fails and one that panics are one
`failure`. A workspace name is (second, task, suffix), as the code builds it. A
file is present or absent; metadata that was opened and not finished is a state
of its own. `RunHistory` compares timestamps as the strings `isoformat()`
makes. The clocks of RUST-007 and RUST-008 are injected by callers and move
when they please.

Bytes are tokens. In `FrameParser` a unit is a byte, or one of the two fields of
four bytes, and the checksum is a fold of the same shape as FNV-1a over few
values. In `HttpParser` a token is a CR, an LF or a whole line of one kind. In
`MiniService` it is a field of a record or the end of a line. In `GrepMatcher` a
line is a sequence of letters; in `GrepScan` it is what the matcher and the
search for NUL say of it, and a record is a line number and its kind. A file
system of `GrepWalk` is what its directories hold, with links, loops and special
files; some directories cannot be read, some have no identity, and of some a few
entries are lost, for which one error stands, however many they are.

## 3. Runs

| Run | Instance | Shows |
|---|---|---|
| `worker` | 4 jobs, 2 slots, 2 closers, a handler that may succeed, fail or panic | order and conservation of jobs, both `expect()`s, what a returned `close` guarantees, `close` returns, and that the threads implement `FifoWorker` |
| `service_safety` | 3 requests, 2 streams, 3 submitting threads, 2 permits, one handle that may be dropped, one deadline, one close | permits, one failure for all observers and for `close`, nothing after the transport's close |
| `service_serial` | 3 requests of one thread on one stream, 2 closers | one send at a time, in order |
| `service_stuck_stream` | 3 requests, one on a stream whose sends may hang | the others end; `close` returns unless such a send is pending |
| `service_overlap` (violation) | as `service_serial`, one handle may be dropped | finding 1 |
| `service_reorder` (violation) | 2 threads on one stream | finding 2 |
| `bench_safety` | a batch of two tasks and a single run of one of them, in one second; every call may fail; the single run may be killed | no shared workspace, marked means prepared, rows and counts agree with what is saved, success is earned; a command stands still only at its agent or a validation command |
| `bench_git_failure` (violation) | `git init` may return nonzero | finding 3 |
| `agent_posix_tree` (violation) | an agent and two more processes, POSIX | finding 4 |
| `cache` | 2 threads, 4 keys in a shard of two values and one of one, nested loads, one loader that may never end, a clock that ticks once; 3 calls beside a `close` or a `len`, or 4 calls for the three keys of the larger shard | single flight, eviction, shutdown, progress |
| `components` | the modules below, one `subject` in each behaviour | one property or two for each |
| `dispatcher_self_reset` (violation) | 2 subscriptions, 1 emission | finding 5 |

`components` in detail:

| Subject | Instance | Properties |
|---|---|---|
| agent | an agent and two more processes, Windows, where `taskkill` may fail on any of them or not start, and POSIX | the outcome is the agent's own; on Windows a timeout ends the run unless a process escaped or `taskkill` failed on it |
| history | 4 directories, 2 versions, corrupt metadata, sorted in anywhere | exactly the latest attempt of each version is selected |
| walk | 2 directories that hold up to two entries each, files, links to either, loops, broken links, special files; nothing wrong with a directory, or one that is unreadable, nameless or torn; 5 lists of operands; with and without `-r`, `-R`, `--include`, `--exclude` | `EveryFileOnce` |
| matcher | texts of up to 4 letters out of 3, 2 patterns out of 4 (the empty one, one with upper case and a blank, one that overlaps itself), all of `-x`, `-w`, `-i` | `SpansAreTheSearch` against a search that knows no cursor |
| scan | 2 inputs with 4 lines in all, 1 line of context on either side, `-q -l -L -c -o -v` in the combinations that interact, NUL bytes, unreadable inputs, a pipe closed at any record | `OutputIsGrep` against the whole input; `StatusIsHonest` |
| frames | units of 3 values, payloads of at most 1, 14 units in chunks of at most 3 | `FramesAsSpecified` against the wire format |
| requests | 7 well-formed streams and all that come of one token dropped, replaced or added in their first 8, and one whose head is too long before it ends badly; every way to cut them | `RequestsIndependentOfCuts` |
| recorder | capacity 2, 4 messages | `RecorderDrains`, and that it implements `DeliveryLog` |
| service | capacity 2, 4 chunks out of 11, among them halves of records, two at once and malformed ones, 2 sources with thresholds | transactional `ingest`, statistics, `DeliveryLog` |
| documents | 2 operations on 2 keys, 2 hooks, batches one after another | a batch is applied whole or not at all; hooks and operations are called in order |
| events | 3 subscriptions to 2 types, 3 emissions, nested 2 deep | `DispatchInOrder` |

**Bounds.** Each is the least that reaches what its properties are about. Four
jobs and two slots: a job in hand, a full queue and a refused submission at
once. Three requests: a predecessor, one in the middle that can leave, and a
successor. One second (`Seconds = {1}`) is the worst case of the harness: every
name collides; with more seconds there are fewer collisions. Three cache calls
beside a `close` or a `len`: leader, waiter and late arrival, over both shards.
Four calls for three keys and a quota of two: two values, a hit on the older one,
and a third value, whose eviction must choose between them. `MCSingleFlightCache`
splits the instance into these three plans, since all at once is beyond TLC; each
step of a plan is a step of `Next`. One line of context and four lines: two groups that touch, overlap or are
parted, and a window cut by the end of the input. Fourteen units: two whole
frames and a part of a third. Four messages and capacity 2: one in the writer's
hands, a full queue and a refusal. `MaxSuffix`, `MaxCalls`, `MaxTime`,
`MaxRuns`, `MaxSecond`, `MaxSubmits`, `MaxIngests`, `MaxFed`, `MaxChunk`, `MaxLines`, `MaxPatterns`,
`MaxOperations`, `MaxSubscribed`, `MaxEmitted` and `MaxNested` cap what the
code does not; they appear in guards only. Deadlock is checked for the worker
and the service, whose finished states stutter explicitly or offer further
calls; the other systems do stop, and their configurations say so.

**Fairness.** Weak fairness of: the worker thread, tasks the runtime can poll,
callers inside an operation, and what a command of the harness does itself
(`OwnStep`), which are threads or processes the operating system schedules.
External work is fair only where the contract says it ends: handlers and
transports answer except on `Stuck` streams, loaders end except for `StuckKeys`.
The agent and the validation commands are under no fairness: both have a time
limit, but once it has passed the harness waits without one for whoever holds
the pipe (`agents.py:110`, and on Windows `subprocess.run` of `validation.py:46`).
Nobody is obliged to submit, call, close, drop a handle or let the clock
pass (in `AgentProcess` real time does pass). The agent's processes have none.
In `components` only the agent's `run()` is under fairness (its steps and the
passing of the time limit); the recorder states as an invariant that no wake-up
is lost, which is what its liveness needs. Neither the cache's liveness nor its
waiting threads need `close` to go on.

**What the liveness properties rest on.** The contract's condition is part of
the property: `CallsReturn` speaks of keys whose loaders, and the loaders those
may ask for, are not stuck; `TimeoutEndsRun` allows for a process that keeps the
pipe because it escaped `taskkill` or because `taskkill`, whose result nobody looks
at (`agents.py:141`), failed on it; `CommandEnds` allows for a command that waits
for ever for its agent or a validation command. The two belong together: what
`AgentProcess` leaves open is where a command may be held up.

## 4. Findings

1. **Two sends of one stream overlap** (`rust_008` lib.rs:271). A queued request
   that is cancelled or expires removes itself from the chain and wakes its
   successor although its own predecessor is still sending. `TASK.md:102`
   promises at most one active send per stream.
2. **Sends out of order** (`rust_008` lib.rs:184). The number is taken before the
   lock on the chain, so of two threads submitting on one stream the later
   number can enter first.
3. **A failing `git init` ends a batch** (`workspaces.py:71`). Its
   `CalledProcessError` is caught neither by `_run_all` nor by `main`, although
   `progress.md:17` says later tasks continue.
4. **Children survive a timeout on POSIX** (`agents.py:144`). Only the agent's
   own process is killed; the docstring promises every process it spawned.
5. **A callback may be destroyed while it runs** (`cpp_015` event_dispatcher.cpp:13).
   `reset()` by the running callback erases its own `std::function`, or moves
   another over it. `TASK.md:13` calls self-reset valid.

Disagreements met while modelling for which no run is spent (the second, third
and last are hazards in `PROJECT.json`):

* two commands that end in the same second write the same summary file
  (`reports.py:53`), while `README.md:159` promises one for every command;
* an `OSError` of a validation command loses the metadata of a finished agent
  run (`validation.py:46`, `README.md:157`);
* a timestamp on a whole second has no fraction and sorts after the later ones
  of its second (`history.py:99`), so an older attempt can be selected; the
  instance of `RunHistory` uses readings with a fraction;
* whoever survives a timeout, on POSIX the agent's children, on Windows what
  escaped `taskkill` or what it failed on, can hold the pipe, and the second
  `communicate()` waits without limit (`agents.py:110`);
* in RUST-007, loads that ask for each other's keys from two threads wait for
  ever; `TASK.md` allows a loader to load another key and asks for
  `ReentrantLoad` on the same thread only. The instance has no such cycle.

## 5. Proofs

Every theorem holds for all values of the constants that satisfy the named
`ASSUME`s of its module, which are what the code's constructors and tests
guarantee; the bounds of the runs appear in guards only, so a theorem holds for
each of them. Hypotheses beyond that are part of a theorem's statement. Five
theorems have one:

| Hypothesis | Theorems | Why |
|---|---|---|
| `OrderlyUse`: a stream's requests come from one thread, no handle is dropped, no deadline is reached | `OneSendAtATime`, `SendsFollowNumbers` | without either half they are false: findings 1 and 2 |
| `0 \notin Micros`: no clock reading is a whole second | `LatestIsSelected` | without it it is false: the hazard at `history.py:99` |
| `Unambiguous`: no record names the source `default` | `IngestsAreTransactional` | the event of such a record is that of one which names none, so the chunk cannot be read back from the events |
| `NoLoadCycle`: loaders do not ask in a circle for each other's keys | `NoCircleOfWaits` | without it it is false: the hazard at `rust_007` lib.rs:162; TLC finds the two threads when `MayLoad` is a cycle |

Almost no checked invariant is inductive. The proof modules strengthen each with
what the place of every actor says about the rest of the state, and prove that
the result holds initially, that every action preserves it (a lemma or step for
each action, below it a step for each part it can disturb), and that it implies
the property. Action properties and refinements are then proved of single steps
from states that satisfy the invariant.

### The bounded worker (`BoundedWorkerProofs`)

| Theorem | Statement |
|---|---|
| `Invariance` | `Spec => []IInv` |
| `TypeCorrect` | `Spec => []TypeOK` |
| `AcceptedJobsInOrder` | `Spec => []LedgerInOrder` |
| `NoExpectPanics` | `Spec => []ExpectationsHold` |
| `CloseDrains` | `Spec => []ReturnedCloseHasDrained` |
| `WorkerRefinesFifo` | `Spec => Abstract!Init /\ [][Abstract!Next]_(Abstract!vars)` |
| `EndIsInSight` | `Spec => CountsDown` |
| `CloserIsNotStuck` | `Spec => []ClosersAwaitWork` |

That a drained failure continues the results needs to know that nothing is in
hand meanwhile; that the `expect()` on the sender holds needs to know that the
sender goes exactly when `Running` does. `IInv` adds:

* `HandInv`: for each place of the worker thread, which of its containers may
  hold anything and which statuses are possible;
* `OrderInv`: every container is a run of consecutive numbers, and the runs
  meet: `LedgerInOrder` container by container, which steps can be checked
  against without taking a concatenation apart;
* `RecoveryInv`: after a published failure, the failed job heads what is
  recovered;
* `JoinInv`: the join handle is gone only if its taker is still joining or the
  thread is over, and whoever returned found it over.

`WorkerRefinesFifo` is the safety half of `ImplementsFifoWorker`, under the
mapping that the run checks. `HandlerOk` is `Serve`, `HandlerErr` is `Fail`
already (nobody can look before the admission mutex is released),
`HandlerPanic` is `Crash`, `MarkClosed` is `Stop`, the first `close` is
`RequestClose`. Receiving, draining and publishing are stutters: receiving moves
a job within what is pending, draining one within what is recovered, and
`MovesUnseen` proves that neither concatenation changes. `IInv` gives the rest:
a job in hand means `Running` or `Closing`, its number is the one `Accept`
counts, the queue is empty when the thread ends.

The last two are what `CloseReturns` rests on. `StepsLeft` bounds the steps the
thread has left: two for each job in the queue and those of its place. From the
end of admission on each of its steps lowers the bound and nobody raises it, so
callers that go on submitting cannot hold up a `close`. Whoever waits in `close`
then waits for at most `2 * Capacity + 3` steps, and never for a thread that
sleeps on an empty queue. That the steps are taken is fairness.

### The asynchronous service (`AsyncServiceProofs`)

| Theorem | Statement |
|---|---|
| `Invariance` | `Spec => []IInv` |
| `PermitsAlwaysAccountedFor` | `Spec => []PermitsAccountedFor` |
| `NothingFollowsTransportClose` | `Spec => []NothingAfterTransportClose` |
| `FirstFailureStands` | `Spec => []OneFailure` |
| `OneSendAtATime` | `OrderlyUse` gives `Spec => []OneSendPerStream` |
| `SendsFollowNumbers` | `OrderlyUse` gives `Spec => SentInSequenceOrder` |
| `NobodySleepsForEver` | `Spec => []NobodyWaitsInVain` |

`PermitInv` counts the permits by the places of the requests that hold them and
by what the close task has gathered. So once it has them all, no request is
under way (`CloseInv`): nothing is sent from then on, and the failure the close
task reads before it stores its result can change no more (`FailureInv`). The
first three and the last need no hypothesis: they hold under drops, expiries and
any number of submitting threads. For the two of order, `TailInv` says that the tail of a
stream has its highest number, and `ChainInv` that each request waits for the one
with the next lower number, so that only the lowest is past its wait.

`NobodyWaitsInVain` is what `AcceptedRequestsEnd` and `CloseReturns` rest on. Of
any requests that wait for a predecessor, one waits for a request that does not
wait with them and has yet to notify; a caller asleep in `close` has a close task
that can go on, or that lacks the permit of a request which does not wait.
`WaitInv` says why: a request enters the chain behind one that is in it, so the
chain has no circle (stated of sets of requests, without induction), and it
leaves with its notification whether it ended, was dropped or expired. `SleepInv`
says that a caller arms its wait before it looks at the result, so the one
notification of the close task cannot be missed, and that no permit is free while
the close task gathers them.

### The single-flight cache (`SingleFlightCacheProofs`)

| Theorem | Statement |
|---|---|
| `Invariance` | `Spec => []IInv` |
| `OneLoader` | `Spec => []OneLoaderPerKey` |
| `OneAnswer` | `Spec => []OneAnswerPerFlight` |
| `EntriesBackedByFlights` | `Spec => []EntriesMatchFlights` |
| `ClosedForGood` | `Spec => []EmptyAfterClose` |
| `EvictionIsFair` | `Spec => EvictsLeastRecent` |
| `WaitersHaveALoader` | `Spec => []SomebodyLoads` |
| `NoCircleOfWaits` | `NoLoadCycle` gives `Spec => []NobodyWaitsInVain` |

The code keeps apart the loader a thread is in, the flight it publishes to and
the loading entry of the key. `LoaderInv` and `EntryInv` say that they
correspond, in both directions, for every depth of nested calls; while the cache
is closing only the direction from the entry survives. `QuotaInv` counts the
values of a shard: `publish` adds one and evicts as many as are over, and
distinct recencies make the least recently used one unique. `EvictsLeastRecent`
speaks of a history of the uses, not of the recency the code keeps: `UseInv` says
that the recency of a value is the place of its last use in that history. `ClosedInv` is what
lets a `publish` after the drain add nothing: it looks at `closed` under the
shard's mutex.

The last two are what `CallsReturn` rests on. `WaitInv` says that a caller asleep
in `Flight::wait` finds its flight in the entry of its key, and that the flight is
another thread's: nothing takes an entry from a flight that stays open
(`LoadsStay`), neither a drain nor a publication of another flight. By `EntryInv`
its owner is inside the loader. `NestInv` says that around every nested call is
the loader that made it. So threads that all sleep for each other would be in
loaders of keys that ask for each other in a circle, which `NoLoadCycle` excludes.

### The benchmark run (`BenchmarkRunProofs`)

| Theorem | Statement |
|---|---|
| `Invariance` | `Spec => []IInv` |
| `WorkspacesAreNeverShared` | `Spec => []NoSharedWorkspace` |
| `MarkersAreHonest` | `Spec => []MarkedMeansPrepared` |
| `RowsAreWhatWasSaved` | `Spec => []RowsMatchRecords` |
| `SuccessNeedsEverything` | `Spec => SuccessIsEarned` |

One fact carries the argument: creating a directory that is there fails, so a
directory has one owner for ever (`OwnerInv`), and whoever probed a name that was
free and lost the race does not use it. With the owner unique, what it has copied
(`PreparedInv`) and saved (`RecordInv`) is changed by nobody else, whatever calls
fail and whichever commands are killed. `Validations` describes a validation
under way: its gates have passed unless it has ended, the suites to come have not
run, and those behind it have. So one that ended in success has run both
(`BothSuitesRan`), which `OutcomeOf` does not ask: it takes a suite that was not
run for one that passed.

### Agent process, run history, event dispatcher (`ComponentProofs`)

| Theorem | Statement |
|---|---|
| `OutcomesAreEarned` | `Spec => []OutcomeIsTheAgents`, on both platforms |
| `TimeoutOverlooksNothing` | `Spec => []SurvivorsMissed`, on both platforms |
| `LatestIsSelected` | `0 \notin Micros` gives `SpecHistory => []SelectedIsLatest` |
| `DispatchIsOrdered` | `SpecDispatcher => []DispatchInOrder` |

`TimeoutOverlooksNothing` says what is left of the claim that finding 4 refutes:
when `run()` waits for the pipe after a timeout the agent itself is gone, unless
`taskkill` failed on it, and on Windows whatever still runs was out of reach of
`taskkill` when it walked the tree, or is what it failed on (`spared`); for any
number of processes started in any order. `TreeInv` needs that what
was started has the agent among its ancestors, and that those were all started.

`LatestIsSelected` proves that the comparison of timestamps as strings orders
readings with a fraction as the clock does, and that the fold over the attempts
keeps the greatest of each configuration and version. For the dispatcher,
`Sound` says of every emission on the stack who was subscribed when it began, who
of them has run and who is still to run; a subscription, a reset or a nested
emission leaves every other emission sound.

### Document service, mini service, message recorder (`ServiceProofs`)

| Theorem | Statement |
|---|---|
| `BatchesAreAtomic` | `SpecDocument => []BatchIsAtomic` |
| `CallsAreInOrder` | `SpecDocument => []CallsInOrder` |
| `ServiceRefinesLog` | `SpecMini => ServiceImplementsLog` |
| `IngestsAreTransactional` | `Unambiguous` gives `SpecMini => []IngestIsTransactional` |
| `StatisticsAlwaysAddUp` | `SpecMini => []StatisticsAddUp` |
| `RecorderInvariance` | `SpecRecorder => []RecorderInv` |
| `RecorderAlwaysDrains` | `SpecRecorder => []RecorderDrains` |
| `RecorderRefinesLog` | `SpecRecorder => RecorderImplementsLog` |

*Documents.* At each place of `execute` the open transaction is the store with
the operations so far applied one after another (`WorkInv`), and the calls made
are those before the current operation followed by a part of those around it
(`CallsInv`). The batch and the number of hooks are arbitrary.

*Mini service.* `ReadsFacts` says what the parser makes of a chunk, place by
place, and `FeedFacts` that the fields of the events it yields, followed by the
partial line it keeps, are the partial line it began with followed by the chunk.
An accepted `ingest` commits both or neither, and the worker touches neither.
The refinement maps `undelivered` to the event in hand, the failed one and the
queue. For the statistics, `Total` and `Sums` say what one more event adds to
sums over a sequence, so that a snapshot is the sums over what was delivered at
every place of the worker; `EndedInv` says that a worker that is gone failed or
found nothing left after the close.

*Recorder.* That a returned `close` finds the queue empty needs to know that the
writer goes only when it failed or found nothing left after the flag, and that a
sleeping writer has nothing to do needs to know where the closer is. `PlaceInv`
says so for every place of the two threads, and `RunsInv` is the same numbering,
container by container, as `OrderInv` of the worker. A submission is `Accept` of
one message, storing the item is `Deliver`, keeping the failed one is `Fail`,
setting the flag is `Close`; taking an item from the queue is a stutter, since it
only moves within `undelivered` (`TestStutters`). That the writer's item is the
head of `undelivered` when it is stored (`ItemLeads`) is where the invariant is
needed.

### Frame parser, HTTP parser, rust_grep (`ParserProofs`)

| Theorem | Statement |
|---|---|
| `FramesAreAsSpecified` | `SpecFrame => []FramesAsSpecified` |
| `CutsDoNotMatter` | `SpecHttp => []RequestsIndependentOfCuts` |
| `WalkFindsAll` | `SpecWalk => []EveryFileOnce` |
| `SpansAreAlwaysTheSearch` | `SpecMatcher => []SpansAreTheSearch` |
| `ExitStatusIsHonest` | `SpecScan => []StatusIsHonest` |
| `AnswersTheQuestion` | `SpecScan => []OutputIsGrep` |

*Frames.* `Layout` says what stands at each place of an encoded frame.
`GoesNoFurther` and `GoesThatFar` bound from both sides how much of a buffer is
the start of some frame, without assuming anything of the checksum, so that the
order of the loop's checks can be compared with the first fault on the wire
(`FaultIsWireError`); `FrameInFront` shows that what is cut off a buffer is the
encoding of the frame it is taken for. `FrameInv` then holds within a call of
`parse_available` too, where a buffer may still begin with whole frames.

*HTTP.* More bytes behind a head that has ended change nothing in it
(`HeadExtends`), a head that is at fault stays so (`FaultExtends`), so a round
that takes a request takes the same one from more bytes (`RoundExtends`). The
loop of `push` ends, since every round that goes on takes bytes (`LoopEnds`), and
from the state in which it stops more bytes go on as they would have from its
start (`LoopStops`). `HttpInv` says that of the parser and of one push of all that
came: the parser waits in the state in which that one would stop (`Waits`), or
failed in a state which that one comes to as well, with more bytes pending
(`Fails`). The property itself is not inductive: of two kinds of error it allows
any pair that has a bad line ending in it, and the kind that one push reports
changes with every piece. The attempt at this proof also showed that an earlier,
stronger form of the property was wrong beyond its instance: a head that is
already too long when a piece ends, and then has a bad line ending, is
`header_too_large` in pieces and `invalid_line_ending` in one push. The stream
that shows it is in the instance now.

*Walk.* Without `-R` the invariant balances an account for each entry of each
directory (`Accounted`): the times it was found, and the stack entries that lead
to it, are together as many as the operands above it. Opening a directory
replaces one way to all that lies below by a way through each directory it holds,
and no two of them lead to the same place. That rests on `Forest`, part of
`WalkAssumption`: without symbolic links a directory is held in one place only,
and no way down leads back up. With `-R` an entry is found or on the stack once,
from when its directory is entered, whatever links and loops lead there.
`Closing` then says that the directories entered and those the stack leads to
hold the operands', lie below them, and that every way out of an entered one stays
among them, but for those into directories without an identity, which are never
entered; when the stack is empty, those entered are all that lie below. Patterns with `/`
look at the route by which a file is found first, so there the property and the
theorem promise at most once, with `-R`.

*Spans.* `SpansInv` says that the spans found so far end before the cursor, and
that every occurrence that begins before it begins in one of them; the search
goes on at the end of a span, or one further after an empty one.

*Exit status.* `ScanInv` says what `selected` and `had_error` sum up while
inputs are left, and what `matched` says of the lines read of the current one.

*Output.* `Answer` is what is asked for of a sequence of lines: for each line the
text that is due (`PieceOf`), joined, and a notice. `Good` says what the locals of
`scan` know of it: the window holds the last lines, as many as `-B` asks for
(`Remembers`), `last_output` is the last line asked for so far (`LastOf`), and
`after_remaining` is how far the context after selected lines still reaches
(`Pending`). A selected line may ask for lines before it that were passed over;
they all lie behind `last_output`, and what the window holds before that has been
written (`SelectedEmission`). So appending is enough (`EmissionAnswers`): the text
up to `last_output` does not change, there is a gap before the first record or
nowhere, and `emit_record` writes the rest. `ScanAssumption` is the theorem's only
hypothesis: contexts are numbers and options are flags.

### Shared lemmas (`SequenceProofs`)

What concatenation, append, head, front, insertion and removal give, when two
sequences are equal or start alike, what moves between two sequences without
changing the two together, runs of numbers, and what `FlattenSeq` and `Max` of
the community modules compute. The library's induction theorems cannot be used
(they take an operator as parameter); where a fact about data of every length is
needed, it is proved by the least counterexample, which `FirstExists` provides.

### Model-checked only

Every safety invariant and action property of a passing run has a theorem. What
stays with TLC is liveness, since fairness and `ENABLED` are out of the prover's
reach. The theorems that its argument rests on are:

| Property | Safety proved |
|---|---|
| `CloseReturns` of the worker, the fairness in `ImplementsFifoWorker` | `EndIsInSight`, `CloserIsNotStuck`, `WorkerRefinesFifo` |
| `AcceptedRequestsEnd`, `CloseReturns` of the service | `NobodySleepsForEver` |
| `CallsReturn` | `WaitersHaveALoader`, `NoCircleOfWaits` |
| `TimeoutEndsRun` | `TimeoutOverlooksNothing` |
| `CommandEnds` | none: it is conditional on the agent and the validation commands, and the search for a free name ends with `MaxSuffix`, a bound of the model |

## 6. Not modelled

* The arguments, environment and text of external commands, logging, and the
  renderings of reports.
* Telemetry from the agent's log (`agents.py:147-211`); its tool times add up
  overlapping calls.
* `prepare`, `validate` and `validate --all` as commands of their own; the
  loading of `task.yaml` files, which only reads.
* RUST-007: `Drop`, which needs exclusive ownership and so finds no call in
  progress, and saturation of `expires_at`.
* rust_grep: the command line (`cli.rs`, but for the precedence of its modes),
  regular expressions, which the `regex` crate searches, and the check that they
  are POSIX; prefixes, colours and byte offsets of output lines; the limit on the
  length of a line beyond its being an error.
* CPP-014: the characters within a line, `header()` and `take_request()`.
* CPP-020: `Config::parse`, the text of numbers and sources.
* CPP-015: moves and destruction of a dispatcher or subscription object while
  others live.
* RUST-003 and RUST-002: pure sequential computations, in the plan. RUST-001:
  ownership is its subject, and the borrow checker's.
* Tasks without a reference implementation (most of CPP-001 to CPP-018):
  starters there are unfinished or broken on purpose.
* CPP-021 (floating point), CPP-017/018 (short pure code).

## 7. Plan

1. `OperationPipeline` (RUST-003, with integers of bounded width): what remains
   applied when a step fails. The merge join (RUST-002) as an operator against
   the set of equal pairs.
2. The telemetry of `agents.py` as an operator against the measure of a union
   of intervals, and `validate --all` as a command of `BenchmarkRun`.

Runs are few on purpose: components that share nothing share one run, and a new
one joins `MCComponents`.
