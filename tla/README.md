# A verification development for Zan

TLA+ models of the concurrent parts of the Zan runtime and standard library, of its
browser driver and of the number conversions of its bare-metal C library,
checked with TLC on small instances and, where a proof exists, proved with TLAPS
for every value of the constants. Paths are relative to the repository root.

1. [The system](#the-system)
2. [Modules](#modules)
3. [Runs and what they show](#runs-and-what-they-show)
4. [Bounds](#bounds)
5. [Fairness and deadlock](#fairness-and-deadlock)
6. [Theorems](#theorems)
7. [What the models found](#what-the-models-found)
8. [What is not modelled](#what-is-not-modelled)
9. [Plan](#plan)

## The system

Zan is a language with a self-hosting compiler (`src/selfhost/`), a transitional
runtime (`crt-transition/`) and a large standard library written in Zan
(`stdlib/`). The runtime exists twice. `zanstubs.c` is the C lane, kept as the
baseline of comparisons; `runtime_core.zan` implements the same calls in Zan and
is the whole runtime of the Zan configuration. The compiler and most of the library are
sequential. What is hard to get right, and hard to test, is where threads, tasks
and processes meet.

| Part | State | Operations | Meets | Hard because |
|---|---|---|---|---|
| `SemaphoreSlim` (`stdlib/System/Threading/SemaphoreSlim.zan`) | limit, active, waiters, canceled; an OS semaphore | Wait, WaitFor, TryWait, Release, SetLimit, Cancel, Dispose | any threads | slots are handed over under a mutex but permits are posted after it; a timed wait may give up in between; the limit moves |
| `BlockingQueue` (`.../BlockingQueue.zan`) | list and consumed prefix, closed, canceled, fault, waiters, posters; two OS semaphores | Enqueue, Dequeue, DequeueFor, TryDequeue, Complete, CompleteWithFault, Cancel | producers and consumers | a woken thread must look again; wake-ups of both kinds; ending while threads park |
| `SharedTable` (`.../Threading.zan` over `zanstubs.c:773-1542`, `runtime_core.zan:3065-4100`) | linked rows with tombstones, live count, expiry times | set, get, increment, extreme, expire, delete, clear, purge, rate_allow, lock_acquire, lock_release | threads, event loops, the next two parts | lazy expiry, reuse of dead rows, a count that is never recomputed, two implementations, a clock read outside the lock |
| Request lock (`stdlib/System/Web/Security.zan`, `WebApp.zan:702-737`) | owner numbers; a leased row per key | TryAcquire, handler, Release | requests on one thread or several, through a SharedTable | a lease runs out under its holder; a release comes late; owner numbers are drawn without a lock |
| `RateLimiter` (`WebApp.zan:921-986`) | a row per key: count and window start | Allow | requests, through a SharedTable | purge, expiry and window end coincide; stale clock |
| Monitor and `lock` (`zanstubs.c:400-450`, `runtime_core.zan:2735-2790`, lowering in `ngen.zan`, `ngen_async.zan`) | 64 recursive mutexes | enter, exit | threads and tasks | objects share mutexes; nested locks; locks held across an await |
| UI dispatch (`zanstubs.c:628-695`, `stdlib/Gui/Core/Event.zan`, `App.zan`) | a ring of delegates; windows that run or not | Post, DrainPosts, StopLoop, open | worker threads and the UI thread | check then act against a closing window; ring growth |
| Table registry (`zanstubs.c:880-995`) | named and anonymous tables | create, open, attach, destroy | processes | fixed size |
| `Channel`, `Gate`, `AsyncGate`, `AsyncRwLock` | stored signals, waiters | send, receive, wait, signal | coroutines | signals are anonymous; a watchdog signals whoever waits first |
| Connection pools (`stdlib/System/Data/PoolCore.zan`, `DbPool.zan`, `Redis/RedisPool.zan`) | idle list, opening, borrowed | Rent, Return, evict | coroutines, servers | reservations, failed opens, timed waits |
| ZanDb storage (`stdlib/System/Data/ZanDb/`) | WAL, pager, log, manifest, segments | Commit, Checkpoint, FlushToSegment, MergeSegments, Recover | the disk | a crash between any two steps |
| IoReactor, timers (pump in `src/selfhost/ngen_async.zan:1915-2440`, `zanstubs.c:1981-2368`, C driver `zanstubs.c:2400-2580`) | ready queue, timers, table of watches, lookup jobs and a self-pipe, gates | await, spawn, delay, receive, accept, resolve, close, gate wait and signal, poll | coroutines on one thread, lookup workers, the network | one frame is held by a queue, a timer, a watch or a job in turn; readiness against deadline against close |
| CEF driver (`stdlib/Gui/Component/CefBrowser/`: `native/zan_cef.c`, `CefBrowser.zan`, `CefCdp.zan`) | 64 records with callbacks, pages of CEF, views with handles, a queue of messages per record | init, create, close, destroy, shutdown, popups, bounds, clip, show, send, take | CEF, which calls back while its message loop is turned | pages close and open on their own; records are used again; the loop is turned inside two of the calls |
| Bare-metal C library (`scripts/crossboot/stub.c`) | none in the parts modelled | strtod, strtoll, printf of doubles, round, floor, ceil, pow | every program booted without a host libc | ties, carries, denormals, sticky bits, big numbers that alias |
| `Worker` and net servers | connections, worker life cycle | accept, drain, stop | clients, signals | drain against new arrivals |
| Compiler (`src/selfhost/`) | sequential | lex, parse, bind, check, generate | files | size; shown by the bootstrap fixed point and golden tests |
| Gui toolkit, Game, Sdk, drivers, other library code | sequential | | | outside this development |

Interactions. The request lock and the rate limiter are clients of one row store,
so their models EXTEND its operators and do not restate them. `SemaphoreSlim` and
`BlockingQueue` share a discipline (register under the mutex, post after it) and
differ in what a permit means: there a slot, here a hint. All windows of a process
share one dispatch ring. `App.Post` asks `isRunning`, posts and wakes a loop;
`UiEvent.Post` (`Event.zan:195-200`) and `WebView2.IssueOnUi` (`WebView2.zan:940-941`)
post to the ring directly, without asking and without waking anything.

What makes each part correct:

* **SemaphoreSlim** - registrations, permits and slots balance; nobody stays
  registered beside room; no step admits beyond the limit of the moment; shutting
  the gate gets everybody out.
* **BlockingQueue** - it is a bounded queue; nobody is left parked beside an item or
  a free place nobody is coming for; ending it gets everybody out; a reported
  failure stays reported.
* **SharedTable** - it is a bounded map with lazy expiry; the count is exact; the
  list of rows is bounded; a key and its hash agree.
* **Request lock** - one unexpired lease per key, taken away by nobody else, left
  behind by nobody, among requests whose owner numbers differ.
* **Rate limiter** - no window allows more than the limit or starts early; every
  refusal ends.
* **Monitor** - mutual exclusion per object; a shared mutex is not given back early;
  sharing adds no deadlock.
* **UI dispatch** - handlers run in order, once, in their own window, or are dropped
  with it.
* **IoReactor** - a suspended frame is held by exactly one thing that will resume it; a
  finished lookup is signalled; nobody waits on a descriptor number that was given back;
  what has come resumes its frame.
* **CEF driver** - every open page has an owner or is on its way out, and the driver
  holds one reference to it; messages, popups and answers are delivered or counted;
  the place, clip and visibility in force are those asked for last.
* **Bare-metal C library** - reading gives the nearest double, printing the nearest
  decimal, and what is printed with enough digits reads back as itself.

## Modules

| Module | Is | Code |
|---|---|---|
| `SemaphoreSlim` | the gate, one step per locked region and one per `Semaphore.Release` | `SemaphoreSlim.zan` |
| `HandoffQueue` | abstract: a bounded queue that can end | what `BlockingQueue` promises |
| `BlockingQueue` | the queue, its list, its two semaphores; refines `HandoffQueue` | `BlockingQueue.zan` |
| `BlockingQueue_proofs` | its theorems | |
| `SharedTableOps` | the row store as operators from table to table, both lanes | `zanstubs.c`, `runtime_core.zan` |
| `SharedTableOps_proofs` | what each operator keeps and what it does to the set of live rows | |
| `KeyedRows` | abstract: a bounded map whose expired rows may linger | what a `SharedTable` promises |
| `SharedTable` | the calls over one table; refines `KeyedRows` | the same |
| `SharedTable_proofs` | its theorems | |
| `LeaseLock`, `LeaseLock_proofs` | request lock over `SharedTableOps`; its theorems | `Security.zan`, `WebApp.zan` |
| `RateLimit`, `RateLimit_proofs` | limiter over `SharedTableOps`; its theorems | `WebApp.zan`, `rate_allow` |
| `Monitor` | striped recursive mutexes under nested `lock` statements | `zanstubs.c`, `ngen*.zan` |
| `Locks_proofs` | theorems about `SemaphoreSlim` and `Monitor` | |
| `DispatchFifo` | abstract: a first-in first-out queue that refuses only when full | what the dispatch queue promises |
| `DispatchRing` | the growing ring; refines `DispatchFifo` | `zanstubs.c:628-695` |
| `UiDispatch` | windows and workers over `DispatchRing` | `App.zan`, `Event.zan` |
| `IoReactor`, `IoReactor_proofs` | the coroutine engine of native programs: pump, timers, poll, lookups, gates; its theorems | `ngen_async.zan`, `zanstubs.c`, `runtime_core.zan` |
| `CefBrowser` | records, views and CEF's pages | `zan_cef.c`, `CefBrowser.zan`, `CefCdp.zan` |
| `Gui_proofs` | theorems about `DispatchRing`, `UiDispatch` and `CefBrowser` | |
| `CrossbootDouble` | the conversions as operators, beside exact rational arithmetic | `stub.c` |
| `MC*` | instances for TLC | |

How state and actions correspond to the code.

**Steps.** A region between lock and unlock is one action: nothing outside it can
see it half done. What the code does outside a lock is an action of its own. So
`Semaphore.Release` after the unlock is `Post` in both threading modules; the time
between a timed wait giving up and the caller's next lock is the place `"expired"`;
a clock read before a lock is an action (`Begin`, `ReadClock`) that stores it in the
caller's record; an increment outside a lock is its load, its store and what is read
afterwards (`Load`, `StoreNext`, `Number`); `App.Post` is two (`Ask`, `Enqueue`), and so is `App.StopLoop`
(`Stop`, `StopClear`).

**SemaphoreSlim.** `limit`, `active`, `waiters`, `canceled` are the fields. `permits` is
the OS semaphore, `posting` the release calls still to be made, `pc` where each caller
is. `Register` then `Park` or `ParkTimed` is the slow path of `Wait` and `WaitFor`;
`Expire` is a time-out (time is not counted: a timed wait may give up at any moment),
`Withdraw` what the caller does under the lock after it. Callers follow the class
comment: they release what they hold, once, in a `finally`.

**BlockingQueue.** `items` with `head` is the list with its consumed prefix, which
`TakeLocked` compacts; `Slack` stands for the 64 of the code. `permits` holds both
semaphores, `posting` the release calls still to be made on each: a set of pairs of a
thread and a turn of its release loop (`Loop`). `"again"` and `"againFor"` are
the turns of the loops. An item is named by its producer: properties tell producers
apart, not payloads.

**SharedTable.** A table is `[rows, count]`. A list that grows at its head is a sequence
that grows at its end. `Lane` says which implementation: they differ in the purge (all
expired rows under the lock, or at most `Batch`, 64 in the code, under a lock of its
own, `PurgeThrottled`), in the arithmetic of the load factor and in whether a reused
row takes the new key. `HashKeys` are the keys used through the `_at` calls, whose
rows are labelled with the hash in decimal. A key is its own hash: collisions are
left out. `Set` and `SetAt`, and so on, are the calls by key and by hash. One integer
column stands for the schema where nothing tells columns apart.

**LeaseLock, RateLimit.** A request or caller carries the time it read. The 30 seconds
of the lease and `windowMs` are `Lease` and `Window`. `windows` in `RateLimit` is
history: it records the windows a key had, so that a property can relate them.
`TryAcquire` of a `LockManager` is `Load`, `StoreNext`, `Number` (the owner number),
`ReadClock` and `Acquire`. With `AsyncWorkers` the steps of several requests of a manager
interleave, as `--async-workers` lets them (`WebApp.zan:83-87`), and two may draw one
number; without it one request of a manager at a time is between `Load` and `Number`
(`MayDraw`). Managers count by themselves, so the numbers of two repeat as well. `given`
and `twice` are history, the numbers drawn and those drawn more than once; a request
whose number is not in `twice` is `Sole`.

**Monitor.** `stripe`, the mutex of each object, is chosen at the start and may be any
function: addresses decide it and no program controls them. `Host` is the thread of a
task. The program is one that locks in a fixed order (`InOrder`), which is what a
deadlock claim needs. The initialisation race of the stripes (`zt_monitor_init`, once)
is left out.

**UiDispatch.** `q` is the ring; a growth may fail as `malloc` may. `post` is where
each handler is, `ranBy` whose loop ran it. `Together` allows several open windows.
The constructor sets `isRunning` and resets the queue before the window is known to any
worker, one step; `StopLoop` is called by the event loop and not by a handler, so a
window drains only while it is open.

**IoReactor.** One coroutine runs at a time and without interruption, so a step of a frame
up to its suspension is one action per operation (`Act`), and the pump goes round in
actions of its own: take a node, move the timers that are due, poll, serve the watches
one by one. `mode` is how the pump was called: awaiting, quiescing (`Task.Wait`), or the
driver of the C remainder, which has no reactor. `over` are the frames that are done,
`fresh` those not started. `ws` is the table of watches, compacted at each poll;
`gen` counts the sockets that got a number, so that a stale watch can be told from one
of the present socket. `resolving`, `jobs`, `pipe` and `owed` are the lookups: a worker
puts its job in the list under a lock (`WorkerHandsOver`) and writes a byte after it
(`WorkerWrites`); the poll drains the pipe, then takes the list. A tick of the clock is a
millisecond. The entries of a table that are kept, moved or delivered are `Chosen` by their
places, in table order. The values operations yield are left out.

**CefBrowser.** `rec` are the driver's records, `view` the controls with their handles,
`page` what CEF does by itself (external: CEF is not part of the repository). All runs
on one thread; CEF calls back only while the loop is turned, which happens between two
calls and inside `Destroy` and `Shutdown`, which wait (`running`). A position and a
region are members of small sets; what tells them apart is whether they changed.
`Create` is the view's `EnsureCreated`, `CreateAt` the `zan_cef_create` it calls.
`Introduced` and `HeldAfter` are the branches of `zc_on_after_created` and of what
`zan_cef_create` does after it, whether CEF made that call or not (`told`). A callback that
waits is the number of its command and the page it was sent to: the list is the view's
`CefCdp`, which outlives its pages, and `Answered` calls the first that has the number of the
reply, as `Dispatch` does. A popup waits by its URL, so one without (`None`) does not wait.
The rest is history. Of a page: `taken` and `handed` count its messages and popups that
views took, `blank` the popups nobody was told of, `astray` has the replies that were
taken and did not call their own callback. Of a view: `clear` says that it made its page
with no callbacks of a former page waiting and no other view holding the handle.
A module that is proved beside another one has names of its own for what both have
(`CefInit`, `MonitorSpec`, `MonitorTypeOK`).

**CrossbootDouble.** A big number is a natural number, a double its encoding, and the
format a parameter. Every function is an operator with the branches of the code, and
one action calls it. The reference is exact
arithmetic on fractions (`Nearest`). `Product` and `Reciprocal` are the operations of the
hardware, which rounds to nearest.

## Runs and what they show

| Run | Module, cfg | Properties | Shows |
|---|---|---|---|
| `semaphore` | `MCSemaphoreSlim` | `RegistrationsBalance` `SlotsBalance` `NoLostWakeup` `HoldersCounted` `AdmissionBounded` `CancelDrains` | slots, registrations and permits balance through time-outs, moving limits and a gate that shuts; shutting it gets every parked caller out |
| `queue` | `MCBlockingQueue` | `RegistrationsBalance` `NoItemForgotten` `NoRoomForgotten` `ImplementsQueue` `EndDrains` | nobody is left parked beside an item or a place; the list is a bounded queue; ending it gets everybody out |
| `table` | `MCSharedTable` | `CountExact` `PathsAgree` `ChainBounded` `ImplementsMap` | the Zan lane is a bounded map, rows by key and by hash side by side |
| `table_c_reuse` | `MCSharedTableCReuse.cfg` | `PathsAgree`, violated | in the C lane a reused row answers to the dead row's key |
| `lease` | `MCLeaseLock` | `OneLease` `NoOrphan` | of requests whose owner number is theirs alone a key has one holder, with two managers and several threads drawing numbers in a race; late releases harm none of them; no lease is left behind |
| `rate` | `MCRateLimit` | `WindowBounded` `NoEarlyWindow` `RefusalEnds` | limits hold with stale clocks and purges in between |
| `monitor` | `MCMonitor` | `MutualExclusion` `CountsNesting` `Progresses` | for every sharing of mutexes: exclusion, exact nesting; no deadlock where nothing is shared |
| `ui` | `MCUiDispatch` | `HoldsTheWaiting` `DroppedWithItsWindow` `QueuedRuns` `ImplementsFifo` | the ring is a FIFO queue through wrap and growth; handlers are dropped only with their window and run otherwise |
| `reactor` | `MCIoReactor` | `HeldOnce` `NoLookupForgotten` `OwnSocket` `Served` | frames are neither resumed twice nor lost between queue, timers, watches, lookups and gates, in three ways of pumping; what has come is served |
| `reactor_await` | `MCIoReactorPreempt.cfg` | `NothingDropped`, violated | the pump of an await leaves with a frame it took off the queue |
| `cef` | `MCCefBrowser` | `PagesOwned` `QueueInOrder` `ClipInForce` `PopupsAccounted` `WaitersAnswered` | two views share one record one after the other, with every order of CEF's callbacks, callbacks of a former page, stale handles and popups without a URL |
| `crossboot_double` | `MCCrossbootDouble` | `ReadsNearest` `ArithmeticExact` `PrintsNearest` `RoundTrips` | every text of a few digits and every double of a small format |

Type invariants (`TypeOK`, `MonitorTypeOK`, and `CefTypeOK` in `Gui_proofs`) are
not among the runs' properties; they are proved below. `OneRowPerKey` is proved with `PathsAgree`
(`KeysResolve`), and `LeaseKept` on the way to `OneLease` (`LeaseIsKept`). `MCLeaseLockLoop.cfg` checks `OneHolder`
and `LeaseKept` with one manager on one thread and two keys; both hold and are proved.

Definitions whose comment begins with "Faulty" are mutants: plausible mistakes in the
code of the definition that follows. Each property of a passing run is violated when
one of them takes that definition's place, which shows that the property can fail.

## Bounds

| Run | Instance | Why it is enough |
|---|---|---|
| `semaphore` | 3 callers, limits 0..2 | a caller that times out, one being handed its slot and one registering are the three parties of the delicate path; two limits above zero let the limit sink below `active` and rise. Any number is proved |
| `queue` | 2 producers of 2 items, 2 consumers, capacity 2, slack 1 | both ends are reached, an item may be added beside another one, a newcomer can take what another was woken for, the list is compacted |
| `table` | 3 keys, one by hash, room for 2 rows, batch 1, times up to 3, values up to 2 | refusal, tombstones, reuse by another key, purges that leave work behind. Any number is proved for the main invariants |
| `lease` | 3 requests, 1 key, 2 managers, several threads, lease of 2 ticks, 4 ticks, 3 owner numbers | one outlives its lease, the second takes the key, the third would profit from a wrong release; numbers are drawn twice in a race of one manager and by two. A second key only purges and reuses rows, which `MCLeaseLockLoop.cfg` does with one manager. Any number is proved |
| `rate` | 2 callers, 2 keys, limit 2, window of 2 ticks, 5 ticks, 2 windows per key | one caller stale by a whole window, the other purging; two windows are what `NoEarlyWindow` relates |
| `monitor` | 3 tasks, 4 objects, up to 4 mutexes, nesting 2 | all 15 ways to share mutexes; a circle needs two |
| `ui` | 2 windows, 3 + 1 handlers, ring of 2 that grows to 4 | wraps, grows while wrapped, is full at its last size, refuses; a handler of one window meets the other |
| `reactor` | 3 frames with 3, 2 and 2 operations, one descriptor number with 2 sockets, delays of 1 ms, one piece of data | one frame waits, one talks to a socket that is closed and opened again, one looks names up, delays or frees a gate; two are in the ready queue while the third runs. `Blocking` is empty: a second watch on a blocking descriptor stalls the thread in `recv`, which is not a state to go on from |
| `cef` | 1 record, 2 views, 2 pages, queue of 2, 3 messages, one command | a record is used again, the queue overflows and wraps, a popup waits while another comes. The constraint `OneKind` explores messages, places, navigation and popups one at a time: they touch different fields of the record |
| `crossboot_double` | doubles of 5 bits, exponents -5 to 6; texts of 2 + 2 digits with exponents -4 to 2; words of 9 bits; powers of -4 to 4 | normals, denormals, the step to infinity, ties, carries into a binade and into a new decimal digit all occur; 10^2 exceeds 2^5, so that round trips are asked for |

The bounds are constants (`MaxLimit`, `MaxSends`, `MaxVal`, `MaxTime`, `MaxOwner`,
`MaxWindows`, `MaxNest`, `CapMax`, `MaxOps`, `MaxDelay`, `MaxData`, `MaxGen`, `MaxSaid`, `MaxSent`,
`MaxNav`), appear as guards, and stop the environment, never
the code. Symmetry is used in safety runs only.

## Fairness and deadlock

* **SemaphoreSlim, BlockingQueue** (`FairSpec`): weak fairness of every call that is under
  way and of a parked thread taking a permit that is there. Threads are preemptive and
  run; the OS semaphore hands a permit to somebody who waits. Nothing is assumed of
  callers that have not called, except that a holder of a slot releases it, as the class
  asks. Time-outs are not assumed to happen.
* **UiDispatch** (`FairSpec`): a queued handler of an open window is drained eventually.
  `App.Post` wakes its own window, and a loop that was woken drains until the queue is
  empty. Nothing wakes the *next* window for a stray handler, so none is assumed.
* **IoReactor** (`FairSpec`): weak fairness of the frame that runs, of the pump, of the clock
  and of each lookup worker: the thread of the engine and the workers are scheduled, and
  time passes. Nothing is assumed of the network. `Served` says what this suffices for.
* The other modules have safety properties only; no fairness is assumed.

`CHECK_DEADLOCK FALSE` is set where the modelled system stops for a good reason: the
semaphore after Dispose, bounded clocks and owner numbers (`lease`, `rate`), one-shot
handlers (`ui`), programs that end (`reactor`), a driver that is shut down (`cef`), calls
that have returned (`crossboot_double`), and `monitor`, where the real deadlock of shared mutexes is what
`Progresses` and `SharingOnlySerializes` are about. The queue and table runs check
deadlock.

## Theorems

Every theorem holds for all values of the constants under the named assumptions of the
modules, which TLC evaluates in the runs: finite sets of threads and tasks, positive
capacity, batch, lease, limit, window, queue and ring size, at least one browser record,
and the value that stands for nobody (`Null`, `None`) not one of the things it is put beside. What more a
theorem assumes is in its statement, and said here.

**`Locks_proofs`, the semaphore**, any finite set of callers, any limits.

* `TypeCorrect` - in particular `waiters` and `permits` never fall below zero.
* `NoWaiterBesideRoom` (`NoLostWakeup`) - inductive on top of the types.
* `RegistrationsAreBalanced`, `SlotsAreBalanced`, `HoldersAreCounted` - from `Balanced`,
  their conjunction. None is inductive alone: `HoldersCounted` after Cancel rests on the
  exact count before it, and the balances rest on `posting` being a set of pairs to which
  a release loop adds as many as it took waiters (`PostingGrows`). `Moved` says what a
  caller that changes place does to every count.
* `AdmitsWithinLimit` (`AdmissionBounded`) - no step gives out slots beyond the limit.

**`BlockingQueue_proofs`**, any finite producers and consumers, capacity and slack.

* `TypeCorrect`; `RegistrationsAreBalanced`, `ItemsAreAnnounced` (`NoItemForgotten`),
  `RoomIsAnnounced` (`NoRoomForgotten`) - from `AlwaysCounted`. The invariant is the three
  with the types and `NobodyInClosed`: a producer that comes back from its semaphore and
  finds the queue closed leaves without filling the place it was sent to, which forgets
  nobody only because nobody is registered once the queue is closed. `Adds` says what the
  release loops of a step add, `Counted` is the arithmetic the step comes down to.
* `QueueIsImplemented` (`ImplementsQueue`) - every step is a step of `HandoffQueue` or a
  stutter. The mapping is the list after its consumed prefix; `TakeImplements` shows that
  compaction does not change it.

**`SharedTableOps_proofs`, `SharedTable_proofs`**, any keys, capacity and batch.

* `LoadFactorsAgree` - `count * 8 >= cap * 7` and `count >= cap - cap / 8` are the same test
  for every count and capacity. The comment above `row_for` (`runtime_core.zan:3348`)
  says they differ by one when the capacity is not a multiple of eight. Both are 32-bit
  integers widened to 64 bits in the code, so natural numbers stand for them exactly.
* `TypeCorrect`, `CountIsExact`, `ChainStaysBounded`, in both lanes - from `Good`
  (`AlwaysGood`): the table has its type, the count is the number of live rows, the list
  fits the load factor, and rows are labelled. The list is bounded because a row is
  appended only when no tombstone is left, so its length is then the count, which the
  load factor bounds. Each operator has a lemma that it keeps `Good` (`KillKeeps`,
  `AddKeeps`, `TouchKeeps`, ...), and the step theorem has one step per action.
* `KeysResolve`, Zan lane - a key and its hash find the same row and two live rows never
  share a key. `Labelled` (key = hash on every live row) is what the C lane lacks.
* `MapIsImplemented` (`ImplementsMap`), Zan lane - every call is a call on the map
  `KeyedRows` or changes nothing of it. The table is read as the set of its live rows
  (`Live`), and the map is what they say (`ViewSays`); rows that go take their keys out
  (`RowsGone`), a row made or changed is what the map has for its key (`RowPut`), and a
  key is refused only when the map is full because the count is its size (`CountIsSize`).

The C lane is left out where rows are found by key because the claims are false there:
a reused row keeps the key of the row that died (run `table_c_reuse`). The next two parts
look rows up by key and are proved for the Zan lane for the same reason; their type
theorem for `LeaseLock` covers both.

**`LeaseLock_proofs`**, any requests, keys, lease, capacity and batch.

* `TypeCorrect` - the types, and the table stays `Good`, in both lanes.
* `NoOrphanStays` (`NoOrphan`) - Zan lane, any number of managers. Inductive on top of the
  types when it is said of the live rows (`Owned`).
* `OneLeasePerKey` (`OneLease`), `LeaseIsKept` (`LeaseKept`) - Zan lane, any managers, one
  thread or several. Both are about requests whose number no other drew. The invariant:
  whoever is inside with such a number and time left has a live row with that number and
  its own expiry (`Leased`), two requests have one number only if it was drawn twice
  (`Distinct`), and numbers and times are of the past (`Numbered`). The premise is needed:
  of two requests that share a number, the late release of one takes the row of the other.
* `OneHolderPerKey` (`OneHolder`) - Zan lane, one manager on one thread, which is what
  `Security.zan:17-23` claims and on what ground. No number is then drawn twice (`InTurn`:
  one request draws at a time and what was given is not above the sequence). With several
  threads or two managers it is false (`MCLeaseLockThreads.cfg`, `MCLeaseLockTwo.cfg`).

**`RateLimit_proofs`**, Zan lane, any callers, keys, limit, window, capacity and batch.

* `TypeCorrect`, `WindowsAreBounded` (`WindowBounded`), `WindowsDoNotOverlap`
  (`NoEarlyWindow`), `RefusalsEnd` (`RefusalEnds`). The two about the history are not
  inductive: they need what the row of a key knows of the last window, or, where a purge
  took the row, that this window is over (`Remembered`), and that a caller's clock, however
  stale, has come (`Timely`).

**`Locks_proofs`, the monitor**, any finite set of tasks, any objects and any sharing of mutexes.

* `MonitorTypeCorrect`, `NestingIsCounted` (`CountsNesting`) - inductive with the types and what a
  task that asks has promised (`Nested`).
* `LocksExclude` (`MutualExclusion`), `OrderedProgramsProgress` (`Progresses`) - where each
  task has a thread of its own (`Host` injective), which is what threads are; two tasks on
  one thread are both let in by a recursive mutex. Progress is by descent: whoever asks
  waits for somebody who asks for a higher object, and the tasks are finite.

**`Gui_proofs`, the dispatch queue**, any handlers, windows and ring sizes.

* `TypeCorrect`, and the shape of the ring (`Ring`), by `AlwaysTyped`.
* `FifoIsImplemented` (`ImplementsFifo`) - the mapping is the handlers from head to tail.
  `Plain` gets rid of the remainders once; `PutLast`, `TakenFirst` and the lemmas on growth
  say what the operations do to the i-th handler.
* `WaitingAreHeld` (`HoldsTheWaiting`) - inductive on top of the ring.
* `DroppedOnlyWithWindow` (`DroppedWithItsWindow`) - where windows follow each other
  (`~Together`); with two open at a time it is false. It needs `OneAtATime`: at most one
  window is open or stopping, and a handler's window has opened.

**`Gui_proofs`, the browser driver**, any records, views, pages, places and any queue size.

* `CefTypeCorrect` - with `Recorded`: the page a record names is open and calls into that
  record.
* `PagesAreOwned` (`PagesOwned`) - where CEF opens no page of its own. Inductive with
  `OwnRecord` (every open page has a live record that names it) and `AskedToGo` (the
  page of a view that waits in `Destroy` was asked to close).
* `MessagesInOrder` (`QueueInOrder`) - of every record, whichever views reach it, by stale
  handles too. `AllInOrder`: the queue is the last messages of the page, and every message
  is taken, queued or dropped.
* `CallbacksAreAnswered` (`WaitersAnswered`), in two halves.
  `ReplyToCome` is about every callback of an open page that waits, in any view: while the
  record dropped nothing, its reply is to come, or queued, or went astray, taken by a
  `Dispatch` that called another callback or none. It rests on `AllComing` and on
  `WaitingOnce`: a callback waits once, in one view, for a command its page was given
  (`OnceEach`, `Apart`, `Numbered`).
  The other half says that no reply goes astray in a view that made its page with no
  callback of a former page waiting and with nobody else holding the handle (`Owner`,
  `AllAttended`). Both conditions are needed, and the code does not see to either; see
  `MCCefBrowserReplies.cfg` below.
  `RecordSteps` says what a step does to a record that stays alive, `OwnerSteps` to an owner,
  `EntryBefore` where a callback that waits comes from; a message that is said, taken or
  sent is then a lemma on one record.
* `ClipsAreInForce` (`ClipInForce`) - inductive as `AllInForce`, which adds that the page is
  where its record says: a clip is skipped when it has not changed, and what it means
  depends on the place.
* `PopupsAreAccounted` (`PopupsAccounted`) - where the pages that call into a record are its
  own (`Sole`); inductive as it stands, record by record (`Booked`). The premise was found by
  the proof; see below. Popups without a URL that came when none waited are counted apart,
  by the model only: the code tells nobody of them.

**`IoReactor_proofs`**, any finite set of frames, any descriptors, programs, delays and ways
of pumping.

* `TypeCorrect` - in particular the waits of timers and watches never fall below zero.
* `FramesAreHeldOnce` (`HeldOnce`) - inductive with the types, `Stepping` (a frame runs just
  when the pump is inside it) and `Polling` (what a poll reported is about the watches
  that are in the table). A frame is in one place if the numbers of times it is in the
  ready queue, the timers, the active watches, the lookups under way and the gate add up
  to one. `Times` counts in sequences and `TimesSplit` says that choosing some places of
  a table and leaving the others neither adds nor loses an element, which is what the
  compaction, the timers that fall due and the watches of a closed socket have in common.
  Each action then moves a frame from one summand to another.
* `WatchesAreOfTheirSocket` (`OwnSocket`) - a watch is of the socket that has its number
  now: closing retires every watch on it before the number is given away.
* `LookupsAreAnnounced` (`NoLookupForgotten`) - a worker hands over and then writes, the poll
  drains and then takes, and a watch on the pipe stays once it is there.

Model-checked only:

* `CancelDrains`, `EndDrains`, `QueuedRuns`, `Served` are liveness under fairness, outside
  what TLAPS proves.
* `CrossbootDouble` (`ReadsNearest`, `ArithmeticExact`, `PrintsNearest`, `RoundTrips`): what the
  conversions compute is by recursion over digits and bits, and induction over data is
  out of the provers' reach.

## What the models found

Runs that refute what the repository says of itself:

* `table_c_reuse` - `zt_row_for` does not rewrite the key of a reused row, although the
  Zan lane's comment says both reuse points of the C version do.
* `reactor_await` - the emitted pump takes a node off the ready queue before it looks
  whether the awaited frame is done, and then returns without it. The C driver looks
  first. A detached coroutine that was ready at that moment is never resumed, even by a
  later await.

Known disagreements, each with a property that states what the repository says and a
configuration that shows it violated (`tlc -config <cfg> <module>`):

* `MCBlockingQueueFault.cfg`, `FaultKept` - `Complete` of a second producer erases the
  failure of the first (`BlockingQueue.zan:207-209`).
* `MCLeaseLockThreads.cfg`, `OneHolder` - `Security.zan:20-23` says that a key set needs no mutex
  because a worker is a single-threaded event loop. `WebApp.zan:83-87` says that with
  `--async-workers` the coroutines of a process run on several threads and that `x = x + 1`
  hands out duplicates; the owner number is drawn that way (`Security.zan:112-113`). Two
  requests with one number: the first outlives its lease, the second takes the key, the
  late release of the first takes the second's lease away, and a third comes in beside it.
* `MCLeaseLockTwo.cfg`, `OneHolder` - an owner number does not tell managers apart, so one
  manager's late release takes the other's lease (`Security.zan:37`). Within one process
  this is a table and an `Attach` to it.
* `MCMonitorAliased.cfg`, `SharingOnlySerializes` - "sharing a stripe only serializes more"
  (`zanstubs.c:407`): a program that locks a, b in order can deadlock with another that
  locks c, d in order.
* `MCUiDispatchNext.cfg`, `RunsAtHome` - the check of `isRunning` and the enqueue are two
  steps, and a handler can run in the next window (`App.zan:3976-3978`).
* `MCIoReactorDeadline.cfg`, `DeadlineEnds` - the poll sleeps until a timer is due or a
  descriptor reports, and does not look at the deadlines of receives
  (`zanstubs.c:2265-2267`): with no timer pending a receive waits past its deadline.
* `MCCefBrowserPopup.cfg`, `RecordOutlives` - a popup CEF opens itself shares its owner's
  callbacks; when it closes the owner's record counts as free (`zan_cef.c:588-591`).
* `MCCefBrowserReplies.cfg`, `RepliesHeard` - `CefCdp.Send` says that its callback is called once
  when the reply arrives, with that reply's result (`CefCdp.zan:73-75`). `Destroy` leaves the
  callbacks of the view's page in its `CefCdp` (`CefBrowser.zan:384-395`), and the record of the
  next page numbers its commands from 1 again (`zan_cef.c:1301`, `1915`): the reply to the
  new command calls the callback of the old one, and the new one's waits for ever.
* `MCCrossbootDoubleOnce.cfg`, `RoundedOnce` - below the least denormal a quotient is
  compared with a half without its sticky bit (`stub.c:744-755`): 2.47032822920623273e-324
  is read as zero. Hexadecimal literals have a disagreement of the same kind without a
  configuration: `stub.c:754-755` says there is no double rounding and that they are exact by
  construction, but `sh_hexfloat` rounds to 53 bits (`1125-1132`) and `sh_round_64` again to
  what a denormal has room for, with a sticky bit of zero. `HexNearest` asks for the nearest
  double only where the value is normal.

Seen while modelling, and without a run or a configuration:

* A handler that takes longer than the 30 second lease runs beside the next request of
  its key; `OneInFlight` in `LeaseLock` states what `WebApp.zan:702-703` says and does not
  hold.
* Two tasks on one thread are both let into a `lock` of one object when the first is
  suspended inside it: give `Host` two tasks on one thread and `MutualExclusion` fails.
* Opening or closing one window clears the handlers of another open one: with
  `Together = TRUE`, `DroppedWithItsWindow` fails.
* A page of a former view may still be open when its record is used again, where CEF opened
  a popup of its own that closed first (the mechanism of `RecordOutlives`). It calls into
  the record's new page: its popups are offered to the new view, or counted there. Two
  pages do not show it, three do; `PopupsAccounted` therefore has the premise `Sole`.
* With clocks read before the lock, a window may start at a time before the end of the
  last one; it is never *opened* before that (`NoEarlyWindow`).
* `DequeueFor` starts its whole time-out again each time it loses its item; `App.Post`
  ignores a refusal by a full queue; an anonymous table made when the list of them is
  full cannot be attached.
* A quiescing pump (`Task.Wait`) polls as long as a watch exists. The watch of the lookup
  pipe is never removed, so after the first lookup it does not return.
* The emitted loop of `_zan_gate_free` keeps the next waiter in a register that the call in
  it may overwrite (`ngen_async.zan:2415-2430`); gates are modelled from the C copy.
* A callback of the CEF view whose answer was overwritten in a full queue is never called.
* A view whose page closed by itself keeps its handle: `Render` makes a new page only where
  the handle is 0, and the handle reaches the page of whoever is given the record next.
  Such a view may take that page's messages and popups and move its window.
* A popup without a URL (`window.open('')`, or a target that cannot be converted,
  `zan_cef.c:493-495`) is cancelled under policy 2, and since what waits is told by its URL
  (`701-710`, `1948`) the host never hears of it: it is neither taken, nor waiting, nor
  counted as missed, though `CefBrowser.zan:320` says that the target is handed to the host
  instead.
* `PagesOwned` has the premise that CEF opens no window of its own (`Alone`): a popup of policy
  0 shares its opener's record, and neither the owner nor the reference of a page can be
  told any more once one of the two has closed (`RecordOutlives`).
* `UiEvent.Post` queues its handlers without asking `isRunning` and without waking a loop: with
  no window open they stay until one opens, whose constructor clears them, and with one
  open they wait for the next event.
* `round` adds a half before it cuts: the largest double below 0.5 becomes 1, and an odd
  whole number between 2^52 and 2^53 becomes its even neighbour (`stub.c:1612-1616`).
  `WholesExact` asks for the nearest number only where the sum is a double.
* In `strtod` leading zeros count against the 1100 digits that are taken in, and a whole
  digit past them does not move the point.

## What is not modelled

* In the modelled parts: collisions of the hash, column types and string values,
  the table registry, a wall clock that is set back, `Dispose` of a `BlockingQueue`, the
  16 ms throttle as a duration (a purge may or may not happen), the wording of faults,
  wake-ups the OS makes up (the OS semaphores have none).
* `SharedTable` across processes: `Attach` answers 0 in this runtime.
* `IoReactor`: the values operations yield, descriptors left in blocking mode in the runs,
  the class `Timer`, a failed allocation or thread creation (the lookup is then done in
  place).
* `IoReactor`: the reuse of a descriptor that was closed without `zan_io_close_notify`. That it is
  closed is modelled (`CloseUnnoticed`; the poll then delivers the end of its watches,
  `zanstubs.c:2293-2297`), but the kernel may also give its number away before the next poll.
  `Reopen` gives away only numbers that were closed through `CloseNotify`, and `OwnSocket` is
  about those.
* `UiDispatch`: handlers that are posted past `App.Post` (`UiEvent.Post`, `WebView2.IssueOnUi`).
  `DroppedWithItsWindow` and `QueuedRuns` are about `App.Post`; `DispatchRing` is the ring for
  any caller.
* `SharedTable`: the refusal of an empty or too long key by the Zan lane
  (`runtime_core.zan:3353-3354`), which makes no row.
* `SemaphoreSlim`: a caller that releases more than it holds. `active` is clamped at zero there
  (`SemaphoreSlim.zan:143`), a branch the callers of the model never reach.
* `CefBrowser`: focus handlers, navigation and zoom that only pass through, the command
  line, host windows; a page of CEF is external and does what CEF's contract allows.
* `CrossbootDouble`: signs, infinities and NaNs as inputs, the parsing of spaces and
  prefixes, field widths and padding; the rest of `stub.c` (memory, strings, files,
  threads over the boot services).
* The parts marked `not_modelled` in `PROJECT.json`, each with its reason there: the
  compiler, code generators, drivers, Gui beyond dispatch, Game, Sdk and the sequential
  library are large sequential programs whose tests compare outputs.

## Plan

The plan is carried out as far as this development goes: every safety invariant and action
property a passing run checks is proved, but for the four of `CrossbootDouble`, whose
operators are recursive over digits and bits. Liveness stays with TLC.

Were the model to grow, ZanDb storage comes first (a crash between any two writes of
`Commit`, `FlushToSegment`, `MergeSegments` and recovery; known hazards are a frame per key in
a transaction and a commit that answers true after a failed sync), then the pools and
the Zan classes over the gates.
