# A verification of lsnet

lsnet is a small C library for event driven socket programs. An application
gives it sockets, queues read and write requests, and calls `epex_poll` in a
loop; the library does the non-blocking I/O over edge triggered epoll, expires
timeouts and hands out results. These TLA+ modules model its event engine, its timer
wheel, its hash table with the memory pool under it, and its log. TLC checks them on
small instances. TLAPS proves for any instance every invariant, action property and
refinement that TLC finds to hold; the liveness properties are left to TLC.

## The system

One epex handle is used by one thread. There is no locking in it: the
concurrency that matters is between that thread and the peers of its sockets
(and the kernel, and the clock), which act between any two system calls. The log
is the exception: it belongs to the process, all threads write to it, and it has a
mutex.

| part | source | state | operations |
|---|---|---|---|
| event engine | `src/exnet.c` | stubs (`netstub_t`, one per attached socket) with three request queues, requests (`nettask_t`), the lists of readable, writeable, broken and available stubs | `epex_attach`, `epex_detach`, `epex_listen(2)`, `epex_connect`, `epex_read(_any)`, `epex_write`, `epex_enable/disable_notify`, `epex_poll` |
| interface | `include/exnet.h` | - | what results and `NET_OP_NOTIFY` mean |
| lists | `include/dlist.h` | intrusive links | insert, remove |
| timer wheel | `src/timer.c` | lists of units per millisecond, second, minute; `_last`, `_now`, `_count` | `timer_add(2)`, `timer_del`, `timer_timeout`, `timer_next` |
| memory pool | `src/mempool.c`, `include/slist.h` | pages, free list threaded through the free elements | `mp_alloc`, `mp_free`, `mp_renew` |
| hash table | `src/hash.c` | buckets, nodes that are elements of a pool, `_node_cnt` | `ex_hash_init`, `free`, `renew`, `add`, `seek`, `del` |
| log | `src/log.c` | two file descriptors, the hour of the last cut, a buffer per thread | `init_log`, `err_warn` |
| error texts, utilities | `src/error.c`, `src/utils.c` | a buffer per thread | `strerror_t`, `set_nonblock` |

The engine calls the others; none calls back. A stub is reachable from the hash
table (by descriptor), from epoll (`ev.data.ptr`), from the three lists of the
poll loop and the list of available stubs, from the timer (its idle unit) and
from its requests; a request from one queue of its stub and from the timer. A
stub dies of `epex_detach`, of an error or of its idle timeout, but is freed
only when `epex_poll` hands out its `NET_OP_NOTIFY`, one poll after its last
result.

What is hard here:

* Memory: a stub or a request has up to seven kinds of reference to it, and four
  ways of dying, each of which must undo exactly those that exist.
* Edge triggering: what epoll said once has to be remembered until `read` or
  `write` says `EAGAIN`.
* Answering once: completion, end of file, error, detach, request timeout and
  idle timeout compete for a request.
* A result array of any size: results and `NET_OP_NOTIFY` wait for later polls.
* Descriptors come back: the application may reuse a number while the old stub
  still waits to be announced.
* One link word, two owners: a node of the hash table is linked with the word by
  which the pool links it while it is free.
* The change of the hour: every thread that logs may be the one that renames,
  closes and opens the files, while the others look at the hour and at the
  descriptors without the lock; and the process may end at any point of it.

`PROJECT.json` lists these hazards at the lines where they bite, with the
properties that cover them. Some things that can go wrong do, and are promised to nobody:
an idle timeout that is lost when the clock steps back, lines that are lost or misplaced during a
cut, two counters that drift. The properties have to allow for these, so the hazards list
none for them, and say so.

## Modules

| module | models |
|---|---|
| `Lists` | a list head as a sequence; `DLIST_REMOVE` is `Unlink` |
| `NetKernel` | outside the repository: sockets, peers, epoll; from how `exnet.c` uses them |
| `Epex` | `exnet.c`; extends `NetKernel` and `Lists` |
| `EpexApi` | the promise of `exnet.h`: the abstract specification |
| `EpexProps` | invariants, action and liveness properties of `Epex`, the refinement of `EpexApi`, the fairness |
| `EpexMC` | instances for TLC, with `Epex*.cfg` |
| `Timer` | `timer.c` |
| `TimerApi` | what `exnet.c` takes the timer for: the abstract specification |
| `TimerProps` | invariants, action and liveness properties of `Timer`, the refinement of `TimerApi` |
| `TimerMC` | instances for TLC, with `Timer*.cfg` |
| `MemPool` | `mempool.c` and `slist.h`: the layout of a page, and the calls as operators on links |
| `Hash` | `hash.c`; extends `MemPool` |
| `HashApi` | a partial function with the codes of `hash.h`: the abstract specification |
| `HashProps` | invariants of `Hash` and of the pool under it, the refinement of `HashApi` |
| `HashMC` | the instance for TLC, with `Hash.cfg` |
| `Log` | `log.c` |
| `LogProps` | invariants, action and liveness properties of `Log`; checked with `Log.cfg` |
| `ListsProofs` | lemmas on `Unlink`, `AppendNew`, `NoDuplicates` |
| `EpexProofs` | theorems of `Epex`: types, lists and what refers to stubs, wake-ups |
| `EpexRequestProofs` | theorems of `Epex`: requests, timer units, dying stubs, results |
| `EpexApiProofs` | theorem of `Epex`: the refinement of `EpexApi` |
| `TimerProofs` | theorems of `Timer`: types and bounds, what is in which list, the refinement of `TimerApi` |
| `MemPoolProofs` | lemmas on chains of links, the layout of a page |
| `HashProofs` | the inductive invariant of `Hash`, the theorems, the refinement |
| `LogProofs` | the inductive invariant of `Log` and the theorems |

### How `Epex` follows the code

State. `hash` is `_sock2stub`; `stub` has the plain fields of each `netstub_t`
(`fd` is `NULL` when it is in the pool, `timed` says `_timeout > 0`, `status` is
the set of `SOCK_*` flags); `rdq`, `wrq`, `doneq` are its queues; `task` has the
fields of each `nettask_t` (`stub` is `NULL` when it is in the pool); `rlist`,
`wlist`, `elist`, `avail` are the lists of the handle; `armed` and `due` are the
timer units in the timer that have not, or have, been found expired.

Actions. A call other than `epex_poll` makes no system call whose answer a peer
could change in between, so it is one action; a call that returns false and
changes nothing is none. `epex_poll` is cut at its system calls. `pc` says which
of its loops it is in and `todo` which stubs the loop still visits: the loops
save the next node before they run their body, which unlinks none but the current
one. Then `PollStart` is `epoll_wait`, `EventError` and `EventReady` one event,
`ReadData`, `ReadEagain`, `ReadEof` and `ReadError` one `read()` with what the
code does up to the next one, the `Write` actions the same for `write()`,
`ErrorFlush` one broken stub, `TimerTimeout` the reading of the clock,
`TimerTask` and `TimerSock` one unit that `timer_next` returns, and `Fill*` one
stub of the list of available ones.

Abstractions. Bytes are counted. `read()` and `write()` move all the bytes they
can. The value of `errno`, user pointers and the time stamps of requests are
left out. A result is the request it is of, as it is when handed out. Allocation
fails when no object is free. The clock is: any armed unit may be found expired,
and with `ClockStepsBack`, `timer_add2` may refuse a unit, which `epex_read`,
`epex_write` and `epex_connect` answer by failing (the last also detaches), and `ACTIVE_STUB` by nothing. `EPOLLERR` and
`EPOLLHUP` are one event, and a socket that was never connected has it.

Next to some operators the modules define a *slip*: the same with a plausible
mistake (a forgotten `EPOLL_CTL_DEL`, the wrong end of a queue). Nothing uses
the slips; putting one in the place of the original shows which property notices.

### How `Timer` follows the code

State. `last`, `now`, `count`, `ms`, `sec`, `minute` and `other` are the fields of
`mstimer_t`; `tv` is the time of a unit that is in a list, in milliseconds. The
sizes of the wheel, 1000, 60 and 60, are parameters. A list is the set of its units:
its order only decides among units of one millisecond, and is left open.

Actions. `Add`, `Del` and `Timeout` are `timer_add(2)`, `timer_del` and
`timer_timeout`; a refused `timer_add` changes nothing. `timer_next` is cut at the
rounds of its loop and of its recursion: `Tick` and `Pop` are one round over
`_ms`, `CaughtUp` is its `return NULL`, `AdjustSec` is a whole `timer_adjust_sec`
with the `timer_adjust_min` it calls. Units are added and deleted between the
calls, as `epex_poll` and its callers do, also while there are still expired ones.

How it fits `Epex`: a unit in `armed` is a unit in a list, and `TimerTimeout` with
the set `expired` is the calls of `timer_next` of one poll. `Epex` lets any unit
expire early or late, so nothing that is checked of it depends on the wheel, but
for the liveness properties: a unit has to expire one day, which the wheel makes
true for a program that polls at least once a second (`TimerShort`).

### How `MemPool` and `Hash` follow the code

State. `next` is every link word: of the free list's head, of the heads of the
buckets, and of all elements of all pages. An element is a page and an index;
its bytes behind the link are `entry`, `NULL` while they mean nothing. `cnt` is
`_node_cnt`, `table` says whether there is a table. `SLIST_INSERT_A` and
`SLIST_REMOVE` are `InsertAfter` and `RemoveAfter`; a new page is `Threaded`, which is
what the loop of `mp_alloc` does to the links in the end. What a walk from a head
meets, `Chain`, is the least set that is closed under `next`: the walks of
`ex_hash_add`, `ex_hash_seek` and `ex_hash_del` look for a key in it, and would
not end if a chain were a circle, which `OnePredecessor` rules out.

Actions. One for each way a call can go: `AddNew`, `AddFound`, `AddFail`,
`DelFound`, and so on; each includes the calls of the pool. `mp_alloc` fails when no
element is free and no page is left, which stands for `malloc` returning `NULL`.
The user of a table calls nothing before `ex_hash_init`.

How it fits `Epex`: there the table is `hash`, the function that `HashApi` shows it
to be, and the pools are sets of objects, as `NodesAccounted` shows of one pool. `Epex`
lets `epex_attach` fail when no stub is free but never because `ex_hash_add`
fails.

### How `Log` follows the code

State. `pc` says where each thread is in `err_warn`, `last` is `_last_tm` of its
`__log_sp` (0: the thread has none yet), `to` the descriptor it has read and not yet
written to. `fd` has `s_log_fd` and `s_log_warn_fd`, `cut` is the hour of
`g_last_cut_time`, `lock` the owner of `s_log_mutex`. Outside the program: `desc`
says what each descriptor refers to, `name` which files have the names `X.log` and
`X.log.wf`, `archive` which file is named after which hour.

Actions. Between two accesses to what threads share a call is one action: `Begin`
reads the clock, `Check` is the look at the hour without the lock, `Lock`, `CutFirst`,
`CutHour` and `CutDone` are the second look, then each `rename`, `close` and `open` is a
step, and so is each store of -1 after a `close`: in between other threads may read the number of a
descriptor that is closed or something else by now. `Pick` reads the descriptor and `Write` is the `write`. The first check reads
five words of `g_last_cut_time` that another thread may be writing; a mixture of
two times can only differ from the thread's time where one of them differs, and
both outcomes of `Check` before or after the write are in the model. Two actions
stand for the rest of the program, which opens and closes descriptors of its own:
`open` returns the lowest number that is free, so a number that the log gave up comes back.

Faults. `Restart` may happen at any point: the process exits or is killed and a new
one finds the disk as it is. `OpenFails` is the code's own `exit(-1)`. `ThreadExit`
frees the `__log_sp` of a thread.

Abstractions. What is in a line, and so the buffers; `localtime_r` does not fail; the
clock does not step back; an hour is `HourLen` ticks. `init_log` is called
before the first line, if at all. `disturbed` and `wentBack` are history: which threads have looked at the hour
and gone on to write when another thread was cutting, and whether a thread has cut to
an earlier hour than that of the cut before.

## Runs

All finish within two minutes on one core, `Log` in three.

| run | what it shows | bounds |
|---|---|---|
| `EpexRead` | reads and writes: types, no dangling reference, ownership, timers, order, honest results, answered once | 1 socket, 2 requests, reads of 0 and 2 bytes against a receive buffer of 2, writes of 2 against a send buffer of 1, with and without timeouts, result arrays 1 and 2, detach |
| `EpexWrite` | connecting, reconnecting and writing: lists agree with flags, no lost wake-up, honest results, refinement of `EpexApi` | 1 socket, 2 requests, writes of 1 and 3 bytes against a send buffer of 2, reads of 1, clock may step back |
| `EpexTwo` | a connection and a listener: dying stubs are settled (answered, out of epoll and the poll lists, still in the hash table, where the next poll looks for results), announced last and stay dead, refinement | 2 sockets, 2 requests, batches of 1 event, 1 result per poll, silence, accept, reused descriptors |
| `EpexServed` | liveness without timeouts: untimed reads and writes are served | 1 socket, 2 requests, sizes 1 and 2, buffers 2 and 1 |
| `EpexAnswered` | liveness with timeouts and errors: requests are answered, dying stubs announced | 1 socket, 2 requests, 1 result per poll, clock may step back |
| `EpexClosed` | finding: a read queued after end of file is never answered | 1 socket, 1 request |
| `EpexError` | finding: an error becomes an idle timeout | 1 socket, 1 request |
| `TimerShort` | polls at most a second apart: every unit is where it is looked for, the wheel refines `TimerApi` | 2 units, an hour of 3 minutes of 3 seconds of 2 milliseconds, 36 ms (2 hours), clock may step back |
| `TimerLong` | gaps of more than a minute: nothing early, nothing in two lists, the checks of `TIMER_CHECK`, `_count`, `timer_next` returns | the same, 26 ms, gaps of up to 8 ms |
| `TimerLate` | finding: units are late | 1 unit, gaps of up to 3 ms |
| `Hash` | the links of pool and table: no two lists run together, every element is accounted for, keys are found and unique, refinement of `HashApi` | 3 keys in 2 buckets, 2 values, 2 pages of 2 elements, renewed while `_node_cnt` is at most 3 |
| `Log` | the hourly cut: files and descriptors belong together, during the cut too, undisturbed lines are kept, archives are not replaced, calls return | 2 threads, an hour of 2 seconds, 3 seconds of time (2 hours), 3 descriptors of which the rest of the program uses up to 2, 10 files |

Why the bounds are enough for the cases that matter: two requests give a queue
with a first and a second one (partial first, detach with both pending, one done
and one pending) and exhaust the pool; a size above the buffer makes partial
transfers; an array of one place splits the results of a stub from each other and
from its `NET_OP_NOTIFY`; two sockets with batches of one event make epoll report
one while the other waits, and give two stubs that refer to one descriptor in
turn. Two units of the wheel are in every pair of its lists, with the times of one
before, after and at those of the other, and 5 minutes take a unit from `_other`
through all arrays. One stub per socket is what the hash table allows at a time. Symmetry of
stubs and of requests is used for safety only.

In `Hash` one bucket has two keys, so nodes are removed from the front and the end of a chain; the
pool is filled, extended by a page, exhausted (a key may be missing for want of memory
only in `AddFail`) and emptied with nodes in it. Pages and values are symmetric.
In `Log` two threads give one that cuts and one that is between any two of its steps; in the three
seconds one hour ends in a process that has logged before and in one that was just restarted,
and each thread logs in each second. Three descriptors make the open of a file fail or
get a number that was just given up, or not. Files are created once per restart or
cut; ten are never used up, as `Open` would have no unused file to choose and `TypeOK` would
say so.

### Fairness

`FairSpec` assumes that the application calls `epex_poll` again and again with
room for results (`WF(Poll)`), that a call that has begun goes on (`WF(PollStep)`:
it never blocks, the timeout of `epoll_wait` is 0), and that a unit that is
looked at again and again is found expired one day (`SF(Expire(t))`: time passes, and the
program polls at least once a second, without which the wheel may be late, see
`TimerLate`).
`ServedSpec` adds that peers go on draining and sending (`PeerFairness`), which
only `EpexServed` and the counterexample of `EpexClosed` use. Nothing is assumed
of the order in which `epoll_wait` reports sockets.

`Log!FairSpec` assumes that a call of `err_warn` that has begun takes its next step if it can
(`WF(Step(t))` for each thread). Of the mutex nothing more is assumed: a thread that waits for
it gets it in the end because a thread asks for it only in a second in which it has not logged yet,
and holds it for a few system calls on files, none of which waits for another thread.

`TimerProps!FairSpec` assumes that `timer_next` goes on once it was called: it is
sequential code that waits for nothing.

### Findings

* `exnet.c:1148`: after a failed `read()`, `DO_WITH_ERROR` takes the stub's idle
  unit out of the timer and the following `ACTIVE_STUB` puts it back. If it
  expires before the stub is announced, the error becomes `SOCK_IDLE` and
  `NET_OP_NOTIFY` says `NET_EIDLE` where `exnet.h` says `NET_ERROR`.
  (`TimersMatch` states what holds.)
* `exnet.c:1120`: the stub leaves the readable list at end of file. A read that
  is queued later waits for an event that does not come, although the code under
  `/* socket closed by peer */` was written to answer it with `NET_ECLOSED`.
* `timer.c:262`: when a poll comes more than a second after the one before and the
  end of a minute lies between, `timer_adjust_sec` may pass it without
  `timer_adjust_min`. Every unit of the minute lists is then a minute late, at
  each such minute again; a program that always polls that seldom would not see
  those units expire. (`Placed` and `ImplementsApi` state what holds otherwise,
  `NeverEarly` what holds in any case.)


Two things that are not runs, as no line of the repository promises otherwise:

* `log.c:165` asks whether the hour of the last cut *differs* from the thread's own, not
  whether it is earlier. A thread that read the time before the hour ended and is
  overtaken by a cut will cut back: the new hour's file is put away under the new hour's name, and
  when the next thread cuts forward again, it is the old hour's archive that is
  replaced. That is why `ArchivesKept` excepts what follows a cut that goes back; without
  the exception TLC finds that behaviour. In the same way a line may be lost
  or go to a file of another hour if a cut comes between the look at the hour and
  the `write`: `UndisturbedKept` says that this is the only case.
* `ex_hash_renew` leaves `_node_cnt` as it is, so it counts too much from then on
  (`KeysOnce` states the bound that holds). The macro to read it, `hash.h:57`,
  names a field `node_cnt` that the table does not have.

## Proofs

The inductive invariants of the engine and of the log were also checked by TLC, on instances
of the runs above: a conjunct that is false there would have shown before its proof.

### The engine

The three `Epex` modules prove, for any finite or infinite sets of sockets, stubs and
requests and any sizes (the assumptions are `KernelAssumption` and
`EpexAssumption`: the constants have the right types and `NULL` is none of the
objects), all that the runs of `Epex` check but for liveness:

| theorem | states | module | invariant |
|---|---|---|---|
| `TypeCorrect` | `TypeOK` | `EpexProofs` | `IInv` |
| `ListsCorrect` | `ListsMatchStatus` | | |
| `NothingFreedIsPolled` | the part of `NoDangling` that is about epoll, the hash table and the poll lists | | |
| `NoWakeupLost` | `NoLostWakeup` | | `WInv` |
| `TasksOwned` | `TaskOwnership` | `EpexRequestProofs` | `KInv` |
| `TimersAgree` | `TimersMatch` | | |
| `NothingDangles` | `NoDangling` | | |
| `DeathIsSettled` | `DyingSettled` | | |
| `RequestsAnsweredOnce` | `AnsweredOnce` | | |
| `FreedWhenDone` | `NotifyIsLast` | | |
| `DeathIsFinal` | `DyingIsFinal` | | |
| `ResultsHonest` | `HonestResults` | | `HInv` |
| `BytesInOrder` | `HeadOnlyPartial` | | its own |
| `EngineImplementsApi` | `ImplementsApi` | `EpexApiProofs` | `KInv`, `FreeUnanswered` |

**Types and lists.** `IInv` is one invariant, each part of which is needed for
another to be inductive:

* types: a `read` into the current stub keeps `sock` well typed only if that stub
  has a socket, so the stubs a loop still visits must be alive (`TodoAlive`); what
  `epoll_wait` returns are stubs only if the ready list has registered sockets
  (`ReadyRegistered`);
* a list holds no stub twice because a stub is inserted when its flag is not set
  (`ListsMatchStatus`), because the lists hold no freed stub (`PollListsAlive`), a
  new one having no flags, and, as `epex_connect` does not look at the flag, because
  a socket that is not connected is not writeable (`Unconnected`);
* that needs an event to report `ERR` for such a socket, events to be of different
  live stubs (`EventInv`), which holds as epoll knows the open stubs only
  (`Watched`) and the hash table has each once (`HashAgrees`).

`Next` is split by what a step does to the stubs: steps that leave them alone
(`QuietStep`), change the status of one (`StatusStep`, with `DropStep` and
`DeathStep`), make one (`NewStubStep`), free one (`NotifyStep`). The list lemmas
are in `ListsProofs`.

**Wake-ups.** `NoLostWakeup` is not inductive, for two reasons. That a socket which gets
room again is reported needs more than that it has been unwriteable: the kernel must have
noted that somebody waits (`nospace`), as a `write` that finds no room and a look of
epoll make it do. `WriteAwake` says so of every connected socket that neither epoll nor its stub
knows of. And a listening stub leaves the readable list while connections wait; that is right
because epoll keeps the socket, being level triggered (`LevelAwake`), and the stubs
that are treated so are those of listening sockets (`Listens`). `WInv` is `IInv` with
these. A step of a peer that changes what a socket can do wakes it, a step of the engine that
forgets an event or a flag has just seen that the socket cannot, and what happens
to one socket disturbs no other (`StaysAwake`, `OthersAwake`).

**Requests.** `KInv` adds to `IInv`:

* `Owned`: where a request is, by its stub, its kind and its status. Stronger than
  `TaskOwnership`, which does not say which of its queues a waiting request is in;
  `timer_next` takes a request out of whatever queue it is in, so this is what makes
  the answered one leave the queue of its kind.
* `TaskUnits`: which requests have their unit in the timer, and that a unit found expired is dealt
  with in the same `epex_poll`.
* `Loops`: the stubs a loop still visits have the flag of its list. A dying stub has only the
  flag of its death, so none is read or written; without this a request could be answered
  `NET_DONE` for a stub that is announced as broken.
* `StubOK`: which stubs have their unit in the timer (a broken one may, see the
  findings), that a dying stub has one flag, and that it is settled, or is broken and
  waits for the error loop of this poll (`Unsettled`), or for an `epex_poll` to hand
  out what it owes (in `avail`).

What a step may do to requests is one of six effects on one stub (`EffectAt`): nothing, bytes
move, a new request, an `ACCEPT` result, answers, results handed out. `OwnedStep` and
`TaskUnitsStep` show once what each effect keeps; then every action is shown to have one
of them (`StepSafe`), and the action properties follow from the effects.

**Results.** `HInv` adds that a request that waits wants more bytes, if it wanted any (`Honest`);
each action does to a request one of five things (`TaskStep`). For `BytesInOrder` a queue
changes in one of a few ways (`Shifts`), none of which moves a request that has bytes
behind another, as bytes are moved at the head only (`AtHead`).

**The interface.** `EpexApiProofs` follows the refinement mapping, socket by socket (`ConnOf`) and
request by request (`OwnerOf`). First each step of `EpexApi` is stated as a change of these
(`ApiAttaches`, ..., `ApiStutters`), then every action of `Epex` is shown to be one of
them: `Attach` and `Listen` attach, `Submit` and `Connect` request, `Detach`, a failed
`Connect` and an idle timeout kill, errors fail the socket and `ErrorFlush` its requests,
reads, writes and request timeouts answer or are not seen, `FillResults` hands out, `FillNotify`
notifies. `KInv` is what makes the guards of the interface true: a request answered in the
loops belongs to an open socket (`Loops`, `StubOK`), one that times out does too (a dying stub is settled
by then), an idle timeout of a broken stub finds nothing left to answer, so it changes nothing of
the interface, and a stub is announced when nothing of it is left (`Owned`, `StubOK`).

### The timer

`TimerProofs` proves, for any sizes of the wheel of at least two, any times and any
gaps between polls (`TimerAssumption`):

* `TypeCorrect`: `Spec => []TypeOK`.
* `NoUnitEarly`: `Spec => NeverEarly`.

The invariant, `TInv`, says that no list holds a unit that is later than what the
list stands for: `MsBound`, `SecBound`, `MinBound`. These are bounds from one side
only, so they survive a minute that is passed without `timer_adjust_min`; between
the end of a minute and `timer_adjust_min` the minute lists still stand for what
they did (`MinuteDone`), which needs `AtSecond`: `timer_adjust_sec` runs on the first
millisecond of a second. `NeverEarly` follows as a unit is returned from the list of
the millisecond of `_last`, which has passed.

Its second half goes on from there, for any sizes of the wheel. Whatever the gaps
between polls:

* `UnitsLinkedOnce`: `Spec => []LinkedOnce`.
* `NothingLeftBelow`: `Spec => []EmptyBelow`.
* `CountRight`: `Spec => []CountIsUnits`, if there are finitely many units and fewer of them
  than `_count` can count (`CountRange`). As the property says, this needs a user that does not
  delete a unit that was handed out (`DelExpired = FALSE`): `timer_del` counts it down again.

With polls at most a second apart (`MaxGap <= MsPerSec`; the run `TimerLate` shows what
becomes of a unit when they are not):

* `UnitsPlaced`: `Spec => []Placed`.
* `WheelIsSet`: `Spec => ImplementsApi`, the whole refinement of `TimerApi`.

The invariants:

* `Disjoint`: no two lists share a unit. Stated list by list, as `timer_adjust_min` and
  `timer_adjust_sec` empty one list into the lists below it.
* `Passing`: `TInv`, and the lists that time has passed are empty (`MsPassed`,
  `SecPassed`). A unit goes into a list that has passed only if its time has, and
  `NoUnitEarly`'s bounds say that nothing handed down is later than its list.
* `Recent`: the wheel is never more than a second behind, so `timer_adjust_sec` is done with
  the one second it starts from and never runs to the end of the minute. Without it
  a minute list would be passed without `timer_adjust_min`, and `Placed` is false.
* `Placed` is inductive with these two: what `timer_adjust_min` and `timer_adjust_sec` hand
  down lands where its time belongs, and the units that stay are still where they belong
  as `_last` goes on (`MsPlaced`, `SecPlaced`, `MinPlaced`, `OtherPlaced`).

`timer_next` then returns the earliest unit that is due since what is in the
list of `_last`'s millisecond is of that time, and nothing earlier is left (`NoneBefore`).

### Pool, table and log

`MemPoolProofs` proves, for any sizes (`PoolAssumption`: a page is larger than its
head), `ElementsFit`: the elements of a page lie behind its head, one behind the other and
within the page. The rest are lemmas on `Chain`: what unlinking and inserting an
element, and threading a new page, do to every chain. Chains are sets that a walk cannot leave, so
most of these need no induction; where the elements of a page are counted down,
`LeastNatural` (a set of numbers that is not empty has a least one) takes its place.

`HashProofs` proves, for any hash function, number of buckets, pages and sizes
(`HashAssumption`), all that the run `Hash` checks: `TypeCorrect`,
`ListsApart` (`OnePredecessor`), `NothingLost` (`NodesAccounted`), `OneNodePerKey`
(`KeysOnce`), and `TableIsFunction`, the refinement of `HashApi`. The invariant,
`HInv`, is the conjunction of these properties with what they need from each
other: a chain is known after an insertion only if its head is no other chain's
element (`OnePredecessor`); a deleted element joins the free list and no other
(`NodesAccounted`); `Lookup` is the value of the one node of the key (uniqueness), and that
`ex_hash_del` does not count below zero needs the nodes to be finitely many and
counted. A step of `Hash` is then a step of `HashApi`, call by call.

`LogProofs` proves, for any number of threads, files and descriptors, any length
of the hour and any times (`LogAssumption`: the first second is not in the hour 0, which stands for
no cut yet), `TypeCorrect`, `CutLeavesFilesOpen` (`FilesOpen`),
`UndisturbedLinesKept` (`UndisturbedKept`) and `ArchivesStay` (`ArchivesKept`). The
invariant, `LInv`, was first checked by TLC. Its parts:

* `Mutex`: who is in the cut holds the lock, so what a cutting thread has done so far stays done
  (`CutStage`), and the descriptors that refer to files of the log are those of `fd`, each to one of its kind (`FdsHeld`),
  but for the one that is closed and not yet forgotten (`Closed`);
* `Looked`: a thread that does not look at the hour again within its second finds the files
  open, as it has looked before in this process;
* `Undisturbed`: nobody cuts, the descriptor it has read is the current one;
* `Times` and `Forward`: no thread is ahead of the clock, the last cut is not either, and unless a cut has
  gone back, none goes back now;
* `Archived`: what has been put away is older than what may still be put away, also after a restart, when
  only the clock tells.

### Only model-checked

* The liveness properties (`WriteServed`, `ReadServed`, `TimedRequestAnswered`, `DyingNotified`,
  `NextReturns`, `CallsReturn`): liveness under fairness is out of the prover's reach.
* The three findings are counterexamples, so there is nothing to prove.

## Not modelled

`epex_close` (frees the handle, nothing may follow), argument checks, the
contents of buffers, error texts and utilities (formatting and one `fcntl`), the
timer's load test. Of the log: what is in a line and how long it is,
`init_log` when lines have been written already (the open files keep the old prefix until the next
hour), and the engine's own messages, which have no effect on it. Of the pool: `mp_init`
and `mp_close` but for the layout of a page and the freeing of all of them.

## Plan

1. More of the helpers proved about once: what `TasksDone` and `Abandon` do is derived
   in `EpexRequestProofs` and in `EpexApiProofs`.
2. Bounds that would carry the liveness argument: that each loop of `epex_poll` gets shorter
   with every step of it, so that a call ends whatever peers do.
3. `init_log` at any time, with the prefix of the path in the state of `Log`.
