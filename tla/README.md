# A verification of AIS and its database pool

This directory holds TLA+ models of the ad server AIS (`src/ngix_module/AIS`) and
of the MySQL connection pool beside it (`src/mysql_conn_wl`), the TLC
configurations that check them and proofs of their main properties. It assumes
that the reader has the source at hand. `PROJECT.json` maps each definition to
the lines it stands for.

## 1. The system

AIS answers HTTP requests of mobile devices. It is memcached's event loop with
the protocol replaced: a main thread accepts, worker threads read and answer.
Ads, orders, counters and sessions live in Redis, which the workers write to at
a master and read, in part, from a slave. What the server logs goes through
Redis too, by a thread of its own.

| Part | Source | State | Operations | Talks to |
|---|---|---|---|---|
| cyclic queue | `cyclequeue.c` | ring of nodes in buckets, head, tail, list of buckets | `eg_cq_push`, `_pop`, `_head`, `_inc`, `_dec` | used by the hand-over, the log and the pools |
| asynchronous log | `ais.c` `log_work_thread`, `allais.c` `log_handler` | a queue per worker, `g_log_empty`, `g_log_sem`, `do_run_maintenance_thread` | log, drain, sleep, stop | workers -> log thread -> Redis |
| connection hand-over | `ais.c`, `thread.c` | listening sockets, `allow_new_conns`, `stats.curr_conns`, a queue and a notify pipe per worker | accept, dispatch, `conn_new`, `conn_close`, stop and resume listening | main thread -> workers |
| connection machine | `ais.c` `drive_machine` | a `conn` per socket: state, buffers, event | read, parse, answer, yield, close, reuse | libevent, client |
| ad request and selection | `allais.c` `ais_get`, `get_ad`, `get_adbody` | two Redis connections, pools of nodes and of tables, the last ad of a user | answer a request | Redis; leaves the session the callbacks need |
| callbacks and billing | `allais.c` `ais_callback`, `DeductMoney` | keys of Redis: session, locks, marks, counters, accounts | report of a show, report of a click | workers <-> Redis master and slave |
| MySQL pool | `mysql_conn_wl/db.c` | `gpdb_conns[]`: link and status, `gdb_mutex` | `db_init`, `db_end`, `db_select`, `db_update_insert_del` | threads <-> MySQL |
| reply threads, keep-alive | `thread.c`, `redis_keepalive.cpp` | contexts of the asynchronous Redis connections | connect, read replies, reconnect | Redis |
| pools | `ais.c` `cp_*` | cyclic queue of free objects | `cp_pop`, `cp_push` | one thread each |
| hash table, list | `hashtable.c`, `htable.c`, `x_list.c` | table, list with semaphore | insert, find, push, pop | `get_ad`; nobody |
| queue in shared memory | `c_base_20140528/Shm_Queue.cpp` | ring of records, head, tail, semaphore | push, pop, blocking or not | processes |
| message server | `yalitest_workspace` | ids of messages and sessions in Redis | login, friends, group messages, notices | clients, Redis |

Older copies of `ais.c` and `db.c`, the demos, vendored libraries (json-c,
Mini-XML, hiredis) and generated protobuf code are listed in `PROJECT.json` and
left aside.

What is hard in this code is the same everywhere: threads that share state
without a lock and rely on the order of a few assignments (the queue,
`g_log_empty`, `allow_new_conns`), an action split in two by an unlock (the
pool), by the event loop (the connection machine) or by the network (requests
and callbacks), and failures that leave one half of an action done. The hazards
are listed in `PROJECT.json` with the lines they bite at and the properties that
watch them.

What makes each part correct:

* **queue**: first in, first out, nothing lost or repeated, while buckets are
  spliced into the ring and cut out of it, for a pusher and a popper without a
  lock; an element read in place stays until it is popped.
* **log**: no record waits for a log thread that sleeps for good; no worker's
  queue is starved; a stop writes out everything.
* **hand-over**: every accepted socket gets to exactly one worker and is served,
  unless the write that should wake the worker failed; the count is exact; a
  server that stopped listening listens again.
* **connection machine**: a client gets its own answers, whole and in order,
  however much it sends ahead; a machine that stops is woken again; one client
  does not hold up the others.
* **ad request**: no ad is served that a filter excludes, whatever replies are
  lost; both pools are whole, and every table cleared, for the next search; a
  connection that was lost is opened again.
* **callbacks**: a report counts once; a click only with its show; an order is
  charged for what it pays for, once; a user past the limit is excluded.
* **pool**: a connection is in one thread's hands; none is lost; every call
  returns.

## 2. The modules

| Module | Stands for | |
|---|---|---|
| `Fifo` | what `cyclequeue.h` promises | abstract |
| `CycleQueue`, `MCCycleQueue`, `CycleQueueProofs` | `cyclequeue.c` | implements `Fifo` |
| `LogWriter`, `MCLogWriter`, `LogWriterProofs` | the asynchronous log | |
| `ConnDispatch`, `MCConnDispatch`, `ConnDispatchProofs` | the hand-over of connections | |
| `ConnMachine`, `MCConnMachine`, `ConnMachineProofs` | `drive_machine`, from `conn_new` to `conn_close` | |
| `AdRequest`, `MCAdRequest`, `AdRequestProofs` | requests for ads, and the Redis connections of a worker | |
| `AdCallback`, `MCAdCallback`, `AdCallbackProofs` | callbacks and billing | |
| `Lease` | what a pool promises | abstract |
| `DbPool`, `MCDbPool`, `DbPoolProofs` | `db.c` | implements `Lease` |

How they fit together. `LogWriter` counts the records of a queue and
`ConnDispatch` keeps a sequence of items, both as if their queues were perfect;
`CycleQueue` shows on its own what the queue does for such a pusher and popper.
The life of a connection is one step of `ConnDispatch`, from open to closing;
`ConnMachine` is that step at length, and the answers in it are what `AdRequest`
and `AdCallback` compute. `get_adbody` leaves the session that a callback begins
with; that session is in `AdCallback` (`Serve`), and `AdRequest` leaves it out.
`AdRequest` in turn takes out the ads that `AdCallback` has tagged. Each of the two
has its own fault model, fitted to the functions that send its commands.

Every specification contains operators named `Slip...`. They are not part of the
specification. Each is the definition after it with a slip a programmer could
make (a missing reset, a test one off, two steps swapped); putting it in the
place of the right one makes a named property fail. `PROJECT.json`, "mutants",
lists which. They document what each property is sensitive to.

**Memory.** A step is one access to memory that another thread writes, together
with the private work around it. Threads are interleaved, that is, memory is
sequentially consistent. The code uses no barriers; on x86-64, which the objects in
the repository are built for, stores are not reordered with stores nor loads with
loads. A store delayed past a later load of its thread is the one reordering the
models leave out. It could matter where a thread writes one variable and tests
another: `log_handler` pushes a record and then reads `g_log_empty`. The log thread
waits for the semaphore between its first empty pass and its second, up to a
second, so the store would have to be delayed that long.

### CycleQueue

`next`, `val`, `btlist` and `bthead` are the memory; `ppc` and `cpc` the places
of the pusher in `eg_cq_push` (the two tests of `eg_cq_is_bucket_null`, `inc`,
`dec`, the store of `val`, of `tail`) and of the popper in `eg_cq_pop` (clear,
advance). With `OneThread` the two do not overlap, as in the pools. `pt` and `ct`
number the elements pushed and popped, modulo `Tags`. `eg_cq_inc` and `eg_cq_dec`
are one step each: they touch links behind the tail, not those between head and
tail. `stray` and `wrapped` are history variables: they remember that one of the
two damages of section 4 has happened. Invariants are stated up to that point
(`Sound`), and the runs do not follow a damaged queue (`Undamaged`).

### LogWriter

`pending` counts the records of each worker; `wpc` is a worker in `log_handler`
between push, test, store and post; `lpc`, `lq`, `num`, `i`, `j` are the log
thread with its permuted array of queues; `reg` is what `++g_log_empty` has loaded
and not yet stored. `empty` is `g_log_empty` kept at 2 when it grows past 2: no
test tells the difference. `stopper` says who stops the log: `main` after
`pthread_join` of the workers, `sig_handler` at any time while they go on, or
nobody. `undone` is history: see section 4.

### ConnDispatch

A socket is in one of seven places from the kernel's backlog to closed; `mpc` and
`tpc` are the main thread between accept, push and notification and a worker
between reading the byte, `conn_new`, the count and the pop, or in `conn_close`
between the count, `close` and `allow_new_conns`. `Fds` counts the descriptors in
use. What happens to an open connection is `ConnMachine`'s.

What may fail: `accept` for want of descriptors, `fcntl` (`NoNonblock`),
`eg_cq_push` (`PushRefused`), `conn_new` (`ConnNewFails`), and both ends of the
notify pipe. `dispatch_conn_new` only prints a message when `write` fails, and the
item stays in the queue without its byte (`NotifyFails`); `unsent` is history and
counts these bytes for each worker. When `read` fails the worker goes on to the
item all the same and the byte stays (`WakeUnread`). The properties say what a
missing byte costs: `EveryItemAnnounced` bounds the shortfall of bytes by `unsent`,
and `EverySocketServed` promises a socket that it is served only if as many
connections are behind it in its queue as bytes are missing.

### ConnMachine

One `conn` object and the clients it serves one after another. `state`, `buf`,
`rsize`, `msgs`, `msgcurr`, `go` and `ev` are its fields (`state`, `rcurr` and
`rbytes`, `rsize`, `msglist`, `msgcurr`, `write_and_go`, `ev_flags`); `armed` is
what libevent has of its event, `running` and `nreqs` the call of
`drive_machine` under way. One turn of its loop is one step, and in conn_read one
turn of `try_read_network`. `net` and `unread` are what the socket holds in the
two directions. A line is a newline marked with its number and whether it is
answered, an answer is `ReplyLen` units of that number, so that `wrote` shows
whose answer went out and in which order. `add_iov` cuts an answer where a
datagram would end although this is TCP, so there are two messages to send and
the loop of `transmit` is in the model.

Fail: `event_del` and `event_add` in `update_event`, `realloc` of the read buffer
(`create_conn` has laid that buffer out inside a larger block, so `realloc` may
also end the process), and, by the client, every read and write. Left out,
because no path leads there: UDP, the binary protocol, `conn_swallow`,
`conn_mwrite`, noreply.

### AdRequest

A worker of `allais.c` that answers one request after another. `pc` follows
`ais_get` through `get_app`, the price of the platform, the pipeline of nine
commands of `get_ad`, the maps loaded and intersected, the ads left out, the
place of the user, the choice, and `get_adbody` with one command to the master for
each ad. A request that `ais_get` refuses before it has asked Redis anything is
`Malformed`; any other is `Request`, and the requests are those of one user, because
the mark of another has another key. What Redis says under a key is any of
`Contents`, chosen when it is used. `eligible` takes part in each filter *whether
or not its reply arrives*: it is the set the answer is held against.

`slave` and `master` are the two Redis connections with the error that hiredis
keeps: after a failure a context gives no reply ever again. What happens to it
next depends on the error. If it is one of the connection (`REDIS_ERR_IO`,
`REDIS_ERR_EOF`: "broken"), `slave_redis_command_pending` closes it ("down") and
opens it at the call after that. If it is another one (a reply that cannot be
parsed, no memory: "stuck") nobody closes it; nor is a context ever closed whose
`AUTH` was refused ("refused"), which answers every command with an error.
`send_redis_command` closes the master on any error, but takes a refused `AUTH`
for success as well.

`nodes` and `tables` are the cursors of the pools `np` and `mp`. `maps` are the sets
in use and `held` the tables that the array `maps` of `get_ad` points to, the only
ones its end clears; `dirty` is history, the tables handed out and not cleared
since. `last` and `lastSlave` are the key `mobile:<uuid>:lastrequest` on both sides.

Left out: the sessions (see `AdCallback`), the checks of time stamp and signature
(their outcome is a choice), the `SUNION` of demographic tags (under the macro `SDK`, which no build
sets), `ais_wap` (under `#if 0`), statistics, the text of the answers. The set in
a hash table is a set; the order in which it is run through is any.

### AdCallback

One Redis command is one step. `session`, `lock`, `mark`, `shownum`, `clicknum`,
`fre`, `tagged`, `used`, `taken` are keys, with the ticks they have left where
they expire; `slave` is what the slave has of the two keys read from it in a
callback. `h[w]` is a worker in `ais_callback`. `served`, `counted`, `accepted` and
`billed` are history; the code has them as counters of the day (`show`,
`assshow`, `masshow` and the like).

A command whose reply is awaited may be lost with or without effect, a command
that is only sent may be lost; each such loss, and each end of the process in the
middle of a callback, is counted in `faults` and bounded by `MaxFaults`. The reply
that names the order is one of them: without it the callback goes on with an empty
order, whose limits and accounts are nobody's.

Abstractions: the servings are of one ad of one order on one day. A
tick of time is longer than a callback and than the delay of the slave (see
section 6). A sent command takes effect at once. The two EXPIREs of `c_lock`
(6003, 6024) are one. A lock is held or free, not a number. Both reads of the
click limit are one step. Left out: counters that nobody reads back (`noshow`,
`realshownum`, ...), `SADD tomssqladid`, `HSET fre:over`, the log record, and the
split of the used money by ad and hour and of the balance by unallocated money.

### DbPool

`status`, `link` and, per thread, its place in a call, the connection it took and
its tries. What runs under `gdb_mutex` is one step. The server drops connections
and refuses new ones whenever it likes.

## 3. Runs

| Run | Question | Bounds | Distinct states |
|---|---|---|---|
| `CycleQueueShared` | Is the ring intact, the queue first in first out, the buffer in use kept, for two threads? | 2 nodes a bucket, up to 2 more buckets | 161,728 |
| `CycleQueueFixed` | Does a queue that cannot grow implement `Fifo`? | 4 nodes | 880 |
| `CycleQueueWrap`, `CycleQueueStray` | violations, section 4 | as above | |
| `LogWriter` | Can a record be stranded? Is a busy queue left? Does a stop after joining the workers end, and drain? | 2 workers, batch of 2, 3 records a queue, semaphore up to 2; main, a signal or nobody stops | 402,339 |
| `ConnDispatch` | Is each socket announced, served once, counted; is listening resumed? | 2 workers, 3 clients, descriptors for 2, 1 failed write to a pipe, 1 worker whose reads may fail while one byte is in its pipe | 354,369 |
| `ConnDispatchStuck`, `ConnDispatchRace` | violations, section 4 | 2 clients, descriptors for 1 | |
| `ConnMachine` | Does each client get its answers, whole and in order? Does every machine that stops go on? | 2 clients after one another, 4 units sent, buffer of 2 that doubles once, answers of 3 units in 2 messages, socket of 2, 1 request an event, 1 failure | 566,655 |
| `AdRequest` | Is only an eligible ad served; are both pools whole for each search; is a lost connection opened again? | 3 ads, 4 sets Redis may hold, 8 nodes, 4 tables, 1 or 2 ads asked for, 2 losses | 893,794 |
| `AdCallback` | Does a report count once, a click follow its show, the charge agree; do locks and windows expire, is the limit kept? | 3 servings and 2 workers without a fault, 2 servings with up to 2 faults (`FaultsOnTwo`) | 3,102,141 |
| `DbPool` | Is the pool a lease, and does every call return? | 3 threads, 2 connections, 2 tries | 66,043 |

Why the bounds are enough to see the cases that matter:

* Two nodes a bucket and three buckets are the least with which a bucket is
  spliced into the middle of another, is the newest when the one around it is
  not, and is taken out while a pop stands in it. `Tags` is larger than the
  largest ring, so a repeated or lost element cannot pass for the right one.
* Two workers suffice for every pair of a worker, the log thread and the stop; a
  batch of two has a first, a middle and a last record; a queue of three is not
  drained in one visit.
* Three clients for two descriptors exhaust them with a third waiting; the limit
  of connections is reached in the same run. One write that fails leaves a socket
  behind, and the next connection for that worker gets it served. Reads fail only
  with one byte in the pipe, for one worker: a byte that stays is read later, and
  a worker that finds no item goes back to sleep. The runs of the two violations
  have no failures of the pipe, so their traces show nothing else.
* Four units are three requests and a rest in a buffer for two; the second of
  them is there while the first is answered, and the answer, longer than the
  socket takes, is cut within a message. Two clients show what a `conn` from the
  pool brings along.
* Three ads leave more than are wanted after the ad shown last is taken out, and
  two sets that overlap tell an intersection from a union. Eight nodes are fewer
  than the maps of a search can need. Four tables are what a search can need at most
  (`PoolWhole` would fail with fewer; the code has six). Two losses break one
  connection while the other is down.
* In the callbacks a tick of one for the window and two for the session orders
  the expiries as 60 s and 900 s do. Two shows accepted, one billed, one click
  accepted (12, 4, 6, 2 in the code) make every comparison go both ways.
  Symmetry is used only for the two workers, which no property names, and no run
  with symmetry checks liveness.
* Three threads for two connections: one has to wait, and to run out of tries.

The theorems of section 5 hold without these bounds.

`CHECK_DEADLOCK FALSE` stands in `LogWriter` (the log stops when the server does),
`ConnMachine` (the last client is gone, or the process), `AdRequest` (the process
may end) and `DbPool` (nothing follows `db_end`).

**Fairness.** Weak fairness of each thread's own steps: the operating system
schedules every thread, libevent reports an event that is armed and due, a timer
fires, a MySQL call returns (it has time-outs of 3 s). Workers need not log,
clients need not come or leave, nobody has to stop the server, the MySQL server
need not recover. Two assumptions are about clients: in `ConnMachine` one that
stays reads what it is sent (`WF` of `Receive`; without it no server can get an
answer out), and in `AdRequest` requests that reach Redis keep coming among those
that do not (`SF` of `Request`: a worker that is asked nothing, or only what it
refuses at once, has no reason to reconnect). `AdCallback` has no fairness and no
liveness property.

## 4. What the code does not do

Four runs end in a violation. Each refutes a sentence of the source.

* `CycleQueueWrap` (`PopReturnsHead`): `eg_cq_push` tests for a full ring before
  `eg_cq_dec` shrinks it. If the bucket taken out was what separated the tail from
  the head, the push puts the tail on the head and a full queue looks empty.
* `CycleQueueStray` (`PopRemovesHead`): `eg_cq_pop` clears the value before it
  follows `next`. A pusher in another thread can take the bucket for unused and
  free it in between.
* `ConnDispatchStuck` (`ListensAgain`): when `conn_new` fails the worker closes the
  descriptor without setting `allow_new_conns`; if that was the last one in use,
  the server never listens again.
* `ConnDispatchRace` (`CloseReopens`): the main thread's `allow_new_conns = false`
  can overwrite the `true` of the last `conn_close`, with the same end.

A fifth weakness is an exception in two properties rather than a run: `main` and
`sig_handler` set `g_log_empty = 0`, post, and then clear
`do_run_maintenance_thread`. A log thread that drains twice between the last two
goes to sleep for good, and one whose `++g_log_empty` overwrites the 0 may leave
records behind. `undone` marks these runs; `StopDrains` and `StopEnds` hold in all
others.

While modelling, these facts of the code came up; no sentence of the repository
speaks against them, so they are no findings, but the models hold them:

* A worker that is out of turns (`conn_new_cmd`) and cannot update its event sets
  `conn_closing` and stops all the same (`ais.c:1721`). If `event_add` was what
  failed, nothing calls the machine again: the descriptor stays open.
  `StoppedIsArmed` and `ClosedAfterLeave` name this one exception.
* The pipeline of `get_ad` goes on without the reply that lists the ads this user
  has had enough of (`allais.c:3676`, `3949`). No such ad is served all the same, and
  only because hiredis keeps the error in the context, so that `get_adbody` gets no
  bodies. `AdRequest!OnlyEligible` rests on nothing else.
* A reply lost in the middle of a request may end the process: a command
  appended to a context that `slave_redis_command_pending` has just closed
  (`allais.c:3782`), a body without a model of payment (`4228`), and in
  `ais_callback` the replies read without a test (`5947`, `6083`).
* When `get_ad` leaves out the ad shown last it counts down for it whether or not
  that ad is in the set (`allais.c:4018` to `4024`). As only a set larger than what
  is wanted gets there, the only effect is that one of the places to start from
  is never drawn.
* An order can be charged for a click that is not billed, when a reply is lost
  between `DeductMoney` and the end of the callback (`allais.c:6055`).

* A failed write to a notify pipe (`thread.c:371` to `373`) strands a socket: nothing
  wakes the worker for the last item of its queue until another connection comes
  to the same worker, and then that one is the last. A queue never recovers from
  it.
* A Redis connection of a worker is opened again only after an error of the
  connection (`allais.c:2831`, `2850`). One whose reply could not be parsed, or
  whose `AUTH` was answered with an error (`cliAuth`, `6678`, takes any reply for
  success), stays as it is and the worker finds no ad ever after.
  `ConnectionRecovers` is about connections that were lost; "stuck" and "refused"
  are what it does not cover.
* The session of an ad is not stored while the connection to the master is down
  (`allais.c:4257`); the ad is served all the same, and its callbacks will not
  count.
* `EventBounded` counts the requests answered in one event. Those that need no
  answer (`ais.c:1715`) are not counted in the code either.

## 5. Theorems

The proofs are in the seven modules `...Proofs`. They assume only the named
assumptions on constants in each module, which TLC evaluates in the runs, and
hold for any number of threads, records, clients, requests, ads, connections and
faults. In each module the type invariant is proved as well (`TypeCorrect`); only
`LogWriter` also checks its own with TLC, where it says that the log thread stays
inside its array. Every invariant and every action property that a passing run
checks is a theorem, and so are both refinements.

* `CycleQueueProofs`: `RingAlwaysIntact`, `NothingEverLost`,
  `FreeNodesAlwaysBlank`, `BufferInUseAlwaysKept`, `StepsAreFifo`,
  `ImplementsTheFifo`, for buckets of any size, any number of them, and one thread
  or two.
  The ring is reached by iterating `next`. `RingInv` gives it a shape the provers
  can use: going through `btlist` from its end, each bucket was spliced (`SplicedIn`)
  into what was a ring before, so that at every level a function lists the nodes in
  the order of their links, each once (`IsRing`). `eg_cq_inc` adds a level;
  `eg_cq_dec` takes the last one off, and the ring below is there again.
  `QueueInv` says what is in the nodes: in a listing from the head, the first are
  the elements held with their numbers, then comes the tail, and the rest is blank
  (`Holds`); a push that found the queue full has the head before it, on the ring
  (`FullHead`). `Tags` must exceed the nodes there can be, or two
  elements held would have the same number.
  `StepsAreFifo` says of every step to a sound queue that it is one of `Fifo` or a
  stutter. `ImplementsTheFifo` is the whole refinement, for a queue that cannot
  grow (`MaxBuckets = 0`): with one bucket (`Single`) nothing is ever freed, so the
  queue stays sound. With growth the refinement is false, see section 4.
  What needs induction (that iterating `next` follows the listing) goes by the
  least number for which it fails: `LeastNat`, from the library's theorem on
  well-founded relations, which has no operator parameter.
* `LogWriterProofs`: `NeverStranded`, `AlwaysSignalled`, `StopLosesNothing`.
  `NoneStranded` is not inductive. Its strengthening follows `g_log_empty` through
  a round: only the log thread raises it, and whoever lowers it posts next. So a
  log thread about to sleep that finds 0 has a post coming; and one that finds 2
  had a pass with `g_log_empty` not 0, so whoever pushed behind that pass posts.
  The permutation of the queues is part of it: what is not in the first `num`
  places was found empty, or its worker is about to test. `StopDrains` adds
  `Stopped`: once `main` has joined the workers nobody pushes, and as long as no
  `++g_log_empty` has undone the stop's 0, a `g_log_empty` of 2 means empty queues.
* `ConnDispatchProofs`: `AlwaysPolls`, `AlwaysAnnounced`, `AlwaysQueuedOnce`,
  `AlwaysExact`. The invariants are layered: `MainType` (a server that does not
  listen has its timer), `WorkerType` and `Announced` (a worker at an item has one
  in its queue; the bytes fall short of the items by the failed writes and no
  more), `HandedOver` (the socket just accepted is in no queue; a worker
  that closes one has it for itself). `CurrConnsExact` follows from these by the
  cardinalities of the connections open and of the workers that still have to
  count theirs. It needs the set of clients to be finite (`SockAssumption`).
* `ConnMachineProofs`: `StaysArmed`, `LeavesNothing`, `BoundsEvents`. `Armed` says of
  a machine at any moment what the property says of one that has stopped. `NoLine`
  adds that conn_waiting, and conn_read unless it has just read, are reached only
  with no line in the buffer. `Budget` adds requests answered and turns left.
  `AnswersKeepOrder` proves `AnswersInOrder` for answers, writes and buffers of any
  size. `InOrder` relates four places: the lines in the socket and in the buffer
  are in the order they were sent, and the requests among them are those not
  answered yet; what has been written is `c` whole answers and `p` units of the
  next one (`At`); the message under way holds the rest of that one (`Written`);
  a machine whose allocation failed has its one error answer last and closes
  (`Dying`, `SaidOnce`). The quotient `i \div ReplyLen` of a place by a length that
  is a constant is not linear; `DivOf` reduces it to a multiple and a remainder.
* `AdRequestProofs`: `AbortsNeedLoss`, `ServesOnlyEligible`, `PoolIsWhole`,
  `NeverTwiceInARow`. `OnlyEligible` goes by `Filtered`: what is
  left of the ads has passed every filter *while the connection is up*; a filter
  passed over leaves the connection broken, and a broken one brings no bodies.
  `AbortNeedsLoss` goes by `Connected`: between the price and the bodies a
  connection that is not up was lost in this very request. `NotTwiceInARow` goes by
  `LastRead`: what was read of the last ad is the last ad, if the slave had it.
  `PoolWhole` goes by `PoolInv`: during a search the tables not cleared are among
  those that the array points to, wherever the result of `get_inter` has moved
  the others, and each stage bounds the tables taken before it.
* `AdCallbackProofs`: `CountsOnce`, `ClicksFollowShows`, `KeysExpire`, `LimitsHold`.
  `CountedOnce` needs that the lock of a counted report outlives the session
  (`LockOutlives`), that a callback under way has a live session
  (`SessionAlive`), and that nobody else is between INCR and EXPIRE of the same
  lock (`LockedAlone`). `ClickFollowsShow` needs that marks, on the master and on
  the slave, tell the truth of shows (`MarksTrue`), and what a worker that has read
  one carries on (`UnderWay`). `EveryKeyExpires` and `LimitTags` are inductive with
  the types (`Clean`): without a loss the step that makes a key without an expiry,
  or reaches a limit, puts its worker where the expiry or the tag comes next.
  `ChargesHold` proves `ChargedExactly`. A report that counts has not been accepted
  and is alone (`CountedFirst`), so accepting it adds one ad to those that are to be
  paid for. Each step changes the accounts, what is owed to them and what is due in
  one of five ways (`Effect`): not at all, one ad more is due and owed for, one of
  the two is paid, or a fault drops what was owed. `Balanced` survives each, by the
  cardinalities of the sets of workers that owe; a crash drops at most one callback
  of every worker. That needs finitely many workers (`WorkerAssumption`; the code
  starts `settings.num_threads` of them).
* `DbPoolProofs`: `AlwaysExclusive`, `NoConnectionLost`, `NeverNull`, `PoolLeases`.
  Taking a connection keeps `Exclusive` because its status says idle, that is, by
  `BusyIsHeld`; giving one back keeps `BusyIsHeld` because nobody else holds it, by
  `Exclusive`. The refinement maps each step to an acquire, a release or a
  stutter.

Only model-checked is liveness, all of it (`EveryQueueServed`, `StopEnds`,
`EverySocketServed`, `ResumesWhenAllowed`, `EveryCallReturns`,
`EveryRequestAnswered`, `ClosedAfterLeave`, `ConnectionRecovers`): the prover has no
`ENABLED`, so it cannot use fairness. The four violations of section 4 are TLC's
counterexamples.

## 6. Limits

* Replication: the slave lags by less than a tick in `AdCallback`. Nothing in the
  code bounds the lag. With one longer than the time from the serving to the
  show, the lock and the session can expire together and a late repetition
  counts again. In `AdRequest` the lag is not bounded.
* In `AdRequest` a loss is seen at once; a command that was sent and executed
  without its reply is the same there as one that was not, as requests only
  read; a mark of the last ad whose `SETEX` failed is taken for not written.
* A write to a notify pipe that is full blocks the main thread; the models let it
  fail or succeed.
* Frees of memory are modelled only where a property is about them
  (`eg_cq_dec`). Leaks are not (`stats_reply` behind the early breaks of
  `ais_callback`, `country_reply` of `get_ad`), nor is
  `redis_keepalive.cpp:98`, which frees the reader of a context that a reply
  thread may be reading.
* `malloc`, `pthread` and libevent calls that fail outside the paths modelled
  are taken to succeed.
* `db_end` under calls still running: the pool is freed without a lock; the model
  ends the pool only when no call is under way.

## 7. Not modelled

The project ends where the server's own concurrent and faulty behaviour does. By
lines the repository is mostly something else: generated protobuf code, two
copies of Mini-XML, json-c, hiredis, older copies of `ais.c` and `db.c`,
books' exercises. That, and the statistics, JSON and message texts that
make up most of `allais.c`, is why the definitions map to a small part of all
lines, and would if every component below were added.

* **Reply threads** (`thread.c`) and the asynchronous connections: they read and
  drop replies that nobody waits for. The connections with replies are in
  `AdRequest`, and so is what `redis_keepalive.cpp` does for them.
* **Object pools** (`cp_init`, `cp_pop`, `cp_push`): a cyclic queue used by one
  thread; what it may do is the mode `OneThread` of `CycleQueue`.
* **Hash tables**: sequential. `AdRequest` has the maps of `get_ad` as sets and
  counts their nodes; the uses of `htable.c` are compiled out or in comments.
* **Linked list** (`x_list.c`): nobody calls it.
* **Queue in shared memory** (`Shm_Queue.cpp`): not part of the server. Its
  contract would be `Fifo`; its blocking calls wait while they hold the semaphore
  that the other side needs, which `PROJECT.json` lists as a hazard that no
  property covers.
* **Message server** (`yalitest_workspace`): a second program, which shares no
  state with the first.
* **Buffers, file log, daemon, configuration, scripts, demos**: sequential input
  and output.

Of what is modelled, one thing is open: the composition of `AdRequest` and
`AdCallback` over one Redis, in which the session that `get_adbody` writes, or fails
to write, would be where a callback begins. It is too large for TLC at the present bounds.
