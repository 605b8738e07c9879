---------------------------- MODULE ConnDispatch ----------------------------
(***************************************************************************)
(* How AIS hands connections from the listening thread to the workers and  *)
(* how it stops and resumes listening when it runs out of descriptors      *)
(* (src/ngix_module/AIS/thread.c, ais.c).                                  *)
(*                                                                         *)
(* The main thread accepts a socket, appends it to the queue of the next   *)
(* worker and writes one byte to the worker's notify pipe.  A worker reads *)
(* one byte, makes a connection of the item at the head of its queue, and  *)
(* removes the item.  Workers close connections on their own.              *)
(*                                                                         *)
(* stats.curr_conns is read by the main thread without the lock the        *)
(* workers update it under, and allow_new_conns is shared without a lock.  *)
(* The item queues are sequences; CycleQueue says what they really are.    *)
(*                                                                         *)
(* The operators named Slip... are not part of the specification.  Each is *)
(* a slip a programmer could make in the definition that follows it; with  *)
(* the slip in its place one of the properties below is violated.          *)
(***************************************************************************)
EXTENDS Integers, Sequences, FiniteSets, Functions

CONSTANTS
  NumThreads,    \* settings.num_threads
  Sock,          \* the clients, each with at most one connection
  FdLimit,       \* descriptors the limit on open files leaves for clients
  ReservedFds,   \* stats.reserved_fds
  MaxConns,      \* settings.maxconns
  MaxConnsFast,  \* settings.maxconns_fast
  MaxWriteFails, \* bound: how many writes to the notify pipes may fail
  FlakyThreads,  \* bound: the workers whose read of the pipe may fail, and that
                 \* only while a single byte is in it
  NoSock

ASSUME ThreadsAssumption == NumThreads \in Nat \ {0}
ASSUME LimitAssumption ==
  FdLimit \in Nat \ {0} /\ ReservedFds \in Nat /\ MaxConns \in Nat
ASSUME FailsAssumption == MaxWriteFails \in Nat /\ FlakyThreads \subseteq Nat
ASSUME FastAssumption == MaxConnsFast \in BOOLEAN
ASSUME SockAssumption == IsFiniteSet(Sock) /\ NoSock \notin Sock

Thread == 0 .. NumThreads - 1

VARIABLES
  sock,       \* what became of each client's connection
  owner,      \* the worker a connection was dispatched to, 0 before and after
  mpc,        \* where the main thread is
  msock,      \* the socket it has accepted
  last,       \* last_thread
  listening,  \* the listening event is set for EV_READ
  timer,      \* maxconnsevent is pending
  allow,      \* allow_new_conns
  curr,       \* stats.curr_conns, the listening connection included
  queue,      \* g_conn_item_queues
  bytes,      \* bytes in each notify pipe
  unsent,     \* history: how many bytes for each worker write did not take
  tpc, tsock  \* where each worker is, and with which socket

mvars == <<mpc, msock, last>>
lvars == <<listening, timer>>
qvars == <<queue, bytes, unsent>>
tvars == <<tpc, tsock>>
vars  == <<sock, owner, mvars, lvars, allow, curr, qvars, tvars>>

Init ==
  /\ sock = [s \in Sock |-> "away"] /\ owner = [s \in Sock |-> 0]
  /\ mpc = "idle" /\ msock = NoSock /\ last = NumThreads - 1
  /\ listening = TRUE /\ timer = FALSE
  /\ allow = TRUE
  /\ curr = 1
  /\ queue = [t \in Thread |-> <<>>]
  /\ bytes = [t \in Thread |-> 0] /\ unsent = [t \in Thread |-> 0]
  /\ tpc = [t \in Thread |-> "idle"] /\ tsock = [t \in Thread |-> NoSock]

\* The sockets that hold a descriptor of the process.
HoldsFd(s) == sock[s] \in {"accepted", "queued", "open", "closing", "leaked"}
Fds == Cardinality({s \in Sock : HoldsFd(s)})

----------------------------------------------------------------------------
(* The kernel completes a client's connection into the backlog. *)
Connect(s) ==
  /\ sock[s] = "away"
  /\ sock' = [sock EXCEPT ![s] = "backlog"]
  /\ UNCHANGED <<owner, mvars, lvars, allow, curr, qvars, tvars>>

----------------------------------------------------------------------------
(* The main thread: drive_machine in conn_listening, dispatch_conn_new *)

Main(from, to) == mpc = from /\ mpc' = to

\* The listening event is reported and accept finds a client.
Acceptable(s) == mpc = "idle" /\ listening /\ sock[s] = "backlog"

TooMany == MaxConnsFast /\ curr + ReservedFds >= MaxConns - 1

Accept(s) ==
  /\ Acceptable(s) /\ Fds < FdLimit /\ ~TooMany
  /\ mpc' = "dispatch" /\ msock' = s
  /\ sock' = [sock EXCEPT ![s] = "accepted"]
  /\ UNCHANGED <<owner, last, lvars, allow, curr, qvars, tvars>>

\* "ERROR Too many open connections", close.
Reject(s) ==
  /\ Acceptable(s) /\ Fds < FdLimit /\ TooMany
  /\ sock' = [sock EXCEPT ![s] = "away"]
  /\ UNCHANGED <<owner, mvars, lvars, allow, curr, qvars, tvars>>

\* The socket cannot be made non-blocking: close; accept is called again.
NoNonblock(s) ==
  /\ Acceptable(s) /\ Fds < FdLimit
  /\ sock' = [sock EXCEPT ![s] = "away"]
  /\ UNCHANGED <<owner, mvars, lvars, allow, curr, qvars, tvars>>

\* accept returns EMFILE: accept_new_conns(false), up to the assignment to
\* allow_new_conns.
RunOutOfFds(s) ==
  /\ Acceptable(s) /\ Fds = FdLimit
  /\ mpc' = "disallow"
  /\ listening' = FALSE
  /\ UNCHANGED <<sock, owner, msock, last, timer, allow, curr, qvars, tvars>>

\* ... allow_new_conns = false; maxconns_handler(-42, 0, 0).  The slip: no
\* call of maxconns_handler.
SlipNoTimer ==
  /\ Main("disallow", "idle")
  /\ allow' = FALSE
  /\ UNCHANGED <<sock, owner, msock, last, lvars, curr, qvars, tvars>>

Disallow ==
  /\ Main("disallow", "idle")
  /\ allow' = FALSE /\ timer' = TRUE
  /\ UNCHANGED <<sock, owner, msock, last, listening, curr, qvars, tvars>>

\* maxconns_handler, every 10 ms: reschedule ...
TimerPolls ==
  /\ mpc = "idle" /\ timer /\ ~allow
  /\ UNCHANGED vars

\* ... or accept_new_conns(true).  The slip: the listening event stays as it is.
SlipNoUpdate ==
  /\ mpc = "idle" /\ timer /\ allow
  /\ timer' = FALSE
  /\ UNCHANGED <<sock, owner, mvars, listening, allow, curr, qvars, tvars>>

TimerFires ==
  /\ mpc = "idle" /\ timer /\ allow
  /\ timer' = FALSE /\ listening' = TRUE
  /\ UNCHANGED <<sock, owner, mvars, allow, curr, qvars, tvars>>

NextThread == (last + 1) % NumThreads

Push ==
  /\ Main("dispatch", "notify")
  /\ last' = NextThread
  /\ queue' = [queue EXCEPT ![NextThread] = Append(@, msock)]
  /\ sock' = [sock EXCEPT ![msock] = "queued"]
  /\ owner' = [owner EXCEPT ![msock] = NextThread]
  /\ UNCHANGED <<msock, lvars, allow, curr, bytes, unsent, tvars>>

\* eg_cq_push returns 0, which dispatch_conn_new ignores.
PushRefused ==
  /\ Main("dispatch", "notify")
  /\ last' = NextThread
  /\ sock' = [sock EXCEPT ![msock] = "leaked"]
  /\ UNCHANGED <<owner, msock, lvars, allow, curr, qvars, tvars>>

Notify ==
  /\ Main("notify", "idle")
  /\ bytes' = [bytes EXCEPT ![last] = @ + 1]
  /\ msock' = NoSock
  /\ UNCHANGED <<sock, owner, last, lvars, allow, curr, queue, unsent, tvars>>

\* write does not return 1: a message, and nothing tells the worker.
NotifyFails ==
  /\ SumFunction(unsent) < MaxWriteFails
  /\ Main("notify", "idle")
  /\ unsent' = [unsent EXCEPT ![last] = @ + 1]
  /\ msock' = NoSock
  /\ UNCHANGED <<sock, owner, last, lvars, allow, curr, queue, bytes, tvars>>

----------------------------------------------------------------------------
(* A worker: thread_libevent_process, conn_new, conn_close *)

Thr(t, from, to) == tpc[t] = from /\ tpc' = [tpc EXCEPT ![t] = to]

\* One byte read; eg_cq_head.  The slip: every byte in the pipe is read.
SlipReadAll(t) ==
  /\ bytes[t] > 0
  /\ bytes' = [bytes EXCEPT ![t] = 0]
  /\ Thr(t, "idle", IF queue[t] = <<>> THEN "idle" ELSE "item")
  /\ UNCHANGED <<sock, owner, mvars, lvars, allow, curr, queue, unsent, tsock>>

Wake(t) ==
  /\ bytes[t] > 0
  /\ bytes' = [bytes EXCEPT ![t] = @ - 1]
  /\ Thr(t, "idle", IF queue[t] = <<>> THEN "idle" ELSE "item")
  /\ UNCHANGED <<sock, owner, mvars, lvars, allow, curr, queue, unsent, tsock>>

\* read does not return 1: a message, and on to the item all the same.
WakeUnread(t) ==
  /\ t \in FlakyThreads /\ bytes[t] = 1
  /\ Thr(t, "idle", IF queue[t] = <<>> THEN "idle" ELSE "item")
  /\ UNCHANGED <<sock, owner, mvars, lvars, allow, curr, qvars, tsock>>

\* conn_new up to event_add: from here on the connection is served.
ConnNew(t) ==
  /\ Thr(t, "item", "count")
  /\ sock' = [sock EXCEPT ![Head(queue[t])] = "open"]
  /\ UNCHANGED <<owner, mvars, lvars, allow, curr, qvars, tsock>>

\* conn_new returns NULL (the pool has none, event_add failed): close.  The
\* slips: the connection has been counted before event_add; the item is not
\* popped.
SlipCountedFirst(t) ==
  /\ Thr(t, "item", "pop")
  /\ sock' = [sock EXCEPT ![Head(queue[t])] = "away"]
  /\ curr' = curr + 1
  /\ UNCHANGED <<owner, mvars, lvars, allow, qvars, tsock>>
SlipItemKept(t) ==
  /\ Thr(t, "item", "idle")
  /\ sock' = [sock EXCEPT ![Head(queue[t])] = "away"]
  /\ UNCHANGED <<owner, mvars, lvars, allow, curr, qvars, tsock>>

ConnNewFails(t) ==
  /\ Thr(t, "item", "pop")
  /\ sock' = [sock EXCEPT ![Head(queue[t])] = "away"]
  /\ owner' = [owner EXCEPT ![Head(queue[t])] = 0]
  /\ UNCHANGED <<mvars, lvars, allow, curr, qvars, tsock>>

\* stats.curr_conns++ at the end of conn_new
Count(t) ==
  /\ Thr(t, "count", "pop")
  /\ curr' = curr + 1
  /\ UNCHANGED <<sock, owner, mvars, lvars, allow, qvars, tsock>>

\* eg_cq_pop
PopItem(t) ==
  /\ Thr(t, "pop", "idle")
  /\ queue' = [queue EXCEPT ![t] = Tail(@)]
  /\ UNCHANGED <<sock, owner, mvars, lvars, allow, curr, bytes, unsent, tsock>>

\* conn_close: event_del, stats.curr_conns--
Uncount(t, s) ==
  /\ Thr(t, "idle", "close")
  /\ sock[s] = "open" /\ owner[s] = t
  /\ sock' = [sock EXCEPT ![s] = "closing"]
  /\ tsock' = [tsock EXCEPT ![t] = s]
  /\ curr' = curr - 1
  /\ UNCHANGED <<owner, mvars, lvars, allow, qvars>>

\* close(c->sfd)
CloseFd(t) ==
  /\ Thr(t, "close", "allow")
  /\ sock' = [sock EXCEPT ![tsock[t]] = "away"]
  /\ tsock' = [tsock EXCEPT ![t] = NoSock]
  /\ owner' = [owner EXCEPT ![tsock[t]] = 0]
  /\ UNCHANGED <<mvars, lvars, allow, curr, qvars>>

\* allow_new_conns = true; the connection goes back to its pool
AllowNew(t) ==
  /\ Thr(t, "allow", "idle")
  /\ allow' = TRUE
  /\ UNCHANGED <<sock, owner, mvars, lvars, curr, qvars, tsock>>

----------------------------------------------------------------------------
MainStep == \/ \E s \in Sock : Accept(s) \/ Reject(s) \/ NoNonblock(s) \/ RunOutOfFds(s)
            \/ Disallow \/ TimerPolls \/ TimerFires
            \/ Push \/ PushRefused \/ Notify \/ NotifyFails

WorkerStep(t) == \/ Wake(t) \/ WakeUnread(t) \/ ConnNew(t) \/ ConnNewFails(t)
                 \/ Count(t) \/ PopItem(t) \/ CloseFd(t) \/ AllowNew(t)

Next ==
  \/ \E s \in Sock : Connect(s)
  \/ MainStep
  \/ \E t \in Thread : WorkerStep(t) \/ \E s \in Sock : Uncount(t, s)

Spec == Init /\ [][Next]_vars

\* Threads are scheduled and the timer fires; clients need neither connect
\* nor leave, and the kernel need not prefer a client to the timer.
Fairness ==
  /\ WF_vars(MainStep) /\ WF_vars(TimerFires)
  /\ \A t \in Thread : WF_vars(WorkerStep(t))

FairSpec == Spec /\ Fairness

----------------------------------------------------------------------------
TypeOK ==
  /\ sock \in [Sock -> {"away", "backlog", "accepted", "queued", "open", "closing", "leaked"}]
  /\ owner \in [Sock -> Thread]
  /\ mpc \in {"idle", "dispatch", "notify", "disallow"}
  /\ msock \in Sock \cup {NoSock} /\ (mpc = "dispatch" => msock \in Sock)
  /\ last \in Thread
  /\ listening \in BOOLEAN /\ timer \in BOOLEAN
  /\ allow \in BOOLEAN
  /\ curr \in Int
  /\ queue \in [Thread -> Seq(Sock)] /\ bytes \in [Thread -> Nat]
  /\ unsent \in [Thread -> Nat]
  /\ tpc \in [Thread -> {"idle", "item", "count", "pop", "close", "allow"}]
  /\ tsock \in [Thread -> Sock \cup {NoSock}]
  /\ \A t \in Thread : tpc[t] = "close" => tsock[t] \in Sock

B(p) == IF p THEN 1 ELSE 0

\* dispatch_conn_new has pushed an item for the worker and not written yet.
Notifying(t) == mpc = "notify" /\ last = t

\* The items a worker has still to be woken for are never more than the bytes
\* on their way to it, but for those that write refused: dispatch_conn_new
\* pushes before it writes, and thread_libevent_process takes at most one byte
\* for an item.
EveryItemAnnounced ==
  \A t \in Thread :
    Len(queue[t]) <= bytes[t] + unsent[t] + B(Notifying(t))
                              + B(tpc[t] \in {"item", "count", "pop"})

\* stats.curr_conns counts the connections being served, except for those
\* that conn_new and conn_close are just counting, and the listening one.
CurrConnsExact ==
  curr = 1 + Cardinality({s \in Sock : sock[s] = "open"})
           - Cardinality({t \in Thread : tpc[t] = "count"})

\* The k-th item of a queue, unless it is the one that has become a connection
\* already and is about to be removed.
Waits(t, k) == k = 1 => tpc[t] \notin {"count", "pop"}

\* An accepted socket waits in exactly one place of one queue, that of its
\* worker, until its item has been turned into a connection; no connection
\* is made of it twice.
QueuedOnce ==
  /\ \A s \in Sock : sock[s] = "queued" =>
       \E k \in DOMAIN queue[owner[s]] : Waits(owner[s], k) /\ queue[owner[s]][k] = s
  /\ \A t \in Thread : \A k \in DOMAIN queue[t] : Waits(t, k) =>
       sock[queue[t][k]] = "queued" /\ owner[queue[t][k]] = t
  /\ \A t \in Thread : \A j, k \in DOMAIN queue[t] :
       Waits(t, j) /\ Waits(t, k) /\ queue[t][j] = queue[t][k] => j = k

\* A server that does not listen polls allow_new_conns (maxconns_handler), or
\* is about to start to.
PollsUntilListening == listening \/ timer \/ mpc = "disallow"

\* How many items are behind that of a queued socket.
Behind(s) ==
  LET q == queue[owner[s]]
  IN  Len(q) - CHOOSE k \in DOMAIN q : Waits(owner[s], k) /\ q[k] = s

\* A socket in a queue is turned into a connection or closed.  A byte that
\* write refused is missing for good, and nothing wakes the worker for the last
\* item of its queue until dispatch_conn_new gives it another connection: a
\* socket waits for as many connections after it as writes have failed.
EverySocketServed ==
  \A s \in Sock :
    (sock[s] = "queued" /\ Behind(s) >= unsent[owner[s]] + B(Notifying(owner[s])))
      ~> (sock[s] # "queued")

\* Listening is resumed after a connection was closed, provided that the
\* worker's allow_new_conns = true came after the main thread's = false.
ResumesWhenAllowed == (~listening /\ allow /\ mpc # "disallow") ~> listening

\* "This reduces the latency without adding lots of extra wiring to be able to
\* notify the listener thread of when to listen again" (ais.c:182-183): the
\* server listens again once a descriptor is free, whoever freed it.
ListensAgain == (~listening /\ Fds < FdLimit) ~> (listening \/ Fds = FdLimit)

\* The same comment, of a conn_close that finds the server not listening: its
\* allow_new_conns = true makes the main thread listen again.
CloseReopens ==
  \A t \in Thread : (~listening /\ tpc[t] = "close") ~> listening
=============================================================================
