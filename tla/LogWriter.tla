------------------------------ MODULE LogWriter ------------------------------
(***************************************************************************)
(* The asynchronous log of AIS.  Every worker appends its records to a     *)
(* cyclic queue of its own (log_handler, allais.c); one log thread writes  *)
(* them to redis (log_work_thread, ais.c).  The log thread sleeps on       *)
(* g_log_sem; g_log_empty says how many times in a row it has found all    *)
(* the queues empty: 0 after a worker's signal, 1 after one drain (it then *)
(* sleeps for at most a second), 2 and more after a second one (it sleeps  *)
(* for good).  A worker posts only if g_log_empty is not 0, and sets it to *)
(* 0 without a lock; the log thread's ++g_log_empty is a load and a store. *)
(*                                                                         *)
(* The queues are counted: order and loss inside one are CycleQueue's.     *)
(*                                                                         *)
(* The operators named Slip... are not part of the specification.  Each is *)
(* a slip a programmer could make in the definition that follows it; with  *)
(* the slip in its place one of the properties below is violated.          *)
(***************************************************************************)
EXTENDS Integers

CONSTANTS
  NumWorkers,  \* thread_num of log_work_thread
  Batch,       \* records written from one queue before the next one (100)
  MaxPending,  \* bound: records in one queue
  MaxSem       \* bound: no record is logged while the semaphore is this high

ASSUME NumWorkersAssumption == NumWorkers \in Nat \ {0}
ASSUME BatchAssumption == Batch \in Nat \ {0}
ASSUME BoundsAssumption == MaxPending \in Nat \ {0} /\ MaxSem \in Nat \ {0}

Worker == 0 .. NumWorkers - 1

VARIABLES
  pending,   \* the number of records in each worker's queue
  wpc,       \* where each worker is in log_handler
  empty,     \* g_log_empty; what is above 2 is kept at 2, no test tells
  sem,       \* the value of g_log_sem
  running,   \* do_run_maintenance_thread
  lpc,       \* where the log thread is
  lq, num,   \* its log_queues, of which num are not yet drained
  i, j,      \* its loop counters
  reg,       \* the value ++g_log_empty has loaded
  mpc,       \* where the thread that stops the log is
  stopper,   \* who stops it: main, after joining the workers, or sig_handler,
             \* while the workers go on
  undone     \* history: ++g_log_empty has undone the stop's 0 too early

wvars == <<pending, wpc>>
lvars == <<lpc, lq, num, i, j, reg>>
mvars == <<running, mpc, stopper>>
vars  == <<wvars, empty, sem, lvars, mvars, undone>>

Init ==
  /\ pending = [w \in Worker |-> 0] /\ wpc = [w \in Worker |-> "idle"]
  /\ empty = 1 /\ sem = 0
  /\ running = TRUE /\ mpc = "running" /\ stopper = "nobody"
  /\ lpc = "loop" /\ lq = [k \in Worker |-> k] /\ num = NumWorkers
  /\ i = 0 /\ j = 0 /\ reg = 0
  /\ undone = FALSE

----------------------------------------------------------------------------
(* log_handler *)

Work(w, from, to) == wpc[w] = from /\ wpc' = [wpc EXCEPT ![w] = to]

\* The record is pushed, or refused (eg_cq_push returned 0, which is ignored).
Log(w) ==
  /\ stopper # "main"
  /\ sem < MaxSem
  /\ Work(w, "idle", "test")
  /\ \/ pending[w] < MaxPending /\ pending' = [pending EXCEPT ![w] = @ + 1]
     \/ UNCHANGED pending
  /\ UNCHANGED <<empty, sem, lvars, mvars, undone>>

\* if(g_log_empty).  The slip: if(g_log_empty > 1)
SlipTestAsleep(w) ==
  /\ Work(w, "test", IF empty > 1 THEN "clear" ELSE "idle")
  /\ UNCHANGED <<pending, empty, sem, lvars, mvars, undone>>

TestEmpty(w) ==
  /\ Work(w, "test", IF empty # 0 THEN "clear" ELSE "idle")
  /\ UNCHANGED <<pending, empty, sem, lvars, mvars, undone>>

\* g_log_empty = 0
ClearEmpty(w) ==
  /\ Work(w, "clear", "post")
  /\ empty' = 0
  /\ UNCHANGED <<pending, sem, lvars, mvars, undone>>

Post(w) ==
  /\ Work(w, "post", "idle")
  /\ sem' = sem + 1
  /\ UNCHANGED <<pending, empty, lvars, mvars, undone>>

----------------------------------------------------------------------------
(* log_work_thread *)

LogStep(from, to) == lpc = from /\ lpc' = to

\* while (do_run_maintenance_thread || g_log_empty <= 1).  The slip: the flag
\* only.
SlipStopAtOnce ==
  /\ LogStep("loop", IF running THEN "mode" ELSE "done")
  /\ UNCHANGED <<wvars, empty, sem, lq, num, i, j, reg, mvars, undone>>

LoopTest ==
  /\ LogStep("loop", IF running \/ empty <= 1 THEN "mode" ELSE "done")
  /\ UNCHANGED <<wvars, empty, sem, lq, num, i, j, reg, mvars, undone>>

\* if (1 == g_log_empty)
ChooseWait ==
  /\ LogStep("mode", IF empty = 1 THEN "timed" ELSE "wait")
  /\ UNCHANGED <<wvars, empty, sem, lq, num, i, j, reg, mvars, undone>>

\* Both waits lead to do { num = thread_num; i = 0; j = 0 ...
StartPass == num' = NumWorkers /\ i' = 0 /\ j' = 0

Woken ==
  /\ lpc \in {"timed", "wait"} /\ lpc' = "drain"
  /\ sem > 0 /\ sem' = sem - 1
  /\ StartPass
  /\ UNCHANGED <<wvars, empty, lq, reg, mvars, undone>>

\* sem_timedwait expires, at most a second after it began.
TimedOut ==
  /\ LogStep("timed", "drain")
  /\ sem = 0
  /\ StartPass
  /\ UNCHANGED <<wvars, empty, sem, lq, reg, mvars, undone>>

\* The slips of the next definition: an index that runs past the queues not
\* drained, and one pass in place of the do-while.
SlipPastTheLast(k, n) ==
  IF k <= n THEN i' = k /\ num' = n /\ j' = 0 /\ UNCHANGED lpc
  ELSE IF n > 0 THEN StartPass /\ UNCHANGED lpc
  ELSE num' = 0 /\ i' = k /\ j' = 0 /\ lpc' = "load"
SlipOnePass(k, n) ==
  IF k < n THEN i' = k /\ num' = n /\ j' = 0 /\ UNCHANGED lpc
  ELSE num' = 0 /\ i' = k /\ j' = 0 /\ lpc' = "load"

\* Where the pass goes after the visit of one queue leaves it at index k with
\* n queues not drained: to the next queue, to a new pass or out of the loop.
AfterVisit(k, n) ==
  IF k < n THEN i' = k /\ num' = n /\ j' = 0 /\ UNCHANGED lpc
  ELSE IF n > 0 THEN StartPass /\ UNCHANGED lpc
  ELSE num' = 0 /\ i' = k /\ j' = 0 /\ lpc' = "load"

\* eg_cq_head finds a record: redis_write_log, eg_cq_pop.  The slip: no limit
\* of 100.
SlipNoBatch ==
  /\ lpc = "drain" /\ pending[lq[i]] > 0
  /\ pending' = [pending EXCEPT ![lq[i]] = @ - 1]
  /\ UNCHANGED <<wpc, empty, sem, lvars, mvars, undone>>

WriteRecord ==
  /\ lpc = "drain" /\ pending[lq[i]] > 0
  /\ pending' = [pending EXCEPT ![lq[i]] = @ - 1]
  /\ IF j + 1 < Batch
     THEN j' = j + 1 /\ UNCHANGED <<lpc, num, i>>
     ELSE AfterVisit(i + 1, num)
  /\ UNCHANGED <<wpc, empty, sem, lq, reg, mvars, undone>>

\* eg_cq_head finds none: the queue changes places with the last one that is
\* not drained.
QueueDrained ==
  /\ lpc = "drain" /\ pending[lq[i]] = 0
  /\ lq' = [lq EXCEPT ![i] = lq[num - 1], ![num - 1] = lq[i]]
  /\ AfterVisit(i, num - 1)
  /\ UNCHANGED <<wvars, empty, sem, reg, mvars, undone>>

\* ++g_log_empty
LoadEmpty ==
  /\ LogStep("load", "store")
  /\ reg' = empty
  /\ UNCHANGED <<wvars, empty, sem, lq, num, i, j, mvars, undone>>

StoreEmpty ==
  /\ LogStep("store", "loop")
  /\ empty' = IF reg < 2 THEN reg + 1 ELSE 2
  /\ undone' = (undone \/ (mpc # "running" /\ reg > 0 /\ (running \/ empty = 0)))
  /\ UNCHANGED <<wvars, sem, lq, num, i, j, reg, mvars>>

----------------------------------------------------------------------------
(* main after exit_threads, or sig_handler *)

StopStep(from, to) == mpc = from /\ mpc' = to

StopClear ==
  /\ StopStep("running", "post")
  /\ \/ stopper' = "main" /\ \A w \in Worker : wpc[w] = "idle"
     \/ stopper' = "sig_handler"
  /\ empty' = 0
  /\ UNCHANGED <<wvars, sem, lvars, running, undone>>

\* sem_post(&g_log_sem).  The slip: none.
SlipNoPost ==
  /\ StopStep("post", "flag")
  /\ UNCHANGED <<wvars, empty, sem, lvars, running, stopper, undone>>

StopPost ==
  /\ StopStep("post", "flag")
  /\ sem' = sem + 1
  /\ UNCHANGED <<wvars, empty, lvars, running, stopper, undone>>

\* do_run_maintenance_thread = 0, then pthread_join
StopFlag ==
  /\ StopStep("flag", "join")
  /\ running' = FALSE
  /\ UNCHANGED <<wvars, empty, sem, lvars, stopper, undone>>

Joined ==
  /\ StopStep("join", "gone")
  /\ lpc = "done"
  /\ UNCHANGED <<wvars, empty, sem, lvars, running, stopper, undone>>

----------------------------------------------------------------------------
Signal(w) == TestEmpty(w) \/ ClearEmpty(w) \/ Post(w)

LogThread == \/ LoopTest \/ ChooseWait \/ Woken \/ TimedOut
             \/ WriteRecord \/ QueueDrained \/ LoadEmpty \/ StoreEmpty

Stop == StopPost \/ StopFlag \/ Joined

Next ==
  \/ \E w \in Worker : Log(w) \/ Signal(w)
  \/ LogThread
  \/ StopClear \/ Stop

Spec == Init /\ [][Next]_vars

\* Every thread is scheduled; nobody has to log or to stop the server.
Fairness ==
  /\ \A w \in Worker : WF_vars(Signal(w))
  /\ WF_vars(LogThread)
  /\ WF_vars(Stop)

FairSpec == Spec /\ Fairness

----------------------------------------------------------------------------
TypeOK ==
  /\ pending \in [Worker -> Nat]
  /\ wpc \in [Worker -> {"idle", "test", "clear", "post"}]
  /\ empty \in 0 .. 2 /\ sem \in Nat
  /\ lpc \in {"loop", "mode", "timed", "wait", "drain", "load", "store", "done"}
  /\ lq \in [Worker -> Worker] /\ num \in 0 .. NumWorkers
  /\ i \in Nat /\ (lpc = "drain" => i < num) /\ j \in 0 .. Batch - 1
  /\ reg \in 0 .. 2
  /\ running \in BOOLEAN
  /\ mpc \in {"running", "post", "flag", "join", "gone"}
  /\ stopper \in {"nobody", "main", "sig_handler"}
  /\ undone \in BOOLEAN

\* A post of the semaphore is on its way.
Posting == mpc = "post" \/ \E w \in Worker : wpc[w] = "post"

\* The log thread never sleeps for good on records nobody will wake it for:
\* log_handler posts only if g_log_empty is not 0, and neither the unlocked
\* test and assignment nor the two halves of ++g_log_empty lose a wake-up.
NoneStranded ==
  (lpc = "wait" /\ sem = 0 /\ ~Posting /\ \A w \in Worker : wpc[w] \notin {"test", "clear"})
     => \A w \in Worker : pending[w] = 0

\* The do-while of log_work_thread ends only after a pass that found every
\* queue empty; what is in a queue then came during that pass, and its
\* worker has seen, or will see, g_log_empty as it is now.
DrainedOrSignalled ==
  (lpc = "load" /\ empty # 0) =>
     \A w \in Worker : pending[w] > 0 => wpc[w] \in {"test", "clear"}

\* A worker that logs without pause does not keep the log thread from the
\* queues of the others: log_work_thread leaves a queue after 100 records.
Visited(w) == lpc = "drain" /\ lq[i] = w
EveryQueueServed ==
  \A w \in Worker : (pending[w] > 0 /\ mpc = "running") ~> (Visited(w) \/ mpc # "running")

\* When main has joined the workers and then the log thread, no record is
\* left in the queues it is about to destroy (log_cq_destroy), unless the
\* log thread ran past the stop's g_log_empty = 0 (see undone).
StopDrains ==
  (stopper = "main" /\ mpc = "gone" /\ ~undone) => \A w \in Worker : pending[w] = 0

\* pthread_join(maintenance_tid) returns, with the same exception: a log
\* thread that drains twice between the stop's sem_post and its
\* do_run_maintenance_thread = 0 goes to sleep for good.
StopEnds == (mpc = "join" /\ stopper = "main" /\ ~undone) ~> (mpc = "gone")
=============================================================================
