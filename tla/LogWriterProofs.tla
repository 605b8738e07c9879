--------------------------- MODULE LogWriterProofs ---------------------------
(***************************************************************************)
(* That the log thread never sleeps on stranded records, for any number of *)
(* workers, any batch and any way of stopping the server.                  *)
(*                                                                         *)
(* The argument follows g_log_empty through a round of log_work_thread.    *)
(* Only the log thread raises it, and a worker or the stop that lowers it  *)
(* to 0 posts the semaphore next.  So whenever the log thread is about to  *)
(* sleep and finds 0, a post is there or under way; and when it finds 2,   *)
(* g_log_empty was not 0 during the pass before, so whoever pushed behind  *)
(* that pass has posted or is about to.                                    *)
(***************************************************************************)
EXTENDS LogWriter, TLAPS

\* The worker has pushed and will still look at g_log_empty, or has found it
\* raised and is about to lower it.
Late(w) == wpc[w] \in {"test", "clear"}

AllLate == \A w \in Worker : pending[w] > 0 => Late(w)

Rescued == sem > 0 \/ Posting

BeforeSleep == lpc \in {"loop", "mode", "wait"}

\* log_queues is a permutation of the queues.
EveryQueueListed == \A w \in Worker : \E k \in Worker : lq[k] = w

LoweredMeansPosted == (BeforeSleep \/ (lpc = "store" /\ reg > 0)) /\ empty = 0 => Rescued

SleepsTwiceDrained ==
  /\ lpc = "wait" => empty # 1
  /\ BeforeSleep /\ empty = 2 => Rescued \/ AllLate

DrainedInPass ==
  lpc = "drain" /\ empty # 0 =>
    \A k \in Worker : k >= num /\ pending[lq[k]] > 0 => Late(lq[k])

DrainedInRound ==
  lpc = "load" \/ (lpc = "store" /\ reg > 0) => empty = 0 \/ AllLate

Inv == /\ TypeOK /\ EveryQueueListed /\ LoweredMeansPosted /\ SleepsTwiceDrained
       /\ DrainedInPass /\ DrainedInRound

----------------------------------------------------------------------------
\* Every variable keeps its type: in particular the index of log_work_thread
\* stays below the number of queues still to drain.
LEMMA TypeStep == TypeOK /\ [Next]_vars => TypeOK'
<1> SUFFICES ASSUME TypeOK, [Next]_vars PROVE TypeOK'
  OBVIOUS
<1> USE NumWorkersAssumption, BatchAssumption DEF TypeOK
<1>1. ASSUME NEW w \in Worker, Log(w) PROVE TypeOK'
  BY <1>1 DEF Log, Work, lvars, mvars
<1>2. ASSUME NEW w \in Worker, Signal(w) PROVE TypeOK'
  BY <1>2 DEF Signal, TestEmpty, ClearEmpty, Post, Work, lvars, mvars
<1>3. CASE LoopTest \/ ChooseWait \/ LoadEmpty
  BY <1>3 DEF LoopTest, ChooseWait, LoadEmpty, LogStep, wvars, mvars
<1>4. CASE Woken \/ TimedOut
  BY <1>4 DEF Woken, TimedOut, LogStep, StartPass, wvars, mvars
<1>5. CASE WriteRecord
  <2>1. lq[i] \in Worker /\ i < num
    BY <1>5 DEF WriteRecord, Worker
  <2>2. pending' \in [Worker -> Nat]
    BY <1>5, <2>1 DEF WriteRecord
  <2>3. CASE j + 1 < Batch
    BY <1>5, <2>2, <2>3 DEF WriteRecord, mvars
  <2>4. CASE ~(j + 1 < Batch)
    BY <1>5, <2>1, <2>2, <2>4 DEF WriteRecord, AfterVisit, StartPass, mvars
  <2> QED BY <2>3, <2>4
<1>6. CASE QueueDrained
  <2>1. i \in Worker /\ num - 1 \in Worker
    BY <1>6 DEF QueueDrained, Worker
  <2>2. lq' \in [Worker -> Worker]
    BY <1>6, <2>1 DEF QueueDrained
  <2> QED
    BY <1>6, <2>1, <2>2 DEF QueueDrained, AfterVisit, StartPass, wvars, mvars
<1>7. CASE StoreEmpty
  BY <1>7 DEF StoreEmpty, LogStep, wvars, mvars
<1>8. CASE StopClear \/ StopPost \/ Joined
  BY <1>8 DEF StopClear, StopPost, Joined, StopStep, wvars, lvars
<1>10. CASE StopFlag
  <2>1. running' \in BOOLEAN
    BY <1>10 DEF StopFlag
  <2> QED BY <1>10, <2>1 DEF StopFlag, StopStep, wvars, lvars
<1>9. CASE UNCHANGED vars
  BY <1>9 DEF vars, wvars, lvars, mvars
<1> QED
  BY <1>1, <1>2, <1>3, <1>4, <1>5, <1>6, <1>7, <1>8, <1>9, <1>10 DEF Next, LogThread, Stop

LEMMA TypeInit == Init => TypeOK
<1> SUFFICES ASSUME Init PROVE TypeOK
  OBVIOUS
<1>1. lq \in [Worker -> Worker]
  BY DEF Init
<1>2. num \in 0 .. NumWorkers /\ j \in 0 .. Batch - 1
  BY NumWorkersAssumption, BatchAssumption DEF Init
<1>3. running \in BOOLEAN /\ undone \in BOOLEAN
  BY DEF Init
<1>4. pending \in [Worker -> Nat] /\ wpc \in [Worker -> {"idle", "test", "clear", "post"}]
  BY DEF Init
<1> QED BY <1>1, <1>2, <1>3, <1>4 DEF Init, TypeOK

\* The state of AIS's log always has its type.
THEOREM TypeCorrect == Spec => []TypeOK
  BY TypeInit, TypeStep, PTL DEF Spec

----------------------------------------------------------------------------
\* What log_handler does in one worker keeps the invariant.
LEMMA WorkerStep ==
  ASSUME Inv, TypeOK', NEW w \in Worker, Log(w) \/ Signal(w)
  PROVE  Inv'
<1> USE DEF Inv, TypeOK
<1> DEFINE Others == \A v \in Worker : v # w => pending'[v] = pending[v] /\ wpc'[v] = wpc[v]
<1>1. CASE Log(w)
  <2>1. /\ wpc[w] = "idle" /\ wpc'[w] = "test" /\ Others
        /\ UNCHANGED <<empty, sem, lpc, lq, num, i, j, reg, mpc>>
    BY <1>1 DEF Log, Work, lvars, mvars
  <2>2. Rescued' = Rescued
    BY <2>1 DEF Rescued, Posting
  <2>3. \A v \in Worker : (pending[v] > 0 => wpc[v] \in {"test", "clear"})
                          => (pending'[v] > 0 => wpc'[v] \in {"test", "clear"})
    BY <2>1
  <2>4. AllLate => AllLate'
    BY <2>3 DEF AllLate, Late
  <2>5. EveryQueueListed' /\ LoweredMeansPosted'
    BY <2>1, <2>2 DEF EveryQueueListed, LoweredMeansPosted, BeforeSleep
  <2>6. SleepsTwiceDrained' /\ DrainedInRound'
    BY <2>1, <2>2, <2>4 DEF SleepsTwiceDrained, DrainedInRound, BeforeSleep
  <2>7. DrainedInPass'
    <3> SUFFICES ASSUME lpc = "drain", empty # 0, NEW k \in Worker, k >= num,
                        pending'[lq[k]] > 0
                 PROVE  wpc'[lq[k]] \in {"test", "clear"}
      BY <2>1 DEF DrainedInPass, Late
    <3>1. lq[k] \in Worker
      OBVIOUS
    <3>2. pending[lq[k]] > 0 => wpc[lq[k]] \in {"test", "clear"}
      BY DEF DrainedInPass, Late
    <3> QED BY <3>1, <3>2, <2>3
  <2> QED BY <2>5, <2>6, <2>7
<1>2. CASE TestEmpty(w)
  <2>1. /\ wpc[w] = "test" /\ wpc'[w] = (IF empty # 0 THEN "clear" ELSE "idle") /\ Others
        /\ UNCHANGED <<pending, empty, sem, lpc, lq, num, i, j, reg, mpc>>
    BY <1>2 DEF TestEmpty, Work, lvars, mvars
  <2>2. Rescued' = Rescued
    BY <2>1 DEF Rescued, Posting
  <2>3. empty # 0 => \A v \in Worker :
          wpc[v] \in {"test", "clear"} => wpc'[v] \in {"test", "clear"}
    BY <2>1
  <2>4. empty # 0 /\ AllLate => AllLate'
    BY <2>1, <2>3 DEF AllLate, Late
  <2>5. EveryQueueListed' /\ LoweredMeansPosted'
    BY <2>1, <2>2 DEF EveryQueueListed, LoweredMeansPosted, BeforeSleep
  <2>6. SleepsTwiceDrained' /\ DrainedInRound'
    BY <2>1, <2>2, <2>4 DEF SleepsTwiceDrained, DrainedInRound, BeforeSleep
  <2>7. DrainedInPass'
    <3> SUFFICES ASSUME lpc = "drain", empty # 0, NEW k \in Worker, k >= num,
                        pending[lq[k]] > 0
                 PROVE  wpc'[lq[k]] \in {"test", "clear"}
      BY <2>1 DEF DrainedInPass, Late
    <3>1. lq[k] \in Worker /\ wpc[lq[k]] \in {"test", "clear"}
      BY DEF DrainedInPass, Late
    <3> QED BY <3>1, <2>3
  <2> QED BY <2>5, <2>6, <2>7
<1>3. CASE ClearEmpty(w)
  <2>1. /\ wpc'[w] = "post" /\ empty' = 0
        /\ UNCHANGED <<lpc, lq, num, reg>>
    BY <1>3 DEF ClearEmpty, Work, lvars
  <2>2. Rescued'
    BY <2>1 DEF Rescued, Posting
  <2> QED
    BY <2>1, <2>2 DEF EveryQueueListed, LoweredMeansPosted, SleepsTwiceDrained,
                      DrainedInPass, DrainedInRound
<1>4. CASE Post(w)
  <2>1. /\ wpc[w] = "post" /\ wpc'[w] = "idle" /\ sem' = sem + 1 /\ Others
        /\ UNCHANGED <<pending, empty, lpc, lq, num, i, j, reg, mpc>>
    BY <1>4 DEF Post, Work, lvars, mvars
  <2>2. Rescued'
    BY <2>1 DEF Rescued
  <2>3. \A v \in Worker : wpc[v] \in {"test", "clear"} => wpc'[v] \in {"test", "clear"}
    BY <2>1
  <2>4. AllLate => AllLate'
    BY <2>1, <2>3 DEF AllLate, Late
  <2>5. EveryQueueListed' /\ LoweredMeansPosted' /\ SleepsTwiceDrained' /\ DrainedInRound'
    BY <2>1, <2>2, <2>4 DEF EveryQueueListed, LoweredMeansPosted, SleepsTwiceDrained,
                            DrainedInRound, BeforeSleep
  <2>6. DrainedInPass'
    <3> SUFFICES ASSUME lpc = "drain", empty # 0, NEW k \in Worker, k >= num,
                        pending[lq[k]] > 0
                 PROVE  wpc'[lq[k]] \in {"test", "clear"}
      BY <2>1 DEF DrainedInPass, Late
    <3>1. lq[k] \in Worker /\ wpc[lq[k]] \in {"test", "clear"}
      BY DEF DrainedInPass, Late
    <3> QED BY <3>1, <2>3
  <2> QED BY <2>5, <2>6
<1> QED BY <1>1, <1>2, <1>3, <1>4 DEF Signal

\* Sleeping, waking and counting keep the invariant.
LEMMA RoundStep ==
  ASSUME Inv, TypeOK',
         LoopTest \/ ChooseWait \/ Woken \/ TimedOut \/ LoadEmpty \/ StoreEmpty
  PROVE  Inv'
<1> USE DEF Inv, TypeOK
<1>1. UNCHANGED <<pending, wpc, lq, mpc>>
  BY DEF LoopTest, ChooseWait, Woken, TimedOut, LoadEmpty, StoreEmpty, wvars, mvars
<1>2. EveryQueueListed' /\ AllLate' = AllLate /\ Posting' = Posting
  BY <1>1 DEF EveryQueueListed, AllLate, Late, Posting
<1>3. CASE LoopTest \/ ChooseWait
  <2>1. UNCHANGED <<empty, sem>> /\ BeforeSleep
        /\ lpc' \in {"mode", "timed", "wait", "done"} /\ (lpc' = "wait" => empty # 1)
    BY <1>3 DEF LoopTest, ChooseWait, LogStep, BeforeSleep
  <2>2. Rescued' = Rescued
    BY <2>1, <1>2 DEF Rescued
  <2> QED
    BY <1>2, <2>1, <2>2 DEF LoweredMeansPosted, SleepsTwiceDrained, BeforeSleep,
                            DrainedInPass, DrainedInRound
<1>4. CASE Woken \/ TimedOut
  <2>1. lpc' = "drain" /\ num' = NumWorkers
    BY <1>4 DEF Woken, TimedOut, LogStep, StartPass
  <2>2. \A k \in Worker : ~(k >= NumWorkers)
    BY NumWorkersAssumption DEF Worker
  <2> QED
    BY <1>2, <2>1, <2>2 DEF LoweredMeansPosted, SleepsTwiceDrained, BeforeSleep,
                            DrainedInPass, DrainedInRound
<1>5. CASE LoadEmpty
  <2>1. lpc = "load" /\ lpc' = "store" /\ reg' = empty /\ UNCHANGED <<empty, sem>>
    BY <1>5 DEF LoadEmpty, LogStep
  <2> QED
    BY <1>2, <2>1 DEF LoweredMeansPosted, SleepsTwiceDrained, BeforeSleep,
                      DrainedInPass, DrainedInRound
<1>6. CASE StoreEmpty
  <2>1. /\ lpc = "store" /\ lpc' = "loop" /\ UNCHANGED sem
        /\ empty' = IF reg < 2 THEN reg + 1 ELSE 2
    BY <1>6 DEF StoreEmpty, LogStep
  <2>2. Rescued' = Rescued
    BY <2>1, <1>2 DEF Rescued
  <2>3. reg > 0 => Rescued \/ AllLate
    BY <2>1 DEF LoweredMeansPosted, DrainedInRound
  <2> QED
    BY <1>2, <2>1, <2>2, <2>3 DEF LoweredMeansPosted, SleepsTwiceDrained,
       BeforeSleep, DrainedInPass, DrainedInRound
<1> QED BY <1>3, <1>4, <1>5, <1>6

\* A step of a pass over the queues keeps the invariant.
LEMMA PassStep ==
  ASSUME Inv, TypeOK', WriteRecord \/ QueueDrained
  PROVE  Inv'
<1> USE NumWorkersAssumption DEF Inv, TypeOK
<1>1. lpc = "drain" /\ i < num /\ UNCHANGED <<wpc, empty, sem, reg, mpc>>
  BY DEF WriteRecord, QueueDrained, wvars, mvars
<1>2. CASE WriteRecord
  <2>1. /\ UNCHANGED lq /\ lpc' = "drain"
        /\ num' = num \/ num' = NumWorkers
        /\ \A v \in Worker : pending'[v] <= pending[v]
    BY <1>1, <1>2 DEF WriteRecord, AfterVisit, StartPass
  <2>2. DrainedInPass'
    <3> SUFFICES ASSUME empty # 0, NEW k \in Worker, k >= num', pending'[lq[k]] > 0
                 PROVE  wpc'[lq[k]] \in {"test", "clear"}
      BY <1>1, <2>1 DEF DrainedInPass, Late
    <3>1. ~(k >= NumWorkers)
      BY DEF Worker
    <3>4. num' = num /\ lq[k] \in Worker
      BY <2>1, <3>1
    <3>2. pending[lq[k]] > 0
      BY <2>1, <3>4
    <3> QED BY <1>1, <3>4, <3>2 DEF DrainedInPass, Late
  <2> QED
    BY <2>1, <2>2 DEF EveryQueueListed, LoweredMeansPosted, SleepsTwiceDrained,
                      BeforeSleep, DrainedInRound
<1>3. CASE QueueDrained
  <2>1. /\ i \in Worker /\ num - 1 \in Worker
        /\ lq' = [lq EXCEPT ![i] = lq[num - 1], ![num - 1] = lq[i]]
        /\ pending[lq[i]] = 0 /\ UNCHANGED pending
    BY <1>1, <1>3 DEF QueueDrained, wvars, Worker
  <2>2. EveryQueueListed'
    <3> SUFFICES ASSUME NEW w \in Worker PROVE \E k \in Worker : lq'[k] = w
      BY DEF EveryQueueListed
    <3>1. PICK k \in Worker : lq[k] = w
      BY DEF EveryQueueListed
    <3>2. CASE k = i
      BY <2>1, <3>1, <3>2
    <3>3. CASE k = num - 1
      BY <2>1, <3>1, <3>3
    <3>4. CASE k # i /\ k # num - 1
      BY <2>1, <3>1, <3>4
    <3> QED BY <3>2, <3>3, <3>4
  <2>3. empty # 0 => \A k \in Worker : k >= num - 1 /\ pending[lq'[k]] > 0 => Late(lq'[k])
    <3> SUFFICES ASSUME empty # 0, NEW k \in Worker, k >= num - 1, pending[lq'[k]] > 0
                 PROVE  Late(lq'[k])
      OBVIOUS
    <3>1. k # num - 1
      BY <2>1
    <3>2. k >= num /\ lq'[k] = lq[k]
      BY <1>1, <2>1, <3>1 DEF Worker
    <3> QED BY <1>1, <3>2 DEF DrainedInPass
  <2>4. lpc' \in {"drain", "load"} /\ (lpc' = "load" => num' = 0 /\ num - 1 = 0)
        /\ (lpc' = "drain" => num' = num - 1 \/ num' = NumWorkers)
    BY <1>1, <1>3 DEF QueueDrained, AfterVisit, StartPass
  <2>5. DrainedInPass'
    <3> SUFFICES ASSUME lpc' = "drain", empty # 0, NEW k \in Worker, k >= num',
                        pending[lq'[k]] > 0
                 PROVE  Late(lq'[k])
      BY <1>1, <2>1 DEF DrainedInPass, Late
    <3>1. num' = num - 1
      BY <2>4 DEF Worker
    <3> QED BY <2>3, <3>1
  <2>6. DrainedInRound'
    <3> SUFFICES ASSUME lpc' = "load", empty # 0, NEW w \in Worker, pending[w] > 0
                 PROVE  Late(w)
      BY <1>1, <2>1, <2>4 DEF DrainedInRound, AllLate, Late
    <3>1. PICK k \in Worker : lq'[k] = w
      BY <2>2 DEF EveryQueueListed
    <3>2. k >= num - 1
      BY <2>4 DEF Worker
    <3> QED BY <2>3, <3>1, <3>2
  <2> QED
    BY <2>2, <2>4, <2>5, <2>6 DEF LoweredMeansPosted, SleepsTwiceDrained, BeforeSleep
<1> QED BY <1>2, <1>3

\* Stopping the log keeps the invariant.
LEMMA StopStepOK ==
  ASSUME Inv, TypeOK', StopClear \/ Stop
  PROVE  Inv'
<1> USE DEF Inv, TypeOK
<1>1. UNCHANGED <<pending, wpc, lpc, lq, num, reg>>
  BY DEF StopClear, Stop, StopPost, StopFlag, Joined, wvars, lvars
<1>2. EveryQueueListed' /\ AllLate' = AllLate
  BY <1>1 DEF EveryQueueListed, AllLate, Late
<1>3. CASE StopClear
  <2>1. empty' = 0 /\ Rescued'
    BY <1>3 DEF StopClear, StopStep, Rescued, Posting
  <2> QED
    BY <1>1, <1>2, <2>1 DEF LoweredMeansPosted, SleepsTwiceDrained, DrainedInPass,
                            DrainedInRound
<1>4. CASE Stop
  <2>1. UNCHANGED empty /\ (Rescued => Rescued')
    BY <1>1, <1>4 DEF Stop, StopPost, StopFlag, Joined, StopStep, Rescued, Posting
  <2> QED
    BY <1>1, <1>2, <2>1 DEF LoweredMeansPosted, SleepsTwiceDrained, DrainedInPass,
                            DrainedInRound, BeforeSleep, Late
<1> QED BY <1>3, <1>4

LEMMA InvInit == Init => Inv
  BY TypeInit DEF Init, Inv, EveryQueueListed, LoweredMeansPosted, SleepsTwiceDrained,
                  BeforeSleep, DrainedInPass, DrainedInRound, AllLate

LEMMA InvStep == Inv /\ [Next]_vars => Inv'
<1> SUFFICES ASSUME Inv, [Next]_vars PROVE Inv'
  OBVIOUS
<1>1. TypeOK'
  BY TypeStep DEF Inv
<1>2. CASE UNCHANGED vars
  BY <1>2 DEF vars, wvars, lvars, mvars, Inv, TypeOK, EveryQueueListed,
     LoweredMeansPosted, SleepsTwiceDrained, BeforeSleep, DrainedInPass,
     DrainedInRound, AllLate, Late, Rescued, Posting
<1>3. CASE Next
  BY <1>1, <1>3, WorkerStep, RoundStep, PassStep, StopStepOK DEF Next, LogThread
<1> QED BY <1>2, <1>3

LEMMA InvAlways == Spec => []Inv
  BY InvInit, InvStep, PTL DEF Spec

\* log_handler and log_work_thread lose no wake-up: a log thread that sleeps
\* on g_log_sem without a post under way leaves no record behind.
THEOREM NeverStranded == Spec => []NoneStranded
<1>1. Inv => NoneStranded
  BY DEF Inv, TypeOK, LoweredMeansPosted, SleepsTwiceDrained, BeforeSleep, Rescued,
         AllLate, Late, NoneStranded
<1> QED BY <1>1, InvAlways, PTL

\* A record left behind by the last pass of a round is a record whose worker
\* has seen, or will see, the g_log_empty of that round.
THEOREM AlwaysSignalled == Spec => []DrainedOrSignalled
<1>1. Inv => DrainedOrSignalled
  BY DEF Inv, DrainedInRound, AllLate, Late, DrainedOrSignalled
<1> QED BY <1>1, InvAlways, PTL

----------------------------------------------------------------------------
(* Stopping *)

Drained == \A w \in Worker : pending[w] = 0

\* Once main has joined the workers nothing is logged any more, and what has
\* raised g_log_empty to 2 since is a round that found every queue empty.
Stopped ==
  /\ mpc \in {"running", "post", "flag"} => running
  /\ mpc = "running" => stopper = "nobody"
  /\ mpc = "gone" => lpc = "done"
  /\ lpc = "done" => ~running
  /\ stopper = "main" => \A w \in Worker : wpc[w] = "idle"
  /\ stopper = "main" /\ ~undone /\ (empty = 2 \/ lpc = "done") => Drained

LEMMA StoppedInit == Init => Stopped
  BY DEF Init, Stopped

LEMMA StoppedStep == Inv /\ Stopped /\ [Next]_vars => Stopped'
<1> SUFFICES ASSUME Inv, Stopped, [Next]_vars PROVE Stopped'
  OBVIOUS
<1>0. TypeOK /\ wpc \in [Worker -> {"idle", "test", "clear", "post"}] /\ empty \in 0 .. 2
  BY DEF Inv, TypeOK
<1> USE DEF wvars, lvars, mvars, Work, LogStep, StopStep
<1>1. ASSUME NEW w \in Worker, Log(w) PROVE Stopped'
  BY <1>1, Zenon DEF Log, Stopped
<1>2. ASSUME NEW w \in Worker, Signal(w) PROVE Stopped'
  <2>1. stopper # "main" BY <1>2 DEF Signal, TestEmpty, ClearEmpty, Post, Stopped
  <2>2. UNCHANGED <<mpc, running, stopper, lpc>>
    BY <1>2, Zenon DEF Signal, TestEmpty, ClearEmpty, Post
  <2> QED BY <2>1, <2>2, Zenon DEF Stopped
<1>3. CASE LoopTest
  <2>1. lpc = "loop" /\ (lpc' # "done" \/ (~running /\ empty = 2))
    BY <1>3, <1>0 DEF LoopTest
  <2>2. UNCHANGED <<mpc, running, stopper, wpc, undone, empty, pending>> /\ lpc = "loop"
    BY <1>3, Zenon DEF LoopTest
  <2>3. Drained' <=> Drained BY <2>2 DEF Drained
  <2> QED BY <2>1, <2>2, <2>3, Zenon DEF Stopped
<1>4. CASE ChooseWait \/ Woken \/ TimedOut \/ LoadEmpty
  <2>1. UNCHANGED <<mpc, running, stopper, wpc, undone, empty, pending>>
    BY <1>4, Zenon DEF ChooseWait, Woken, TimedOut, LoadEmpty
  <2>2. lpc # "done" /\ lpc' # "done"
    BY <1>4 DEF ChooseWait, Woken, TimedOut, LoadEmpty
  <2>3. Drained' <=> Drained BY <2>1 DEF Drained
  <2> QED BY <2>1, <2>2, <2>3, Zenon DEF Stopped
<1>5. CASE WriteRecord \/ QueueDrained
  <2>1. UNCHANGED <<mpc, running, stopper, wpc, undone, empty>>
    BY <1>5, Zenon DEF WriteRecord, QueueDrained
  <2>2. lpc # "done" /\ lpc' # "done"
    BY <1>5 DEF WriteRecord, QueueDrained, AfterVisit, StartPass
  <2>3. Drained => Drained'
    <3>1. CASE WriteRecord
      <4>1. i \in Worker BY <1>0, <3>1, NumWorkersAssumption DEF WriteRecord, TypeOK, Worker
      <4>2. lq[i] \in Worker BY <4>1, <1>0 DEF TypeOK
      <4> QED BY <3>1, <4>2 DEF WriteRecord, Drained
    <3>2. CASE QueueDrained BY <3>2 DEF QueueDrained, Drained
    <3> QED BY <1>5, <3>1, <3>2
  <2> QED BY <2>1, <2>2, <2>3, Zenon DEF Stopped
<1>6. CASE StoreEmpty
  <2>1. UNCHANGED <<mpc, running, stopper, wpc, pending>> /\ lpc = "store" /\ lpc' = "loop"
    BY <1>6, Zenon DEF StoreEmpty
  <2>2. (undone => undone') /\ (mpc # "running" /\ reg > 0 /\ empty = 0 => undone')
    BY <1>6, Zenon DEF StoreEmpty
  <2>3. empty' = 2 => reg > 0 BY <1>6, <1>0 DEF StoreEmpty, TypeOK
  <2>4. reg > 0 => empty = 0 \/ AllLate BY <2>1 DEF Inv, DrainedInRound
  <2>5. stopper = "main" /\ AllLate => Drained
    BY <1>0 DEF Stopped, AllLate, Late, Drained, TypeOK
  <2>6. stopper = "main" /\ ~undone' /\ empty' = 2 => Drained
    <3> SUFFICES ASSUME stopper = "main", ~undone', empty' = 2 PROVE Drained OBVIOUS
    <3>1. mpc # "running" BY Zenon DEF Stopped
    <3> QED BY <3>1, <2>2, <2>3, <2>4, <2>5, Zenon
  <2>7. Drained' <=> Drained BY <2>1 DEF Drained
  <2> QED BY <2>1, <2>6, <2>7, Zenon DEF Stopped
<1>7. CASE StopClear
  <2>1. /\ mpc = "running" /\ mpc' = "post" /\ UNCHANGED <<running, lpc, wpc, undone>>
        /\ stopper' = "main" => \A w \in Worker : wpc[w] = "idle"
        /\ empty' # 2
    BY <1>7 DEF StopClear
  <2>2. running /\ lpc # "done" BY <2>1, Zenon DEF Stopped
  <2>3. running' /\ lpc' # "done" BY <2>1, <2>2, Zenon
  <2>4. stopper' = "main" => \A w \in Worker : wpc'[w] = "idle" BY <2>1, Zenon
  <2> QED BY <2>1, <2>3, <2>4, Zenon DEF Stopped
<1>8. CASE Stop
  <2>1. UNCHANGED <<stopper, lpc, wpc, undone, empty, pending>>
    BY <1>8, Zenon DEF Stop, StopPost, StopFlag, Joined
  <2>2. \/ mpc' = "flag" /\ mpc = "post" /\ UNCHANGED running
        \/ mpc' = "join" /\ mpc = "flag" /\ running' = FALSE
        \/ mpc' = "gone" /\ mpc = "join" /\ UNCHANGED running /\ lpc = "done"
    BY <1>8, Zenon DEF Stop, StopPost, StopFlag, Joined
  <2>3. Drained' <=> Drained BY <2>1 DEF Drained
  <2>4. (mpc' \in {"running", "post", "flag"} => running') /\ mpc' # "running"
    BY <2>2, Zenon DEF Stopped
  <2>5. mpc' = "gone" => lpc' = "done"
    BY <2>1, <2>2
  <2>6. running' => running BY <2>2, Zenon
  <2>7. lpc' = "done" => ~running' BY <2>1, <2>6, Zenon DEF Stopped
  <2> QED BY <2>1, <2>3, <2>4, <2>5, <2>7, Zenon DEF Stopped
<1>9. CASE UNCHANGED vars
  <2>1. Drained' <=> Drained BY <1>9 DEF vars, Drained
  <2> QED BY <1>9, <2>1, Zenon DEF vars, Stopped
<1> QED
  BY <1>1, <1>2, <1>3, <1>4, <1>5, <1>6, <1>7, <1>8, <1>9 DEF Next, LogThread

\* main destroys no queue with a record in it, unless the log thread ran past
\* the stop's g_log_empty = 0.
THEOREM StopLosesNothing == Spec => []StopDrains
<1>1. Stopped => StopDrains
  BY Zenon DEF Stopped, StopDrains, Drained
<1> QED BY <1>1, StoppedInit, StoppedStep, InvAlways, PTL DEF Spec
=============================================================================
