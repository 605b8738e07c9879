-------------------------- MODULE ConnDispatchProofs -------------------------
(***************************************************************************)
(* Proofs about ConnDispatch, for any number of workers, clients and       *)
(* descriptors.                                                            *)
(***************************************************************************)
EXTENDS ConnDispatch, SequenceTheorems, FiniteSetTheorems, TLAPS

----------------------------------------------------------------------------
(* The listening thread *)

MainType ==
  /\ mpc \in {"idle", "dispatch", "notify", "disallow"}
  /\ msock \in Sock \cup {NoSock} /\ (mpc = "dispatch" => msock \in Sock)
  /\ listening \in BOOLEAN /\ timer \in BOOLEAN /\ allow \in BOOLEAN
  /\ PollsUntilListening

LEMMA InitMain == Init => MainType
BY DEF Init, MainType, PollsUntilListening

LEMMA NextMain == MainType /\ [Next]_vars => MainType'
<1> SUFFICES ASSUME MainType, [Next]_vars PROVE MainType' OBVIOUS
<1> USE DEF mvars, lvars, qvars, tvars
<1>1. ASSUME NEW s \in Sock, Connect(s) PROVE MainType'
  BY <1>1, Zenon DEF Connect, Main, MainType, PollsUntilListening
<1>2. ASSUME NEW s \in Sock, Accept(s) PROVE MainType'
  BY <1>2, Zenon DEF Accept, Acceptable, MainType, PollsUntilListening
<1>3. ASSUME NEW s \in Sock, Reject(s) PROVE MainType'
  BY <1>3, Zenon DEF Reject, Acceptable, Main, MainType, PollsUntilListening
<1>4. ASSUME NEW s \in Sock, RunOutOfFds(s) PROVE MainType'
  BY <1>4, Zenon DEF RunOutOfFds, Acceptable, MainType, PollsUntilListening
<1>5. CASE Disallow BY <1>5, Zenon DEF Disallow, Main, MainType, PollsUntilListening
<1>6. CASE TimerPolls BY <1>6, Zenon DEF TimerPolls, vars, Main, MainType, PollsUntilListening
<1>7. CASE TimerFires BY <1>7, Zenon DEF TimerFires, Main, MainType, PollsUntilListening
<1>8. CASE Push BY <1>8, Zenon DEF Push, Main, MainType, PollsUntilListening
<1>9. CASE PushRefused BY <1>9, Zenon DEF PushRefused, Main, MainType, PollsUntilListening
<1>10. CASE Notify BY <1>10, Zenon DEF Notify, Main, MainType, PollsUntilListening
<1>11. ASSUME NEW t \in Thread, Wake(t) PROVE MainType'
  BY <1>11, Zenon DEF Wake, Main, MainType, PollsUntilListening
<1>12. ASSUME NEW t \in Thread, ConnNew(t) PROVE MainType'
  BY <1>12, Zenon DEF ConnNew, Main, MainType, PollsUntilListening
<1>13. ASSUME NEW t \in Thread, ConnNewFails(t) PROVE MainType'
  BY <1>13, Zenon DEF ConnNewFails, Main, MainType, PollsUntilListening
<1>14. ASSUME NEW t \in Thread, Count(t) PROVE MainType'
  BY <1>14, Zenon DEF Count, Main, MainType, PollsUntilListening
<1>15. ASSUME NEW t \in Thread, PopItem(t) PROVE MainType'
  BY <1>15, Zenon DEF PopItem, Main, MainType, PollsUntilListening
<1>16. ASSUME NEW t \in Thread, CloseFd(t) PROVE MainType'
  BY <1>16, Zenon DEF CloseFd, Main, MainType, PollsUntilListening
<1>17. ASSUME NEW t \in Thread, AllowNew(t) PROVE MainType'
  BY <1>17, Zenon DEF AllowNew, Main, MainType, PollsUntilListening
<1>18. ASSUME NEW t \in Thread, NEW s \in Sock, Uncount(t, s) PROVE MainType'
  BY <1>18, Zenon DEF Uncount, Main, MainType, PollsUntilListening
<1>20. ASSUME NEW s \in Sock, NoNonblock(s) PROVE MainType'
  BY <1>20, Zenon DEF NoNonblock, Acceptable, Main, MainType, PollsUntilListening
<1>21. CASE NotifyFails BY <1>21, Zenon DEF NotifyFails, Main, MainType, PollsUntilListening
<1>22. ASSUME NEW t \in Thread, WakeUnread(t) PROVE MainType'
  BY <1>22, Zenon DEF WakeUnread, Main, MainType, PollsUntilListening
<1>19. CASE UNCHANGED vars BY <1>19, Zenon DEF vars, Main, MainType, PollsUntilListening
<1> QED
  BY <1>1, <1>2, <1>3, <1>4, <1>5, <1>6, <1>7, <1>8, <1>9, <1>10, <1>11, <1>12, <1>13, <1>14,
     <1>15, <1>16, <1>17, <1>18, <1>19, <1>20, <1>21, <1>22 DEF Next, MainStep, WorkerStep

\* A server that does not listen will look whether it may.
THEOREM AlwaysPolls == Spec => []PollsUntilListening
<1>1. MainType => PollsUntilListening BY DEF MainType
<1> QED BY <1>1, InitMain, NextMain, PTL DEF Spec

LEMMA ThreadFacts ==
  /\ last \in Thread => NextThread \in Thread
  /\ NumThreads - 1 \in Thread /\ 0 \in Thread
BY ThreadsAssumption DEF NextThread, Thread

----------------------------------------------------------------------------
(* The workers *)

\* A worker that is at an item has one.
WorkerType ==
  /\ last \in Thread /\ curr \in Int
  /\ sock \in [Sock -> {"away", "backlog", "accepted", "queued", "open", "closing", "leaked"}]
  /\ owner \in [Sock -> Thread]
  /\ queue \in [Thread -> Seq(Sock)] /\ bytes \in [Thread -> Nat]
  /\ unsent \in [Thread -> Nat]
  /\ tpc \in [Thread -> {"idle", "item", "count", "pop", "close", "allow"}]
  /\ tsock \in [Thread -> Sock \cup {NoSock}]
  /\ \A t \in Thread : tpc[t] = "close" => tsock[t] \in Sock
  /\ \A t \in Thread : tpc[t] \in {"item", "count", "pop"} => queue[t] # <<>>

LEMMA InitWorker == Init => WorkerType
BY EmptySeq, ThreadFacts DEF Init, WorkerType

LEMMA NextWorker == MainType /\ WorkerType /\ [Next]_vars => WorkerType'
<1> SUFFICES ASSUME MainType, WorkerType, [Next]_vars PROVE WorkerType' OBVIOUS
<1> USE DEF mvars, lvars, qvars, tvars
<1>1. ASSUME NEW s \in Sock, Connect(s) PROVE WorkerType'
  BY <1>1 DEF Connect, Main, Thr, WorkerType
<1>2. ASSUME NEW s \in Sock, Accept(s) PROVE WorkerType'
  BY <1>2 DEF Accept, Acceptable, Main, Thr, WorkerType
<1>3. ASSUME NEW s \in Sock, Reject(s) PROVE WorkerType'
  BY <1>3 DEF Reject, Acceptable, Main, Thr, WorkerType
<1>4. ASSUME NEW s \in Sock, RunOutOfFds(s) PROVE WorkerType'
  BY <1>4 DEF RunOutOfFds, Acceptable, Main, Thr, WorkerType
<1>5. CASE Disallow BY <1>5 DEF Disallow, Main, Thr, WorkerType
<1>6. CASE TimerPolls BY <1>6 DEF TimerPolls, vars, Main, Thr, WorkerType
<1>7. CASE TimerFires BY <1>7 DEF TimerFires, Main, Thr, WorkerType
<1>8. CASE Push
  <2>1. msock \in Sock /\ NextThread \in Thread
    BY <1>8, ThreadFacts DEF Push, Main, MainType, WorkerType
  <2>2. queue[NextThread] \in Seq(Sock) BY <2>1 DEF WorkerType
  <2>3. /\ Append(queue[NextThread], msock) \in Seq(Sock)
        /\ Append(queue[NextThread], msock) # <<>>
    BY <2>1, <2>2, AppendProperties, EmptySeq
  <2> QED BY <1>8, <2>1, <2>3 DEF Push, WorkerType
<1>9. CASE PushRefused
  <2>1. msock \in Sock /\ NextThread \in Thread
    BY <1>9, ThreadFacts DEF PushRefused, Main, MainType, WorkerType
  <2> QED BY <1>9, <2>1 DEF PushRefused, WorkerType
<1>10. CASE Notify BY <1>10 DEF Notify, Main, Thr, WorkerType
<1>11. ASSUME NEW t \in Thread, Wake(t) PROVE WorkerType' BY <1>11 DEF Wake, Main, Thr, WorkerType
<1>12. ASSUME NEW t \in Thread, ConnNew(t) PROVE WorkerType'
  <2>1. Head(queue[t]) \in Sock
    <3>1. queue[t] \in Seq(Sock) /\ queue[t] # <<>> BY <1>12 DEF ConnNew, Thr, WorkerType
    <3> QED BY <3>1, HeadTailProperties
  <2> QED BY <1>12, <2>1 DEF ConnNew, Thr, WorkerType
<1>13. ASSUME NEW t \in Thread, ConnNewFails(t) PROVE WorkerType'
  <2>1. Head(queue[t]) \in Sock
    <3>1. queue[t] \in Seq(Sock) /\ queue[t] # <<>> BY <1>13 DEF ConnNewFails, Thr, WorkerType
    <3> QED BY <3>1, HeadTailProperties
  <2> QED BY <1>13, <2>1, ThreadFacts DEF ConnNewFails, Thr, WorkerType
<1>14. ASSUME NEW t \in Thread, Count(t) PROVE WorkerType'
  BY <1>14 DEF Count, Main, Thr, WorkerType
<1>15. ASSUME NEW t \in Thread, PopItem(t) PROVE WorkerType'
  <2>1. Tail(queue[t]) \in Seq(Sock)
    <3>1. queue[t] \in Seq(Sock) /\ queue[t] # <<>> BY <1>15 DEF PopItem, Thr, WorkerType
    <3> QED BY <3>1, HeadTailProperties
  <2> QED BY <1>15, <2>1 DEF PopItem, Thr, WorkerType
<1>16. ASSUME NEW t \in Thread, CloseFd(t) PROVE WorkerType'
  BY <1>16, ThreadFacts DEF CloseFd, Main, Thr, WorkerType
<1>17. ASSUME NEW t \in Thread, AllowNew(t) PROVE WorkerType'
  BY <1>17 DEF AllowNew, Main, Thr, WorkerType
<1>18. ASSUME NEW t \in Thread, NEW s \in Sock, Uncount(t, s) PROVE WorkerType'
  BY <1>18 DEF Uncount, Main, Thr, WorkerType
<1>20. ASSUME NEW s \in Sock, NoNonblock(s) PROVE WorkerType'
  BY <1>20 DEF NoNonblock, Acceptable, Main, Thr, WorkerType
<1>21. CASE NotifyFails BY <1>21 DEF NotifyFails, Main, Thr, WorkerType
<1>22. ASSUME NEW t \in Thread, WakeUnread(t) PROVE WorkerType'
  BY <1>22 DEF WakeUnread, Main, Thr, WorkerType
<1>19. CASE UNCHANGED vars BY <1>19 DEF vars, Main, Thr, WorkerType
<1> QED
  BY <1>1, <1>2, <1>3, <1>4, <1>5, <1>6, <1>7, <1>8, <1>9, <1>10, <1>11, <1>12, <1>13, <1>14,
     <1>15, <1>16, <1>17, <1>18, <1>19, <1>20, <1>21, <1>22 DEF Next, MainStep, WorkerStep

\* The type invariant of the hand-over.
THEOREM TypeCorrect == Spec => []TypeOK
<1>1. MainType /\ WorkerType => TypeOK BY Zenon DEF MainType, WorkerType, TypeOK
<1> QED BY <1>1, InitMain, NextMain, InitWorker, NextWorker, PTL DEF Spec

----------------------------------------------------------------------------
(* Every item is announced *)

Announced == WorkerType /\ EveryItemAnnounced

LEMMA NextAnnounced == MainType /\ Announced /\ [Next]_vars => Announced'
<1> SUFFICES ASSUME MainType, Announced, [Next]_vars PROVE EveryItemAnnounced'
  BY NextWorker DEF Announced
<1>a. /\ WorkerType /\ WorkerType' /\ EveryItemAnnounced
      /\ \A r \in Thread : Len(queue[r]) \in Nat /\ bytes[r] \in Nat /\ unsent[r] \in Nat
  <2>1. \A r \in Thread : queue[r] \in Seq(Sock) /\ bytes[r] \in Nat /\ unsent[r] \in Nat
    BY DEF Announced, WorkerType
  <2>2. \A r \in Thread : Len(queue[r]) \in Nat BY <2>1, LenProperties
  <2> QED BY <2>1, <2>2, NextWorker DEF Announced
<1>b. /\ queue \in [Thread -> Seq(Sock)]
      /\ bytes \in [Thread -> Nat] /\ unsent \in [Thread -> Nat]
      /\ tpc \in [Thread -> {"idle", "item", "count", "pop", "close", "allow"}]
      /\ last \in Thread
  BY <1>a DEF WorkerType
<1> USE DEF mvars, lvars, qvars, tvars
<1>1. ASSUME NEW s \in Sock, Connect(s) PROVE EveryItemAnnounced'
  BY <1>1, <1>a, <1>b DEF Connect, Main, Thr, EveryItemAnnounced, Notifying, B
<1>2. ASSUME NEW s \in Sock, Accept(s) PROVE EveryItemAnnounced'
  BY <1>2, <1>a, <1>b DEF Accept, Acceptable, Main, Thr, EveryItemAnnounced, Notifying, B
<1>3. ASSUME NEW s \in Sock, Reject(s) PROVE EveryItemAnnounced'
  BY <1>3, <1>a, <1>b DEF Reject, Acceptable, Main, Thr, EveryItemAnnounced, Notifying, B
<1>4. ASSUME NEW s \in Sock, RunOutOfFds(s) PROVE EveryItemAnnounced'
  BY <1>4, <1>a, <1>b DEF RunOutOfFds, Acceptable, Main, Thr, EveryItemAnnounced, Notifying, B
<1>5. CASE Disallow BY <1>5, <1>a, <1>b DEF Disallow, Main, Thr, EveryItemAnnounced, Notifying, B
<1>6. CASE TimerPolls BY <1>6, <1>a, <1>b DEF TimerPolls, vars, Main, Thr, EveryItemAnnounced, Notifying, B
<1>7. CASE TimerFires BY <1>7, <1>a, <1>b DEF TimerFires, Main, Thr, EveryItemAnnounced, Notifying, B
<1>8. CASE Push
  <2>1. msock \in Sock /\ NextThread \in Thread /\ mpc = "dispatch"
    BY <1>8, <1>b, ThreadFacts DEF Push, Main, MainType
  <2>2. Len(Append(queue[NextThread], msock)) = Len(queue[NextThread]) + 1
    BY <2>1, <1>b, AppendProperties
  <2> SUFFICES ASSUME NEW r \in Thread
               PROVE  Len(queue'[r]) <= bytes'[r] + unsent'[r] + B(mpc' = "notify" /\ last' = r)
                                          + B(tpc'[r] \in {"item", "count", "pop"})
    BY DEF EveryItemAnnounced, Notifying, B
  <2>3. Len(queue[r]) <= bytes[r] + unsent[r] + B(tpc[r] \in {"item", "count", "pop"})
    BY <2>1, <1>a DEF EveryItemAnnounced, Notifying, B
  <2>4. bytes' = bytes /\ unsent' = unsent /\ tpc' = tpc /\ mpc' = "notify" /\ last' = NextThread
        /\ queue' = [queue EXCEPT ![NextThread] = Append(queue[NextThread], msock)]
    BY <1>8 DEF Push, Main
  <2>5. CASE r = NextThread
    <3>1. Len(queue'[r]) = Len(queue[r]) + 1 BY <2>1, <2>2, <2>4, <2>5, <1>b
    <3> QED BY <2>3, <2>4, <2>5, <3>1, <1>a DEF B
  <2>6. CASE r # NextThread
    <3>1. queue'[r] = queue[r] BY <2>1, <2>4, <2>6, <1>b
    <3> QED BY <2>3, <2>4, <2>6, <3>1, <1>a DEF B
  <2> QED BY <2>5, <2>6
<1>9. CASE PushRefused BY <1>9, <1>a, <1>b DEF PushRefused, Main, Thr, EveryItemAnnounced, Notifying, B
<1>10. CASE Notify BY <1>10, <1>a, <1>b DEF Notify, Main, Thr, EveryItemAnnounced, Notifying, B
<1>11. ASSUME NEW t \in Thread, Wake(t) PROVE EveryItemAnnounced'
  <2>1. /\ queue' = queue /\ unsent' = unsent /\ mpc' = mpc /\ last' = last
        /\ tpc[t] = "idle" /\ bytes[t] > 0
        /\ tpc' = [tpc EXCEPT ![t] = IF queue[t] = <<>> THEN "idle" ELSE "item"]
        /\ bytes' = [bytes EXCEPT ![t] = bytes[t] - 1]
    BY <1>11 DEF Wake, Thr
  <2> SUFFICES ASSUME NEW r \in Thread
               PROVE  Len(queue'[r]) <= bytes'[r] + unsent'[r] + B(mpc' = "notify" /\ last' = r)
                                          + B(tpc'[r] \in {"item", "count", "pop"})
    BY DEF EveryItemAnnounced, Notifying, B
  <2>2. Len(queue[r]) <= bytes[r] + unsent[r] + B(mpc = "notify" /\ last = r)
                          + B(tpc[r] \in {"item", "count", "pop"})
    BY <1>a DEF EveryItemAnnounced, Notifying, B
  <2>3. CASE r = t /\ queue[t] = <<>>
    <3>1. Len(queue'[r]) = 0 /\ bytes'[r] \in Nat /\ unsent'[r] \in Nat
      BY <2>1, <2>3, <1>a, <1>b, EmptySeq
    <3> QED BY <3>1 DEF B
  <2>4. CASE r = t /\ queue[t] # <<>>
    <3>1. tpc'[r] = "item" /\ bytes'[r] = bytes[r] - 1 BY <2>1, <2>4, <1>b
    <3> QED BY <2>1, <2>2, <2>4, <3>1, <1>a DEF B
  <2>5. CASE r # t
    <3>1. bytes'[r] = bytes[r] /\ tpc'[r] = tpc[r] BY <2>1, <2>5, <1>b
    <3> QED BY <2>1, <2>2, <3>1, <1>a DEF B
  <2> QED BY <2>3, <2>4, <2>5
<1>12. ASSUME NEW t \in Thread, ConnNew(t) PROVE EveryItemAnnounced'
  BY <1>12, <1>a, <1>b DEF ConnNew, Main, Thr, EveryItemAnnounced, Notifying, B
<1>13. ASSUME NEW t \in Thread, ConnNewFails(t) PROVE EveryItemAnnounced'
  BY <1>13, <1>a, <1>b DEF ConnNewFails, Main, Thr, EveryItemAnnounced, Notifying, B
<1>14. ASSUME NEW t \in Thread, Count(t) PROVE EveryItemAnnounced'
  BY <1>14, <1>a, <1>b DEF Count, Main, Thr, EveryItemAnnounced, Notifying, B
<1>15. ASSUME NEW t \in Thread, PopItem(t) PROVE EveryItemAnnounced'
  <2>1. queue[t] \in Seq(Sock) /\ queue[t] # <<>> /\ tpc[t] = "pop"
    BY <1>15, <1>a DEF PopItem, Thr, WorkerType
  <2>2. Len(Tail(queue[t])) = Len(queue[t]) - 1 BY <2>1, HeadTailProperties
  <2>3. /\ bytes' = bytes /\ unsent' = unsent /\ mpc' = mpc /\ last' = last
        /\ tpc' = [tpc EXCEPT ![t] = "idle"] /\ queue' = [queue EXCEPT ![t] = Tail(queue[t])]
    BY <1>15 DEF PopItem, Thr
  <2> SUFFICES ASSUME NEW r \in Thread
               PROVE  Len(queue'[r]) <= bytes'[r] + unsent'[r] + B(mpc' = "notify" /\ last' = r)
                                          + B(tpc'[r] \in {"item", "count", "pop"})
    BY DEF EveryItemAnnounced, Notifying, B
  <2>4. Len(queue[r]) <= bytes[r] + unsent[r] + B(mpc = "notify" /\ last = r)
                          + B(tpc[r] \in {"item", "count", "pop"})
    BY <1>a DEF EveryItemAnnounced, Notifying, B
  <2>5. CASE r = t
    <3>1. Len(queue'[r]) = Len(queue[r]) - 1 /\ tpc'[r] = "idle" BY <2>2, <2>3, <2>5, <1>b
    <3> QED BY <2>1, <2>3, <2>4, <2>5, <3>1, <1>a DEF B
  <2>6. CASE r # t
    <3>1. queue'[r] = queue[r] /\ tpc'[r] = tpc[r] BY <2>3, <2>6, <1>b
    <3> QED BY <2>3, <2>4, <3>1, <1>a DEF B
  <2> QED BY <2>5, <2>6
<1>16. ASSUME NEW t \in Thread, CloseFd(t) PROVE EveryItemAnnounced'
  BY <1>16, <1>a, <1>b DEF CloseFd, Main, Thr, EveryItemAnnounced, Notifying, B
<1>17. ASSUME NEW t \in Thread, AllowNew(t) PROVE EveryItemAnnounced'
  BY <1>17, <1>a, <1>b DEF AllowNew, Main, Thr, EveryItemAnnounced, Notifying, B
<1>18. ASSUME NEW t \in Thread, NEW s \in Sock, Uncount(t, s) PROVE EveryItemAnnounced'
  BY <1>18, <1>a, <1>b DEF Uncount, Main, Thr, EveryItemAnnounced, Notifying, B
<1>20. ASSUME NEW s \in Sock, NoNonblock(s) PROVE EveryItemAnnounced'
  BY <1>20, <1>a, <1>b DEF NoNonblock, Acceptable, Main, Thr, EveryItemAnnounced, Notifying, B
<1>21. CASE NotifyFails BY <1>21, <1>a, <1>b DEF NotifyFails, Main, Thr, EveryItemAnnounced, Notifying, B
<1>22. ASSUME NEW t \in Thread, WakeUnread(t) PROVE EveryItemAnnounced'
  <2>1. /\ queue' = queue /\ unsent' = unsent /\ mpc' = mpc /\ last' = last
        /\ tpc[t] = "idle"
        /\ tpc' = [tpc EXCEPT ![t] = IF queue[t] = <<>> THEN "idle" ELSE "item"]
        /\ bytes' = bytes
    BY <1>22 DEF WakeUnread, Thr
  <2> SUFFICES ASSUME NEW r \in Thread
               PROVE  Len(queue'[r]) <= bytes'[r] + unsent'[r] + B(mpc' = "notify" /\ last' = r)
                                          + B(tpc'[r] \in {"item", "count", "pop"})
    BY DEF EveryItemAnnounced, Notifying, B
  <2>2. Len(queue[r]) <= bytes[r] + unsent[r] + B(mpc = "notify" /\ last = r)
                          + B(tpc[r] \in {"item", "count", "pop"})
    BY <1>a DEF EveryItemAnnounced, Notifying, B
  <2>3. CASE r = t /\ queue[t] = <<>>
    <3>1. Len(queue'[r]) = 0 /\ bytes'[r] \in Nat /\ unsent'[r] \in Nat
      BY <2>1, <2>3, <1>a, <1>b, EmptySeq
    <3> QED BY <3>1 DEF B
  <2>4. CASE r = t /\ queue[t] # <<>>
    <3>1. tpc'[r] = "item" /\ bytes'[r] = bytes[r] BY <2>1, <2>4, <1>b
    <3> QED BY <2>1, <2>2, <2>4, <3>1, <1>a DEF B
  <2>5. CASE r # t
    <3>1. bytes'[r] = bytes[r] /\ tpc'[r] = tpc[r] BY <2>1, <2>5, <1>b
    <3> QED BY <2>1, <2>2, <3>1, <1>a DEF B
  <2> QED BY <2>3, <2>4, <2>5
<1>19. CASE UNCHANGED vars BY <1>19, <1>a, <1>b DEF vars, Main, Thr, EveryItemAnnounced, Notifying, B
<1> QED
  BY <1>1, <1>2, <1>3, <1>4, <1>5, <1>6, <1>7, <1>8, <1>9, <1>10, <1>11, <1>12, <1>13, <1>14,
     <1>15, <1>16, <1>17, <1>18, <1>19, <1>20, <1>21, <1>22 DEF Next, MainStep, WorkerStep

\* The bytes in the pipe of a worker fall short of its items by no more than
\* write has refused to take.
THEOREM AlwaysAnnounced == Spec => []EveryItemAnnounced
<1>1. Init => Announced
  <2>1. Init => EveryItemAnnounced BY EmptySeq DEF Init, EveryItemAnnounced, Notifying, B
  <2> QED BY <2>1, InitWorker DEF Announced
<1>2. Announced => EveryItemAnnounced BY DEF Announced
<1> QED BY <1>1, <1>2, InitMain, NextMain, NextAnnounced, PTL DEF Spec

----------------------------------------------------------------------------
(* Every socket is in one place *)

\* Besides: the socket just accepted is in no queue, and a worker that closes
\* a connection has it for itself.
HandedOver ==
  /\ QueuedOnce
  /\ mpc = "dispatch" => sock[msock] = "accepted"
  /\ \A t \in Thread : tpc[t] = "close" =>
       sock[tsock[t]] = "closing" /\ owner[tsock[t]] = t

\* The queues are as they were, no socket that changes is or gets queued, and
\* a queued one keeps its worker.
LEMMA QueuesKept ==
  ASSUME HandedOver, WorkerType, queue' = queue,
         \A s \in Sock : owner'[s] # owner[s] => sock[s] # "queued",
         \A t \in Thread : tpc'[t] \in {"count", "pop"} <=> tpc[t] \in {"count", "pop"},
         \A s \in Sock : sock'[s] # sock[s] => sock[s] # "queued" /\ sock'[s] # "queued"
  PROVE  QueuedOnce'
<1>1. \A t \in Thread, k \in Int : Waits(t, k)' <=> Waits(t, k) BY DEF Waits
<1>2. \A t \in Thread : queue[t] \in Seq(Sock) BY DEF WorkerType
<1>3. \A t \in Thread : \A k \in DOMAIN queue[t] : k \in Int /\ queue[t][k] \in Sock
  BY <1>2, ElementOfSeq, LenProperties
<1>4. QueuedOnce'
  <2>1. ASSUME NEW s \in Sock, sock'[s] = "queued"
        PROVE  \E k \in DOMAIN queue'[owner'[s]] : Waits(owner[s], k)' /\ queue'[owner'[s]][k] = s
    <3>1. sock[s] = "queued" /\ owner[s] \in Thread BY <2>1 DEF WorkerType
    <3>2. PICK k \in DOMAIN queue[owner[s]] : Waits(owner[s], k) /\ queue[owner[s]][k] = s
      BY <3>1 DEF HandedOver, QueuedOnce
    <3> QED BY <3>1, <3>2, <1>1, <1>3
  <2>2. ASSUME NEW t \in Thread, NEW k \in DOMAIN queue'[t], Waits(t, k)'
        PROVE  sock'[queue'[t][k]] = "queued" /\ owner'[queue'[t][k]] = t
    <3>1. k \in DOMAIN queue[t] /\ Waits(t, k) /\ queue[t][k] \in Sock BY <2>2, <1>1, <1>3
    <3>2. sock[queue[t][k]] = "queued" /\ owner[queue[t][k]] = t
      BY <3>1 DEF HandedOver, QueuedOnce
    <3> QED BY <3>1, <3>2
  <2>3. ASSUME NEW t \in Thread, NEW j \in DOMAIN queue'[t], NEW k \in DOMAIN queue'[t],
               Waits(t, j)', Waits(t, k)', queue'[t][j] = queue'[t][k]
        PROVE  j = k
    <3>1. j \in DOMAIN queue[t] /\ k \in DOMAIN queue[t] /\ Waits(t, j) /\ Waits(t, k)
          /\ queue[t][j] = queue[t][k]
      BY <2>3, <1>1, <1>3
    <3> QED BY <3>1 DEF HandedOver, QueuedOnce
  <2> QED BY <2>1, <2>2, <2>3, Zenon DEF QueuedOnce
<1> QED BY <1>4

\* Besides, nobody closes another connection than before.
LEMMA OthersKept ==
  ASSUME HandedOver, WorkerType,
         queue' = queue, owner' = owner, tsock' = tsock,
         \A t \in Thread : tpc'[t] \in {"count", "pop"} <=> tpc[t] \in {"count", "pop"},
         \A t \in Thread : tpc'[t] = "close" => tpc[t] = "close",
         \A s \in Sock : sock'[s] # sock[s] =>
           sock[s] \notin {"queued", "closing"} /\ sock'[s] # "queued",
         mpc' = "dispatch" => sock'[msock'] = "accepted"
  PROVE  HandedOver'
<1>1. QueuedOnce' BY QueuesKept
<1>2. ASSUME NEW t \in Thread, tpc'[t] = "close"
      PROVE  sock'[tsock'[t]] = "closing" /\ owner'[tsock'[t]] = t
  <2>1. tsock[t] \in Sock /\ sock[tsock[t]] = "closing" /\ owner[tsock[t]] = t
    BY <1>2 DEF HandedOver, WorkerType
  <2> QED BY <2>1
<1> QED BY <1>1, <1>2 DEF HandedOver

LEMMA Items ==
  ASSUME WorkerType, NEW t \in Thread
  PROVE  /\ queue[t] \in Seq(Sock) /\ Len(queue[t]) \in Nat
         /\ DOMAIN queue[t] = 1 .. Len(queue[t])
         /\ \A k \in 1 .. Len(queue[t]) : queue[t][k] \in Sock
<1>1. queue[t] \in Seq(Sock) BY DEF WorkerType
<1> QED BY <1>1, LenProperties, ElementOfSeq

\* What waits anywhere, seen from the positions.
LEMMA Places ==
  ASSUME HandedOver, WorkerType
  PROVE  /\ \A t \in Thread : \A k \in 1 .. Len(queue[t]) : Waits(t, k) =>
              sock[queue[t][k]] = "queued" /\ owner[queue[t][k]] = t
         /\ \A t \in Thread : \A j, k \in 1 .. Len(queue[t]) :
              Waits(t, j) /\ Waits(t, k) /\ queue[t][j] = queue[t][k] => j = k
         /\ \A s \in Sock : sock[s] = "queued" =>
              \E k \in 1 .. Len(queue[owner[s]]) : Waits(owner[s], k) /\ queue[owner[s]][k] = s
<1>1. \A t \in Thread : DOMAIN queue[t] = 1 .. Len(queue[t]) BY Items
<1>2. \A s \in Sock : owner[s] \in Thread BY DEF WorkerType
<1> QED BY <1>1, <1>2 DEF HandedOver, QueuedOnce

\* The other way round, after a step.
LEMMA PlacesSuffice ==
  ASSUME WorkerType',
         \A t \in Thread : \A k \in 1 .. Len(queue'[t]) : Waits(t, k)' =>
           sock'[queue'[t][k]] = "queued" /\ owner'[queue'[t][k]] = t,
         \A t \in Thread : \A j, k \in 1 .. Len(queue'[t]) :
           Waits(t, j)' /\ Waits(t, k)' /\ queue'[t][j] = queue'[t][k] => j = k,
         \A s \in Sock : sock'[s] = "queued" =>
           \E k \in 1 .. Len(queue'[owner'[s]]) :
             (k = 1 => tpc'[owner'[s]] \notin {"count", "pop"}) /\ queue'[owner'[s]][k] = s
  PROVE  QueuedOnce'
<1>1. \A t \in Thread : DOMAIN queue'[t] = 1 .. Len(queue'[t])
  <2>1. \A t \in Thread : queue'[t] \in Seq(Sock) BY DEF WorkerType
  <2> QED BY <2>1, LenProperties
<1>2. \A s \in Sock : owner'[s] \in Thread BY DEF WorkerType
<1> QED BY <1>1, <1>2 DEF QueuedOnce, Waits

\* conn_new has taken the item at the head of the queue.
LEMMA HeadTaken ==
  ASSUME HandedOver, WorkerType, WorkerType', NEW t \in Thread,
         tpc[t] = "item", NEW c \in {"count", "pop"}, tpc' = [tpc EXCEPT ![t] = c],
         NEW v, v # "queued", sock' = [sock EXCEPT ![Head(queue[t])] = v],
         \A s \in Sock : owner'[s] # owner[s] => s = Head(queue[t]),
         queue' = queue, tsock' = tsock, mpc' = mpc, msock' = msock,
         mpc = "dispatch" => msock \in Sock
  PROVE  HandedOver'
<1>1. queue[t] # <<>> /\ tpc \in [Thread -> {"idle", "item", "count", "pop", "close", "allow"}]
  BY DEF WorkerType
<1>2. queue[t] \in Seq(Sock) /\ Len(queue[t]) \in Nat \ {0} BY <1>1, Items, EmptySeq
<1> DEFINE h == queue[t][1]
<1>3. Head(queue[t]) = h /\ h \in Sock BY <1>2, HeadTailProperties, ElementOfSeq
<1>4. Waits(t, 1) /\ 1 \in 1 .. Len(queue[t]) BY <1>2 DEF Waits
<1>5. sock[h] = "queued" /\ owner[h] = t BY <1>3, <1>4, Places
<1>6. \A s \in Sock : sock'[s] = IF s = h THEN v ELSE sock[s] BY <1>3 DEF WorkerType
<1>o. \A s \in Sock : s # h => owner'[s] = owner[s] BY <1>3
<1>7. \A r \in Thread, k \in Int : Waits(r, k)' <=> Waits(r, k) /\ ~(r = t /\ k = 1)
  BY <1>1, <1>4 DEF Waits
<1>8. \A r \in Thread : \A k \in 1 .. Len(queue[r]) : Waits(r, k)' =>
        queue[r][k] \in Sock /\ queue[r][k] # h
  <2> SUFFICES ASSUME NEW r \in Thread, NEW k \in 1 .. Len(queue[r]), Waits(r, k)',
                      queue[r][k] = h
               PROVE  FALSE
    BY Items
  <2>1. Waits(r, k) /\ ~(r = t /\ k = 1) BY <1>7, Items
  <2>2. r = t BY <2>1, <1>5, Places
  <2> QED BY <2>1, <2>2, <1>4, Places
<1>9. QueuedOnce'
  <2>1. ASSUME NEW r \in Thread, NEW k \in 1 .. Len(queue'[r]), Waits(r, k)'
        PROVE  sock'[queue'[r][k]] = "queued" /\ owner'[queue'[r][k]] = r
    <3>1. k \in 1 .. Len(queue[r]) /\ Waits(r, k) BY <2>1, <1>7, Items
    <3> QED BY <3>1, <2>1, <1>6, <1>8, <1>o, Places
  <2>2. ASSUME NEW r \in Thread, NEW j \in 1 .. Len(queue'[r]), NEW k \in 1 .. Len(queue'[r]),
               Waits(r, j)', Waits(r, k)', queue'[r][j] = queue'[r][k]
        PROVE  j = k
    BY <2>2, <1>7, Items, Places
  <2>3. ASSUME NEW s \in Sock, sock'[s] = "queued"
        PROVE  \E k \in 1 .. Len(queue'[owner'[s]]) :
                 (k = 1 => tpc'[owner'[s]] \notin {"count", "pop"}) /\ queue'[owner'[s]][k] = s
    <3>1. s # h /\ sock[s] = "queued" /\ owner[s] \in Thread /\ owner'[s] = owner[s]
      <4>1. s # h /\ sock[s] = "queued" BY <2>3, <1>6
      <4>2. owner[s] \in Thread BY DEF WorkerType
      <4> QED BY <4>1, <4>2, <1>o
    <3>2. PICK k \in 1 .. Len(queue[owner[s]]) : Waits(owner[s], k) /\ queue[owner[s]][k] = s
      BY <3>1, Places
    <3>3. ~(owner[s] = t /\ k = 1) BY <3>1, <3>2
    <3>4. k = 1 => tpc'[owner[s]] \notin {"count", "pop"}
      BY <3>1, <3>2, <3>3, <1>1 DEF Waits
    <3>5. queue'[owner'[s]] = queue[owner[s]] /\ tpc'[owner'[s]] = tpc'[owner[s]] BY <3>1
    <3> QED BY <3>2, <3>4, <3>5, Zenon
  <2> QED BY <2>1, <2>2, <2>3, PlacesSuffice
<1>10. mpc' = "dispatch" => sock'[msock'] = "accepted" BY <1>5, <1>6 DEF HandedOver
<1>11. \A r \in Thread : tpc'[r] = "close" => sock'[tsock'[r]] = "closing" /\ owner'[tsock'[r]] = r
  <2> SUFFICES ASSUME NEW r \in Thread, tpc'[r] = "close"
               PROVE  sock'[tsock'[r]] = "closing" /\ owner'[tsock'[r]] = r
    OBVIOUS
  <2>1. tpc[r] = "close" BY <1>1
  <2>2. tsock[r] \in Sock /\ sock[tsock[r]] = "closing" /\ owner[tsock[r]] = r
    BY <2>1 DEF HandedOver, WorkerType
  <2>3. tsock[r] # h BY <2>2, <1>5
  <2>4. sock'[tsock[r]] = "closing" /\ owner'[tsock[r]] = r BY <2>2, <2>3, <1>6, <1>o
  <2> QED BY <2>4
<1> QED BY <1>9, <1>10, <1>11 DEF HandedOver

\* dispatch_conn_new puts the socket at the end of a queue.
LEMMA PushHandsOver ==
  ASSUME HandedOver, MainType, WorkerType, WorkerType', Push
  PROVE  HandedOver'
<1> DEFINE n == NextThread
           q == queue[n]
<1>1. msock \in Sock /\ n \in Thread /\ sock[msock] = "accepted"
  BY ThreadFacts DEF Push, Main, MainType, WorkerType, HandedOver
<1>2. q \in Seq(Sock) /\ Len(q) \in Nat BY <1>1, Items
<1>3. /\ queue' = [queue EXCEPT ![n] = Append(q, msock)] /\ tpc' = tpc /\ tsock' = tsock
      /\ sock' = [sock EXCEPT ![msock] = "queued"] /\ owner' = [owner EXCEPT ![msock] = n]
      /\ mpc' = "notify"
  BY DEF Push, Main, tvars
<1>4. /\ \A r \in Thread : r # n => queue'[r] = queue[r]
      /\ queue'[n] = Append(q, msock)
      /\ \A s \in Sock : s # msock => sock'[s] = sock[s] /\ owner'[s] = owner[s]
      /\ sock'[msock] = "queued" /\ owner'[msock] = n
  BY <1>1, <1>3 DEF WorkerType
<1>5. /\ Len(queue'[n]) = Len(q) + 1 /\ queue'[n][Len(q) + 1] = msock
      /\ \A k \in 1 .. Len(q) : queue'[n][k] = q[k]
  BY <1>1, <1>2, <1>4, AppendProperties
<1>6. \A r \in Thread, k \in Int : Waits(r, k)' <=> Waits(r, k) BY <1>3 DEF Waits
<1>7. Waits(n, Len(q) + 1)
  <2>1. CASE Len(q) = 0
    <3>1. q = <<>> BY <1>2, <2>1, EmptySeq
    <3> QED BY <1>1, <3>1 DEF Waits, WorkerType
  <2>2. CASE Len(q) # 0 BY <1>2, <2>2 DEF Waits
  <2> QED BY <2>1, <2>2
<1>8. \A r \in Thread : \A k \in 1 .. Len(queue[r]) : Waits(r, k) =>
        queue[r][k] \in Sock /\ queue[r][k] # msock
  BY <1>1, Items, Places
<1>9. QueuedOnce'
  <2>1. ASSUME NEW r \in Thread, NEW k \in 1 .. Len(queue'[r]), Waits(r, k)'
        PROVE  sock'[queue'[r][k]] = "queued" /\ owner'[queue'[r][k]] = r
    <3>1. CASE r = n /\ k = Len(q) + 1 BY <3>1, <1>4, <1>5
    <3>2. CASE k \in 1 .. Len(queue[r])
      <4>1. queue'[r][k] = queue[r][k] /\ Waits(r, k) BY <2>1, <3>2, <1>4, <1>5, <1>6
      <4> QED BY <3>2, <4>1, <1>4, <1>8, Places
    <3>3. (r = n /\ k = Len(q) + 1) \/ k \in 1 .. Len(queue[r]) BY <1>2, <1>4, <1>5
    <3> QED BY <3>1, <3>2, <3>3
  <2>2. ASSUME NEW r \in Thread, NEW j \in 1 .. Len(queue'[r]), NEW k \in 1 .. Len(queue'[r]),
               Waits(r, j)', Waits(r, k)', queue'[r][j] = queue'[r][k]
        PROVE  j = k
    <3>1. CASE r # n BY <2>2, <3>1, <1>4, <1>6, Items, Places
    <3>2. CASE r = n
      <4>1. ASSUME NEW i \in 1 .. Len(queue'[r]), Waits(r, i)'
            PROVE  \/ i = Len(q) + 1 /\ queue'[r][i] = msock
                   \/ i \in 1 .. Len(q) /\ Waits(n, i) /\ queue'[r][i] = q[i] /\ q[i] # msock
        BY <3>2, <4>1, <1>1, <1>2, <1>5, <1>6, <1>8
      <4> QED BY <2>2, <3>2, <4>1, <1>1, Places
    <3> QED BY <3>1, <3>2
  <2>3. ASSUME NEW s \in Sock, sock'[s] = "queued"
        PROVE  \E k \in 1 .. Len(queue'[owner'[s]]) :
                 (k = 1 => tpc'[owner'[s]] \notin {"count", "pop"}) /\ queue'[owner'[s]][k] = s
    <3>1. CASE s = msock
      <4>1. Len(q) + 1 = 1 => tpc'[n] \notin {"count", "pop"} BY <1>3, <1>7 DEF Waits
      <4>2. Len(q) + 1 \in 1 .. Len(queue'[n]) BY <1>2, <1>5
      <4> QED BY <3>1, <4>1, <4>2, <1>4, <1>5
    <3>2. CASE s # msock
      <4>1. sock[s] = "queued" /\ owner[s] \in Thread /\ owner'[s] = owner[s]
        BY <2>3, <3>2, <1>4 DEF WorkerType
      <4>2. PICK k \in 1 .. Len(queue[owner[s]]) : Waits(owner[s], k) /\ queue[owner[s]][k] = s
        BY <4>1, Places
      <4>3. k \in 1 .. Len(queue'[owner[s]]) /\ queue'[owner[s]][k] = s
        <5>1. CASE owner[s] = n BY <4>2, <5>1, <1>2, <1>5
        <5>2. CASE owner[s] # n BY <4>1, <4>2, <5>2, <1>4
        <5> QED BY <5>1, <5>2
      <4> QED BY <4>1, <4>2, <4>3, <1>3 DEF Waits
    <3> QED BY <3>1, <3>2
  <2> QED BY <2>1, <2>2, <2>3, PlacesSuffice
<1>10. \A r \in Thread : tpc'[r] = "close" => sock'[tsock'[r]] = "closing" /\ owner'[tsock'[r]] = r
  BY <1>1, <1>3, <1>4 DEF HandedOver, WorkerType
<1> QED BY <1>3, <1>9, <1>10 DEF HandedOver

\* The worker removes the item that it has taken.
LEMMA PopHandsOver ==
  ASSUME HandedOver, WorkerType, WorkerType', NEW t \in Thread, PopItem(t)
  PROVE  HandedOver'
<1> DEFINE q == queue[t]
<1>1. /\ queue' = [queue EXCEPT ![t] = Tail(q)] /\ tpc[t] = "pop" /\ tpc' = [tpc EXCEPT ![t] = "idle"]
      /\ sock' = sock /\ owner' = owner /\ tsock' = tsock /\ mpc' = mpc /\ msock' = msock
  BY DEF PopItem, Thr, mvars
<1>2. q \in Seq(Sock) /\ q # <<>> BY <1>1 DEF WorkerType
<1>3. /\ Len(q) \in Nat /\ Len(Tail(q)) = Len(q) - 1
      /\ \A k \in 1 .. Len(Tail(q)) : Tail(q)[k] = q[k + 1]
  BY <1>2, HeadTailProperties, EmptySeq
<1>4. /\ queue'[t] = Tail(q) /\ \A r \in Thread : r # t => queue'[r] = queue[r]
      /\ tpc'[t] = "idle" /\ \A r \in Thread : r # t => tpc'[r] = tpc[r]
  BY <1>1 DEF WorkerType
<1>5. /\ \A r \in Thread, k \in Int : r # t => (Waits(r, k)' <=> Waits(r, k))
      /\ \A k \in Int : Waits(t, k)'
      /\ \A k \in Int : k # 1 => Waits(t, k)
      /\ ~Waits(t, 1)
  BY <1>1, <1>4 DEF Waits
<1>6. QueuedOnce'
  <2>1. ASSUME NEW r \in Thread, NEW k \in 1 .. Len(queue'[r]), Waits(r, k)'
        PROVE  sock'[queue'[r][k]] = "queued" /\ owner'[queue'[r][k]] = r
    <3>1. CASE r # t BY <2>1, <3>1, <1>1, <1>4, <1>5, Items, Places
    <3>2. CASE r = t
      <4>1. k + 1 \in 1 .. Len(q) /\ queue'[r][k] = q[k + 1] /\ Waits(t, k + 1)
        BY <3>2, <1>3, <1>4, <1>5
      <4> QED BY <3>2, <4>1, <1>1, Places
    <3> QED BY <3>1, <3>2
  <2>2. ASSUME NEW r \in Thread, NEW j \in 1 .. Len(queue'[r]), NEW k \in 1 .. Len(queue'[r]),
               Waits(r, j)', Waits(r, k)', queue'[r][j] = queue'[r][k]
        PROVE  j = k
    <3>1. CASE r # t BY <2>2, <3>1, <1>1, <1>4, <1>5, Items, Places
    <3>2. CASE r = t
      <4>1. /\ j + 1 \in 1 .. Len(q) /\ queue'[r][j] = q[j + 1] /\ Waits(t, j + 1)
            /\ k + 1 \in 1 .. Len(q) /\ queue'[r][k] = q[k + 1] /\ Waits(t, k + 1)
        BY <3>2, <1>3, <1>4, <1>5
      <4>2. j + 1 = k + 1 BY <2>2, <4>1, Places
      <4> QED BY <4>2, <1>3, <1>4, <3>2
    <3> QED BY <3>1, <3>2
  <2>3. ASSUME NEW s \in Sock, sock'[s] = "queued"
        PROVE  \E k \in 1 .. Len(queue'[owner'[s]]) :
                 (k = 1 => tpc'[owner'[s]] \notin {"count", "pop"}) /\ queue'[owner'[s]][k] = s
    <3>1. sock[s] = "queued" /\ owner[s] \in Thread /\ owner'[s] = owner[s]
      BY <2>3, <1>1 DEF WorkerType
    <3>2. PICK k \in 1 .. Len(queue[owner[s]]) : Waits(owner[s], k) /\ queue[owner[s]][k] = s
      BY <3>1, Places
    <3>3. CASE owner[s] # t
      <4>1. queue'[owner[s]] = queue[owner[s]] /\ (k = 1 => tpc'[owner[s]] \notin {"count", "pop"})
        BY <3>1, <3>2, <3>3, <1>1, <1>4 DEF Waits
      <4> QED BY <3>1, <3>2, <4>1
    <3>4. CASE owner[s] = t
      <4>1. k # 1 /\ k \in 1 .. Len(q) BY <3>2, <3>4, <1>5
      <4>2. k - 1 \in 1 .. Len(queue'[t]) /\ queue'[t][k - 1] = s
        BY <3>2, <3>4, <4>1, <1>3, <1>4
      <4>3. tpc'[owner'[s]] = "idle" BY <3>1, <3>4, <1>4
      <4> QED BY <3>1, <3>4, <4>2, <4>3
    <3> QED BY <3>3, <3>4
  <2> QED BY <2>1, <2>2, <2>3, PlacesSuffice
<1>7. \A r \in Thread : tpc'[r] = "close" => sock'[tsock'[r]] = "closing" /\ owner'[tsock'[r]] = r
  BY <1>1, <1>4 DEF HandedOver
<1> QED BY <1>1, <1>6, <1>7 DEF HandedOver

LEMMA NextHandedOver == MainType /\ WorkerType /\ HandedOver /\ [Next]_vars => HandedOver'
<1> SUFFICES ASSUME MainType, WorkerType, HandedOver, [Next]_vars PROVE HandedOver' OBVIOUS
<1>0. MainType /\ WorkerType /\ WorkerType' /\ HandedOver BY NextWorker
<1>a. /\ mpc = "dispatch" => msock \in Sock /\ sock[msock] = "accepted"
      /\ sock \in [Sock -> {"away", "backlog", "accepted", "queued", "open", "closing", "leaked"}]
      /\ owner \in [Sock -> Thread]
      /\ tpc \in [Thread -> {"idle", "item", "count", "pop", "close", "allow"}]
      /\ tsock \in [Thread -> Sock \cup {NoSock}]
      /\ \A r \in Thread : tpc[r] = "close" =>
           tsock[r] \in Sock /\ sock[tsock[r]] = "closing" /\ owner[tsock[r]] = r
  BY DEF MainType, WorkerType, HandedOver
<1> USE DEF mvars, lvars, qvars, tvars
<1>1. ASSUME NEW s \in Sock, Connect(s) PROVE HandedOver'
  <2>1. /\ queue' = queue /\ owner' = owner /\ tsock' = tsock
        /\ \A r \in Thread : tpc'[r] \in {"count", "pop"} <=> tpc[r] \in {"count", "pop"}
        /\ \A r \in Thread : tpc'[r] = "close" => tpc[r] = "close"
    BY <1>1, <1>a DEF Connect, Main, Thr
  <2>2. \A c \in Sock : sock'[c] # sock[c] =>
          sock[c] \notin {"queued", "closing"} /\ sock'[c] # "queued"
    BY <1>1, <1>a DEF Connect, Main, Thr
  <2>3. mpc' = "dispatch" => sock'[msock'] = "accepted"
    BY <1>1, <1>a DEF Connect, Main, Thr
  <2> QED BY <2>1, <2>2, <2>3, OthersKept
<1>2. ASSUME NEW s \in Sock, Accept(s) PROVE HandedOver'
  <2>1. /\ queue' = queue /\ owner' = owner /\ tsock' = tsock
        /\ \A r \in Thread : tpc'[r] \in {"count", "pop"} <=> tpc[r] \in {"count", "pop"}
        /\ \A r \in Thread : tpc'[r] = "close" => tpc[r] = "close"
    BY <1>2, <1>a DEF Accept, Acceptable, Main, Thr
  <2>2. \A c \in Sock : sock'[c] # sock[c] =>
          sock[c] \notin {"queued", "closing"} /\ sock'[c] # "queued"
    BY <1>2, <1>a DEF Accept, Acceptable, Main, Thr
  <2>3. mpc' = "dispatch" => sock'[msock'] = "accepted"
    BY <1>2, <1>a DEF Accept, Acceptable, Main, Thr
  <2> QED BY <2>1, <2>2, <2>3, OthersKept
<1>3. ASSUME NEW s \in Sock, Reject(s) PROVE HandedOver'
  <2>1. /\ queue' = queue /\ owner' = owner /\ tsock' = tsock
        /\ \A r \in Thread : tpc'[r] \in {"count", "pop"} <=> tpc[r] \in {"count", "pop"}
        /\ \A r \in Thread : tpc'[r] = "close" => tpc[r] = "close"
    BY <1>3, <1>a DEF Reject, Acceptable, Main, Thr
  <2>2. \A c \in Sock : sock'[c] # sock[c] =>
          sock[c] \notin {"queued", "closing"} /\ sock'[c] # "queued"
    BY <1>3, <1>a DEF Reject, Acceptable, Main, Thr
  <2>3. mpc' = "dispatch" => sock'[msock'] = "accepted"
    BY <1>3, <1>a DEF Reject, Acceptable, Main, Thr
  <2> QED BY <2>1, <2>2, <2>3, OthersKept
<1>4. ASSUME NEW s \in Sock, RunOutOfFds(s) PROVE HandedOver'
  <2>1. /\ queue' = queue /\ owner' = owner /\ tsock' = tsock
        /\ \A r \in Thread : tpc'[r] \in {"count", "pop"} <=> tpc[r] \in {"count", "pop"}
        /\ \A r \in Thread : tpc'[r] = "close" => tpc[r] = "close"
    BY <1>4, <1>a DEF RunOutOfFds, Acceptable, Main, Thr
  <2>2. \A c \in Sock : sock'[c] # sock[c] =>
          sock[c] \notin {"queued", "closing"} /\ sock'[c] # "queued"
    BY <1>4, <1>a DEF RunOutOfFds, Acceptable, Main, Thr
  <2>3. mpc' = "dispatch" => sock'[msock'] = "accepted"
    BY <1>4, <1>a DEF RunOutOfFds, Acceptable, Main, Thr
  <2> QED BY <2>1, <2>2, <2>3, OthersKept
<1>5. CASE Disallow
  <2>1. /\ queue' = queue /\ owner' = owner /\ tsock' = tsock
        /\ \A r \in Thread : tpc'[r] \in {"count", "pop"} <=> tpc[r] \in {"count", "pop"}
        /\ \A r \in Thread : tpc'[r] = "close" => tpc[r] = "close"
    BY <1>5, <1>a DEF Disallow, Main, Thr
  <2>2. \A c \in Sock : sock'[c] # sock[c] =>
          sock[c] \notin {"queued", "closing"} /\ sock'[c] # "queued"
    BY <1>5, <1>a DEF Disallow, Main, Thr
  <2>3. mpc' = "dispatch" => sock'[msock'] = "accepted"
    BY <1>5, <1>a DEF Disallow, Main, Thr
  <2> QED BY <2>1, <2>2, <2>3, OthersKept
<1>6. CASE TimerPolls
  <2>1. /\ queue' = queue /\ owner' = owner /\ tsock' = tsock
        /\ \A r \in Thread : tpc'[r] \in {"count", "pop"} <=> tpc[r] \in {"count", "pop"}
        /\ \A r \in Thread : tpc'[r] = "close" => tpc[r] = "close"
    BY <1>6, <1>a DEF TimerPolls, Main, Thr, vars
  <2>2. \A c \in Sock : sock'[c] # sock[c] =>
          sock[c] \notin {"queued", "closing"} /\ sock'[c] # "queued"
    BY <1>6, <1>a DEF TimerPolls, Main, Thr, vars
  <2>3. mpc' = "dispatch" => sock'[msock'] = "accepted"
    BY <1>6, <1>a DEF TimerPolls, Main, Thr, vars
  <2> QED BY <2>1, <2>2, <2>3, OthersKept
<1>7. CASE TimerFires
  <2>1. /\ queue' = queue /\ owner' = owner /\ tsock' = tsock
        /\ \A r \in Thread : tpc'[r] \in {"count", "pop"} <=> tpc[r] \in {"count", "pop"}
        /\ \A r \in Thread : tpc'[r] = "close" => tpc[r] = "close"
    BY <1>7, <1>a DEF TimerFires, Main, Thr
  <2>2. \A c \in Sock : sock'[c] # sock[c] =>
          sock[c] \notin {"queued", "closing"} /\ sock'[c] # "queued"
    BY <1>7, <1>a DEF TimerFires, Main, Thr
  <2>3. mpc' = "dispatch" => sock'[msock'] = "accepted"
    BY <1>7, <1>a DEF TimerFires, Main, Thr
  <2> QED BY <2>1, <2>2, <2>3, OthersKept
<1>8. CASE Push BY <1>8, <1>0, PushHandsOver
<1>9. CASE PushRefused
  <2>1. /\ queue' = queue /\ owner' = owner /\ tsock' = tsock
        /\ \A r \in Thread : tpc'[r] \in {"count", "pop"} <=> tpc[r] \in {"count", "pop"}
        /\ \A r \in Thread : tpc'[r] = "close" => tpc[r] = "close"
    BY <1>9, <1>a DEF PushRefused, Main, Thr
  <2>2. \A c \in Sock : sock'[c] # sock[c] =>
          sock[c] \notin {"queued", "closing"} /\ sock'[c] # "queued"
    BY <1>9, <1>a DEF PushRefused, Main, Thr
  <2>3. mpc' = "dispatch" => sock'[msock'] = "accepted"
    BY <1>9, <1>a DEF PushRefused, Main, Thr
  <2> QED BY <2>1, <2>2, <2>3, OthersKept
<1>10. CASE Notify
  <2>1. /\ queue' = queue /\ owner' = owner /\ tsock' = tsock
        /\ \A r \in Thread : tpc'[r] \in {"count", "pop"} <=> tpc[r] \in {"count", "pop"}
        /\ \A r \in Thread : tpc'[r] = "close" => tpc[r] = "close"
    BY <1>10, <1>a DEF Notify, Main, Thr
  <2>2. \A c \in Sock : sock'[c] # sock[c] =>
          sock[c] \notin {"queued", "closing"} /\ sock'[c] # "queued"
    BY <1>10, <1>a DEF Notify, Main, Thr
  <2>3. mpc' = "dispatch" => sock'[msock'] = "accepted"
    BY <1>10, <1>a DEF Notify, Main, Thr
  <2> QED BY <2>1, <2>2, <2>3, OthersKept
<1>11. ASSUME NEW t \in Thread, Wake(t) PROVE HandedOver'
  <2>1. /\ queue' = queue /\ owner' = owner /\ tsock' = tsock
        /\ \A r \in Thread : tpc'[r] \in {"count", "pop"} <=> tpc[r] \in {"count", "pop"}
        /\ \A r \in Thread : tpc'[r] = "close" => tpc[r] = "close"
    BY <1>11, <1>a DEF Wake, Main, Thr
  <2>2. \A c \in Sock : sock'[c] # sock[c] =>
          sock[c] \notin {"queued", "closing"} /\ sock'[c] # "queued"
    BY <1>11, <1>a DEF Wake, Main, Thr
  <2>3. mpc' = "dispatch" => sock'[msock'] = "accepted"
    BY <1>11, <1>a DEF Wake, Main, Thr
  <2> QED BY <2>1, <2>2, <2>3, OthersKept
<1>12. ASSUME NEW t \in Thread, ConnNew(t) PROVE HandedOver'
  <2>1. /\ tpc[t] = "item" /\ tpc' = [tpc EXCEPT ![t] = "count"]
        /\ sock' = [sock EXCEPT ![Head(queue[t])] = "open"] /\ queue' = queue /\ owner' = owner
        /\ tsock' = tsock /\ mpc' = mpc /\ msock' = msock
    BY <1>12 DEF ConnNew, Thr
  <2>2. mpc = "dispatch" => msock \in Sock BY <1>0 DEF MainType
  <2>3. \A c \in Sock : owner'[c] # owner[c] => c = Head(queue[t]) BY <2>1, <1>a
  <2> QED BY <1>0, <2>1, <2>2, <2>3, HeadTaken
<1>13. ASSUME NEW t \in Thread, ConnNewFails(t) PROVE HandedOver'
  <2>1. /\ tpc[t] = "item" /\ tpc' = [tpc EXCEPT ![t] = "pop"]
        /\ sock' = [sock EXCEPT ![Head(queue[t])] = "away"] /\ queue' = queue
        /\ owner' = [owner EXCEPT ![Head(queue[t])] = 0]
        /\ tsock' = tsock /\ mpc' = mpc /\ msock' = msock
    BY <1>13 DEF ConnNewFails, Thr
  <2>2. mpc = "dispatch" => msock \in Sock BY <1>0 DEF MainType
  <2>3. \A c \in Sock : owner'[c] # owner[c] => c = Head(queue[t]) BY <2>1, <1>a
  <2> QED BY <1>0, <2>1, <2>2, <2>3, HeadTaken
<1>14. ASSUME NEW t \in Thread, Count(t) PROVE HandedOver'
  <2>1. /\ queue' = queue /\ owner' = owner /\ tsock' = tsock
        /\ \A r \in Thread : tpc'[r] \in {"count", "pop"} <=> tpc[r] \in {"count", "pop"}
        /\ \A r \in Thread : tpc'[r] = "close" => tpc[r] = "close"
    BY <1>14, <1>a DEF Count, Main, Thr
  <2>2. \A c \in Sock : sock'[c] # sock[c] =>
          sock[c] \notin {"queued", "closing"} /\ sock'[c] # "queued"
    BY <1>14, <1>a DEF Count, Main, Thr
  <2>3. mpc' = "dispatch" => sock'[msock'] = "accepted"
    BY <1>14, <1>a DEF Count, Main, Thr
  <2> QED BY <2>1, <2>2, <2>3, OthersKept
<1>15. ASSUME NEW t \in Thread, PopItem(t) PROVE HandedOver' BY <1>15, <1>0, PopHandsOver
<1>16. ASSUME NEW t \in Thread, CloseFd(t) PROVE HandedOver'
  <2>1. /\ queue' = queue /\ owner' = [owner EXCEPT ![tsock[t]] = 0]
        /\ tsock' = [tsock EXCEPT ![t] = NoSock]
        /\ tpc[t] = "close" /\ tpc' = [tpc EXCEPT ![t] = "allow"]
        /\ sock' = [sock EXCEPT ![tsock[t]] = "away"]
        /\ mpc' = mpc /\ msock' = msock
    BY <1>16 DEF CloseFd, Thr
  <2>2. tsock[t] \in Sock /\ sock[tsock[t]] = "closing" /\ owner[tsock[t]] = t BY <1>a, <2>1
  <2>3. QueuedOnce' BY <1>0, <1>a, <2>1, <2>2, QueuesKept
  <2>4. mpc' = "dispatch" => sock'[msock'] = "accepted" BY <1>a, <2>1, <2>2
  <2>5. \A r \in Thread : tpc'[r] = "close" => sock'[tsock'[r]] = "closing" /\ owner'[tsock'[r]] = r
    BY <1>a, <2>1, <2>2
  <2> QED BY <2>3, <2>4, <2>5 DEF HandedOver
<1>17. ASSUME NEW t \in Thread, AllowNew(t) PROVE HandedOver'
  <2>1. /\ queue' = queue /\ owner' = owner /\ tsock' = tsock
        /\ \A r \in Thread : tpc'[r] \in {"count", "pop"} <=> tpc[r] \in {"count", "pop"}
        /\ \A r \in Thread : tpc'[r] = "close" => tpc[r] = "close"
    BY <1>17, <1>a DEF AllowNew, Main, Thr
  <2>2. \A c \in Sock : sock'[c] # sock[c] =>
          sock[c] \notin {"queued", "closing"} /\ sock'[c] # "queued"
    BY <1>17, <1>a DEF AllowNew, Main, Thr
  <2>3. mpc' = "dispatch" => sock'[msock'] = "accepted"
    BY <1>17, <1>a DEF AllowNew, Main, Thr
  <2> QED BY <2>1, <2>2, <2>3, OthersKept
<1>18. ASSUME NEW t \in Thread, NEW s \in Sock, Uncount(t, s) PROVE HandedOver'
  <2>1. /\ queue' = queue /\ owner' = owner /\ tsock' = [tsock EXCEPT ![t] = s]
        /\ tpc[t] = "idle" /\ tpc' = [tpc EXCEPT ![t] = "close"]
        /\ sock[s] = "open" /\ owner[s] = t /\ sock' = [sock EXCEPT ![s] = "closing"]
        /\ mpc' = mpc /\ msock' = msock
    BY <1>18 DEF Uncount, Thr
  <2>2. QueuedOnce' BY <1>0, <1>a, <2>1, QueuesKept
  <2>3. mpc' = "dispatch" => sock'[msock'] = "accepted" BY <1>a, <2>1
  <2>4. \A r \in Thread : tpc'[r] = "close" => sock'[tsock'[r]] = "closing" /\ owner'[tsock'[r]] = r
    BY <1>a, <2>1
  <2> QED BY <2>2, <2>3, <2>4 DEF HandedOver
<1>20. ASSUME NEW s \in Sock, NoNonblock(s) PROVE HandedOver'
  <2>1. /\ queue' = queue /\ owner' = owner /\ tsock' = tsock
        /\ \A r \in Thread : tpc'[r] \in {"count", "pop"} <=> tpc[r] \in {"count", "pop"}
        /\ \A r \in Thread : tpc'[r] = "close" => tpc[r] = "close"
    BY <1>20, <1>a DEF NoNonblock, Acceptable, Main, Thr
  <2>2. \A c \in Sock : sock'[c] # sock[c] =>
          sock[c] \notin {"queued", "closing"} /\ sock'[c] # "queued"
    BY <1>20, <1>a DEF NoNonblock, Acceptable, Main, Thr
  <2>3. mpc' = "dispatch" => sock'[msock'] = "accepted"
    BY <1>20, <1>a DEF NoNonblock, Acceptable, Main, Thr
  <2> QED BY <2>1, <2>2, <2>3, OthersKept
<1>21. CASE NotifyFails
  <2>1. /\ queue' = queue /\ owner' = owner /\ tsock' = tsock
        /\ \A r \in Thread : tpc'[r] \in {"count", "pop"} <=> tpc[r] \in {"count", "pop"}
        /\ \A r \in Thread : tpc'[r] = "close" => tpc[r] = "close"
    BY <1>21, <1>a DEF NotifyFails, Main, Thr
  <2>2. \A c \in Sock : sock'[c] # sock[c] =>
          sock[c] \notin {"queued", "closing"} /\ sock'[c] # "queued"
    BY <1>21, <1>a DEF NotifyFails, Main, Thr
  <2>3. mpc' = "dispatch" => sock'[msock'] = "accepted"
    BY <1>21, <1>a DEF NotifyFails, Main, Thr
  <2> QED BY <2>1, <2>2, <2>3, OthersKept
<1>22. ASSUME NEW t \in Thread, WakeUnread(t) PROVE HandedOver'
  <2>1. /\ queue' = queue /\ owner' = owner /\ tsock' = tsock
        /\ \A r \in Thread : tpc'[r] \in {"count", "pop"} <=> tpc[r] \in {"count", "pop"}
        /\ \A r \in Thread : tpc'[r] = "close" => tpc[r] = "close"
    BY <1>22, <1>a DEF WakeUnread, Main, Thr
  <2>2. \A c \in Sock : sock'[c] # sock[c] =>
          sock[c] \notin {"queued", "closing"} /\ sock'[c] # "queued"
    BY <1>22, <1>a DEF WakeUnread, Main, Thr
  <2>3. mpc' = "dispatch" => sock'[msock'] = "accepted"
    BY <1>22, <1>a DEF WakeUnread, Main, Thr
  <2> QED BY <2>1, <2>2, <2>3, OthersKept
<1>19. CASE UNCHANGED vars
  <2>1. /\ queue' = queue /\ owner' = owner /\ tsock' = tsock
        /\ \A r \in Thread : tpc'[r] \in {"count", "pop"} <=> tpc[r] \in {"count", "pop"}
        /\ \A r \in Thread : tpc'[r] = "close" => tpc[r] = "close"
    BY <1>19, <1>a DEF vars
  <2>2. \A c \in Sock : sock'[c] # sock[c] =>
          sock[c] \notin {"queued", "closing"} /\ sock'[c] # "queued"
    BY <1>19, <1>a DEF vars
  <2>3. mpc' = "dispatch" => sock'[msock'] = "accepted"
    BY <1>19, <1>a DEF vars
  <2> QED BY <2>1, <2>2, <2>3, OthersKept
<1> QED
  BY <1>1, <1>2, <1>3, <1>4, <1>5, <1>6, <1>7, <1>8, <1>9, <1>10, <1>11, <1>12, <1>13, <1>14,
     <1>15, <1>16, <1>17, <1>18, <1>19, <1>20, <1>21, <1>22 DEF Next, MainStep, WorkerStep

\* Every accepted socket waits in one place until it is made a connection of,
\* and only one connection is.
THEOREM AlwaysQueuedOnce == Spec => []QueuedOnce
<1>1. Init => HandedOver BY EmptySeq DEF Init, HandedOver, QueuedOnce
<1>2. HandedOver => QueuedOnce BY DEF HandedOver
<1> QED BY <1>1, <1>2, InitMain, NextMain, InitWorker, NextWorker, NextHandedOver, PTL DEF Spec

----------------------------------------------------------------------------
(* What stats.curr_conns counts *)

Open == {s \in Sock : sock[s] = "open"}
Counting == {t \in Thread : tpc[t] = "count"}

LEMMA SameCount ==
  ASSUME CurrConnsExact, curr' = curr, Open' = Open, Counting' = Counting
  PROVE  CurrConnsExact'
BY DEF CurrConnsExact, Open, Counting

LEMMA FiniteCounts ==
  /\ IsFiniteSet(Open) /\ Cardinality(Open) \in Nat
  /\ IsFiniteSet(Counting) /\ Cardinality(Counting) \in Nat
<1>1. IsFiniteSet(Open) BY SockAssumption, FS_Subset DEF Open
<1>2. IsFiniteSet(Thread) BY FS_Interval, ThreadsAssumption DEF Thread
<1>3. IsFiniteSet(Counting) BY <1>2, FS_Subset DEF Counting
<1> QED BY <1>1, <1>3, FS_CardinalityType

LEMMA HeadQueued ==
  ASSUME HandedOver, WorkerType, NEW t \in Thread, tpc[t] = "item"
  PROVE  Head(queue[t]) \in Sock /\ sock[Head(queue[t])] = "queued"
<1>1. queue[t] \in Seq(Sock) /\ queue[t] # <<>> BY DEF WorkerType
<1>2. Len(queue[t]) \in Nat \ {0} /\ Head(queue[t]) = queue[t][1] /\ Head(queue[t]) \in Sock
  BY <1>1, EmptySeq, HeadTailProperties
<1>3. Waits(t, 1) BY DEF Waits
<1> QED BY <1>2, <1>3, Places

LEMMA NextCount ==
  MainType /\ WorkerType /\ HandedOver /\ CurrConnsExact /\ [Next]_vars => CurrConnsExact'
<1> SUFFICES ASSUME MainType, WorkerType, HandedOver, CurrConnsExact, [Next]_vars
             PROVE  CurrConnsExact'
  OBVIOUS
<1>0. WorkerType /\ HandedOver OBVIOUS
<1>a. /\ mpc = "dispatch" => msock \in Sock /\ sock[msock] = "accepted"
      /\ sock \in [Sock -> {"away", "backlog", "accepted", "queued", "open", "closing", "leaked"}]
      /\ tpc \in [Thread -> {"idle", "item", "count", "pop", "close", "allow"}]
      /\ \A r \in Thread : tpc[r] = "close" => tsock[r] \in Sock /\ sock[tsock[r]] = "closing"
      /\ curr \in Int
  BY DEF MainType, WorkerType, HandedOver
<1>f. /\ IsFiniteSet(Open) /\ Cardinality(Open) \in Nat
      /\ IsFiniteSet(Counting) /\ Cardinality(Counting) \in Nat
      /\ curr = 1 + Cardinality(Open) - Cardinality(Counting)
  BY FiniteCounts DEF CurrConnsExact, Open, Counting
<1>g. CurrConnsExact' <=> curr' = 1 + Cardinality(Open') - Cardinality(Counting')
  BY DEF CurrConnsExact, Open, Counting
<1> USE DEF mvars, lvars, qvars, tvars
<1>1. ASSUME NEW s \in Sock, Connect(s) PROVE CurrConnsExact'
  <2>1. curr' = curr /\ Open' = Open BY <1>1, <1>a DEF Connect, Main, Thr, Open
  <2>2. Counting' = Counting BY <1>1, <1>a DEF Connect, Main, Thr, Counting
  <2> QED BY <2>1, <2>2, SameCount
<1>2. ASSUME NEW s \in Sock, Accept(s) PROVE CurrConnsExact'
  <2>1. curr' = curr /\ Open' = Open BY <1>2, <1>a DEF Accept, Acceptable, Main, Thr, Open
  <2>2. Counting' = Counting BY <1>2, <1>a DEF Accept, Acceptable, Main, Thr, Counting
  <2> QED BY <2>1, <2>2, SameCount
<1>3. ASSUME NEW s \in Sock, Reject(s) PROVE CurrConnsExact'
  <2>1. curr' = curr /\ Open' = Open BY <1>3, <1>a DEF Reject, Acceptable, Main, Thr, Open
  <2>2. Counting' = Counting BY <1>3, <1>a DEF Reject, Acceptable, Main, Thr, Counting
  <2> QED BY <2>1, <2>2, SameCount
<1>4. ASSUME NEW s \in Sock, RunOutOfFds(s) PROVE CurrConnsExact'
  <2>1. curr' = curr /\ Open' = Open BY <1>4, <1>a DEF RunOutOfFds, Acceptable, Main, Thr, Open
  <2>2. Counting' = Counting BY <1>4, <1>a DEF RunOutOfFds, Acceptable, Main, Thr, Counting
  <2> QED BY <2>1, <2>2, SameCount
<1>5. CASE Disallow
  <2>1. curr' = curr /\ Open' = Open BY <1>5, <1>a DEF Disallow, Main, Thr, Open
  <2>2. Counting' = Counting BY <1>5, <1>a DEF Disallow, Main, Thr, Counting
  <2> QED BY <2>1, <2>2, SameCount
<1>6. CASE TimerPolls
  <2>1. curr' = curr /\ Open' = Open BY <1>6, <1>a DEF TimerPolls, Main, Thr, vars, Open
  <2>2. Counting' = Counting BY <1>6, <1>a DEF TimerPolls, Main, Thr, vars, Counting
  <2> QED BY <2>1, <2>2, SameCount
<1>7. CASE TimerFires
  <2>1. curr' = curr /\ Open' = Open BY <1>7, <1>a DEF TimerFires, Main, Thr, Open
  <2>2. Counting' = Counting BY <1>7, <1>a DEF TimerFires, Main, Thr, Counting
  <2> QED BY <2>1, <2>2, SameCount
<1>8. CASE Push
  <2>1. curr' = curr /\ Open' = Open BY <1>8, <1>a DEF Push, Main, Thr, Open
  <2>2. Counting' = Counting BY <1>8, <1>a DEF Push, Main, Thr, Counting
  <2> QED BY <2>1, <2>2, SameCount
<1>9. CASE PushRefused
  <2>1. curr' = curr /\ Open' = Open BY <1>9, <1>a DEF PushRefused, Main, Thr, Open
  <2>2. Counting' = Counting BY <1>9, <1>a DEF PushRefused, Main, Thr, Counting
  <2> QED BY <2>1, <2>2, SameCount
<1>10. CASE Notify
  <2>1. curr' = curr /\ Open' = Open BY <1>10, <1>a DEF Notify, Main, Thr, Open
  <2>2. Counting' = Counting BY <1>10, <1>a DEF Notify, Main, Thr, Counting
  <2> QED BY <2>1, <2>2, SameCount
<1>11. ASSUME NEW t \in Thread, Wake(t) PROVE CurrConnsExact'
  <2>1. curr' = curr /\ Open' = Open BY <1>11, <1>a DEF Wake, Main, Thr, Open
  <2>2. Counting' = Counting BY <1>11, <1>a DEF Wake, Main, Thr, Counting
  <2> QED BY <2>1, <2>2, SameCount
<1>12. ASSUME NEW t \in Thread, ConnNew(t) PROVE CurrConnsExact'
  <2>1. tpc[t] = "item" BY <1>12 DEF ConnNew, Thr
  <2>2. Head(queue[t]) \in Sock /\ sock[Head(queue[t])] = "queued" BY <2>1, <1>0, HeadQueued
  <2>3. Open' = Open \cup {Head(queue[t])} /\ Head(queue[t]) \notin Open
    BY <1>12, <2>2, <1>a DEF ConnNew, Open
  <2>4. Counting' = Counting \cup {t} /\ t \notin Counting
    BY <1>12, <2>1, <1>a DEF ConnNew, Thr, Counting
  <2>5. Cardinality(Open') = Cardinality(Open) + 1 BY <2>3, <1>f, FS_AddElement
  <2>6. Cardinality(Counting') = Cardinality(Counting) + 1 BY <2>4, <1>f, FS_AddElement
  <2>7. curr' = curr BY <1>12 DEF ConnNew
  <2> QED BY <2>5, <2>6, <2>7, <1>f, <1>g
<1>13. ASSUME NEW t \in Thread, ConnNewFails(t) PROVE CurrConnsExact'
  <2>1. tpc[t] = "item" BY <1>13 DEF ConnNewFails, Thr
  <2>2. Head(queue[t]) \in Sock /\ sock[Head(queue[t])] = "queued" BY <2>1, <1>0, HeadQueued
  <2>3. curr' = curr /\ Open' = Open BY <1>13, <2>2, <1>a DEF ConnNewFails, Open
  <2>4. Counting' = Counting BY <1>13, <2>1, <1>a DEF ConnNewFails, Thr, Counting
  <2> QED BY <2>3, <2>4, SameCount
<1>14. ASSUME NEW t \in Thread, Count(t) PROVE CurrConnsExact'
  <2>1. curr' = curr + 1 /\ Open' = Open BY <1>14 DEF Count, Open
  <2>2. Counting' = Counting \ {t} /\ t \in Counting BY <1>14, <1>a DEF Count, Thr, Counting
  <2>3. Cardinality(Counting') = Cardinality(Counting) - 1 BY <2>2, <1>f, FS_RemoveElement
  <2> QED BY <2>1, <2>3, <1>f, <1>g
<1>15. ASSUME NEW t \in Thread, PopItem(t) PROVE CurrConnsExact'
  <2>1. curr' = curr /\ Open' = Open BY <1>15, <1>a DEF PopItem, Main, Thr, Open
  <2>2. Counting' = Counting BY <1>15, <1>a DEF PopItem, Main, Thr, Counting
  <2> QED BY <2>1, <2>2, SameCount
<1>16. ASSUME NEW t \in Thread, CloseFd(t) PROVE CurrConnsExact'
  <2>1. curr' = curr /\ Open' = Open BY <1>16, <1>a DEF CloseFd, Main, Thr, Open
  <2>2. Counting' = Counting BY <1>16, <1>a DEF CloseFd, Main, Thr, Counting
  <2> QED BY <2>1, <2>2, SameCount
<1>17. ASSUME NEW t \in Thread, AllowNew(t) PROVE CurrConnsExact'
  <2>1. curr' = curr /\ Open' = Open BY <1>17, <1>a DEF AllowNew, Main, Thr, Open
  <2>2. Counting' = Counting BY <1>17, <1>a DEF AllowNew, Main, Thr, Counting
  <2> QED BY <2>1, <2>2, SameCount
<1>18. ASSUME NEW t \in Thread, NEW s \in Sock, Uncount(t, s) PROVE CurrConnsExact'
  <2>1. Open' = Open \ {s} /\ s \in Open BY <1>18, <1>a DEF Uncount, Open
  <2>2. Counting' = Counting BY <1>18, <1>a DEF Uncount, Thr, Counting
  <2>3. Cardinality(Open') = Cardinality(Open) - 1 BY <2>1, <1>f, FS_RemoveElement
  <2>4. curr' = curr - 1 BY <1>18 DEF Uncount
  <2> QED BY <2>2, <2>3, <2>4, <1>f, <1>g
<1>20. ASSUME NEW s \in Sock, NoNonblock(s) PROVE CurrConnsExact'
  <2>1. curr' = curr /\ Open' = Open BY <1>20, <1>a DEF NoNonblock, Acceptable, Main, Thr, Open
  <2>2. Counting' = Counting BY <1>20, <1>a DEF NoNonblock, Acceptable, Main, Thr, Counting
  <2> QED BY <2>1, <2>2, SameCount
<1>21. CASE NotifyFails
  <2>1. curr' = curr /\ Open' = Open BY <1>21, <1>a DEF NotifyFails, Main, Thr, Open
  <2>2. Counting' = Counting BY <1>21, <1>a DEF NotifyFails, Main, Thr, Counting
  <2> QED BY <2>1, <2>2, SameCount
<1>22. ASSUME NEW t \in Thread, WakeUnread(t) PROVE CurrConnsExact'
  <2>1. curr' = curr /\ Open' = Open BY <1>22, <1>a DEF WakeUnread, Main, Thr, Open
  <2>2. Counting' = Counting BY <1>22, <1>a DEF WakeUnread, Main, Thr, Counting
  <2> QED BY <2>1, <2>2, SameCount
<1>19. CASE UNCHANGED vars
  <2>1. curr' = curr /\ Open' = Open BY <1>19, <1>a DEF vars, Open
  <2>2. Counting' = Counting BY <1>19, <1>a DEF vars, Counting
  <2> QED BY <2>1, <2>2, SameCount
<1> QED
  BY <1>1, <1>2, <1>3, <1>4, <1>5, <1>6, <1>7, <1>8, <1>9, <1>10, <1>11, <1>12, <1>13, <1>14,
     <1>15, <1>16, <1>17, <1>18, <1>19, <1>20, <1>21, <1>22 DEF Next, MainStep, WorkerStep

\* The statistics count the connections that are served, for any number of
\* clients and of workers that are just counting.
THEOREM AlwaysExact == Spec => []CurrConnsExact
<1>1. Init => CurrConnsExact
  <2> SUFFICES ASSUME Init PROVE CurrConnsExact OBVIOUS
  <2>1. Open = {} /\ Counting = {} /\ curr = 1 BY DEF Init, Open, Counting
  <2> QED BY <2>1, FS_EmptySet DEF CurrConnsExact, Open, Counting
<1>2. Init => HandedOver BY EmptySeq DEF Init, HandedOver, QueuedOnce
<1> QED BY <1>1, <1>2, InitMain, NextMain, InitWorker, NextWorker, NextHandedOver, NextCount, PTL
        DEF Spec
=============================================================================
