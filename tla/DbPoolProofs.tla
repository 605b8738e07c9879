---------------------------- MODULE DbPoolProofs ----------------------------
(***************************************************************************)
(* For any number of threads and connections: a connection is in the hands *)
(* of one thread at a time, busy exactly while it is, and never null when  *)
(* a statement is run; and the pool implements Lease.                      *)
(*                                                                         *)
(* Exclusive alone is not inductive: that a connection being taken is in   *)
(* nobody's hands follows from its status, hence from BusyIsHeld, which in *)
(* turn needs Exclusive when a connection is given back.                   *)
(***************************************************************************)
EXTENDS DbPool, TLAPS

\* Calls are under way only between db_init and db_end.
Quiet == phase # "ready" => \A t \in Thread : pc[t] = "idle"

Inv == TypeOK /\ Exclusive /\ BusyIsHeld /\ NeverOnNull /\ Quiet

\* The steps that move one thread along without the mutex.
Private(t) ==
  Sleep(t) \/ Awake(t) \/ Exhausted(t) \/ Ping(t) \/ Create(t) \/ Exe(t) \/ Call(t)

GiveBack(t) == GiveUp(t) \/ Release(t)

LEMMA NextCases ==
  Next <=> \/ OpenNext \/ OpenFails \/ InitDone \/ End
           \/ \E t \in Thread : \/ Private(t) \/ GiveBack(t)
                                \/ \E c \in Conn : Take(t, c)
           \/ \E c \in Conn : ServerDrops(c)
  BY DEF Next, Work, Private, GiveBack

----------------------------------------------------------------------------
LEMMA TypeStep == TypeOK /\ [Next]_vars => TypeOK'
<1> SUFFICES ASSUME TypeOK, [Next]_vars PROVE TypeOK'
  OBVIOUS
<1> USE DEF TypeOK
<1>1. CASE OpenNext
  <2>1. ready \in Conn /\ ready' \in 0 .. NumConns
    BY <1>1, ConnsAssumption DEF OpenNext, Conn
  <2> QED BY <1>1, <2>1 DEF OpenNext, tvars
<1>2. CASE OpenFails \/ InitDone
  BY <1>2 DEF OpenFails, InitDone, tvars
<1>3. CASE End
  BY <1>3 DEF End, tvars
<1>4. ASSUME NEW t \in Thread, Call(t) \/ Awake(t) \/ Exhausted(t) \/ Ping(t) \/ Exe(t)
      PROVE TypeOK'
  BY <1>4, MaxTryAssumption DEF Call, Awake, Exhausted, Ping, Exe, Goes
<1>5. ASSUME NEW t \in Thread, Sleep(t) PROVE TypeOK'
  <2>1. tries' \in [Thread -> 0 .. MaxTry]
    BY <1>5, MaxTryAssumption DEF Sleep
  <2> QED BY <1>5, <2>1 DEF Sleep, Goes
<1>6. ASSUME NEW t \in Thread, Create(t) PROVE TypeOK'
  BY <1>6 DEF Create, Goes
<1>7. ASSUME NEW t \in Thread, GiveBack(t) PROVE TypeOK'
  BY <1>7 DEF GiveBack, GiveUp, Release, Goes
<1>8. ASSUME NEW t \in Thread, NEW c \in Conn, Take(t, c) PROVE TypeOK'
  <2>1. tries' \in [Thread -> 0 .. MaxTry]
    BY <1>8, MaxTryAssumption DEF Take
  <2> QED BY <1>8, <2>1 DEF Take, Goes
<1>9. ASSUME NEW c \in Conn, ServerDrops(c) PROVE TypeOK'
  BY <1>9 DEF ServerDrops, tvars
<1>10. CASE UNCHANGED vars
  BY <1>10 DEF vars, tvars
<1> QED
  BY NextCases, <1>1, <1>2, <1>3, <1>4, <1>5, <1>6, <1>7, <1>8, <1>9, <1>10 DEF Private

LEMMA InvInit == Init => Inv
  BY ConnsAssumption, MaxTryAssumption
  DEF Init, Inv, TypeOK, Exclusive, BusyIsHeld, NeverOnNull, Quiet, Holds, Conn

----------------------------------------------------------------------------
\* What a step that neither takes nor gives back a connection leaves alone.
LEMMA PrivateStep ==
  ASSUME TypeOK, NEW t \in Thread, Private(t)
  PROVE  /\ UNCHANGED <<status, idx>>
         /\ \A u \in Thread : Holds(u)' = Holds(u)
         /\ \A u \in Thread : u # t => pc'[u] = pc[u]
         /\ \A c \in Conn : c # idx[t] => link'[c] = link[c]
         /\ link' # link => Holds(t)
<1> USE DEF TypeOK, Holds
<1>1. CASE Call(t) \/ Sleep(t) \/ Awake(t) \/ Exhausted(t) \/ Ping(t) \/ Exe(t)
  BY <1>1 DEF Call, Sleep, Awake, Exhausted, Ping, Exe, Goes
<1>2. CASE Create(t)
  BY <1>2 DEF Create, Goes
<1> QED BY <1>1, <1>2 DEF Private

\* Whoever pings or runs a statement after such a step has a connection.
LEMMA PrivateNotNull ==
  ASSUME TypeOK, NeverOnNull, NEW t \in Thread, Private(t),
         pc'[t] \in {"ping", "exe"}
  PROVE  link'[idx[t]] # "null"
<1> USE DEF TypeOK
<1>1. CASE Call(t) \/ Sleep(t) \/ Awake(t) \/ Exhausted(t) \/ Exe(t)
  BY <1>1 DEF Call, Sleep, Awake, Exhausted, Exe, Goes
<1>2. CASE Ping(t)
  BY <1>2 DEF Ping, Goes, NeverOnNull
<1>3. CASE Create(t)
  BY <1>3 DEF Create, Goes
<1> QED BY <1>1, <1>2, <1>3 DEF Private

\* A step while no call is under way keeps the invariant.
LEMMA QuietStep ==
  ASSUME Inv, TypeOK', OpenNext \/ OpenFails \/ InitDone \/ End
  PROVE  Inv'
<1> USE DEF Inv, TypeOK
<1>1. \A t \in Thread : pc[t] = "idle" /\ pc'[t] = "idle"
  BY DEF OpenNext, OpenFails, InitDone, End, Quiet, tvars
<1>2. \A t \in Thread : ~Holds(t) /\ ~Holds(t)'
  BY <1>1 DEF Holds
<1>3. \A c \in Conn : status[c] # "BUSY"
  BY <1>2 DEF BusyIsHeld
<1>4. \A c \in Conn : status'[c] # "BUSY"
  <2>1. CASE OpenNext
    BY <1>3, <2>1 DEF OpenNext
  <2>2. CASE OpenFails \/ InitDone
    BY <1>3, <2>2 DEF OpenFails, InitDone
  <2>3. CASE End
    BY <2>3 DEF End
  <2> QED BY <2>1, <2>2, <2>3
<1>5. Exclusive' /\ BusyIsHeld'
  BY <1>2, <1>4 DEF Exclusive, BusyIsHeld
<1>6. NeverOnNull' /\ Quiet'
  BY <1>1 DEF NeverOnNull, Quiet
<1> QED BY <1>5, <1>6

\* Taking an idle connection keeps the invariant.
LEMMA TakeStep ==
  ASSUME Inv, TypeOK', NEW t \in Thread, NEW c \in Conn, Take(t, c)
  PROVE  Inv'
<1> USE DEF Inv, TypeOK
<1>1. /\ pc[t] = "alloc" /\ pc'[t] \in {"create", "ping"}
      /\ pc'[t] = "ping" => link[c] # "null"
      /\ \A u \in Thread : u # t => pc'[u] = pc[u] /\ idx'[u] = idx[u]
      /\ idx'[t] = c /\ UNCHANGED <<link, phase>>
      /\ status[c] = "IDE" /\ status' = [status EXCEPT ![c] = "BUSY"]
  BY DEF Take, Goes
<1>2. /\ ~Holds(t) /\ Holds(t)'
      /\ \A u \in Thread : u # t => Holds(u)' = Holds(u)
  BY <1>1 DEF Holds
<1>3. \A u \in Thread : Holds(u) => idx[u] # c
  BY <1>1 DEF BusyIsHeld
<1>4. Exclusive'
  BY <1>1, <1>2, <1>3 DEF Exclusive
<1>5. BusyIsHeld'
  <2> SUFFICES ASSUME NEW d \in Conn
               PROVE  status'[d] = "BUSY" <=> \E u \in Thread : Holds(u)' /\ idx'[u] = d
    BY DEF BusyIsHeld
  <2>1. CASE d = c
    BY <1>1, <1>2, <2>1
  <2>2. CASE d # c
    <3>1. status'[d] = status[d]
      BY <1>1, <2>2
    <3>2. \A u \in Thread : (Holds(u)' /\ idx'[u] = d) <=> (Holds(u) /\ idx[u] = d)
      BY <1>1, <1>2, <2>2
    <3> QED BY <3>1, <3>2 DEF BusyIsHeld
  <2> QED BY <2>1, <2>2
<1>6. NeverOnNull'
  BY <1>1 DEF NeverOnNull
<1>7. Quiet'
  BY <1>1 DEF Quiet
<1> QED BY <1>4, <1>5, <1>6, <1>7

\* Giving a connection back keeps the invariant.
LEMMA GiveBackStep ==
  ASSUME Inv, TypeOK', NEW t \in Thread, GiveBack(t)
  PROVE  Inv'
<1> USE DEF Inv, TypeOK
<1>1. /\ pc[t] \in {"giveup", "release"} /\ pc'[t] = "idle"
      /\ \A u \in Thread : u # t => pc'[u] = pc[u]
      /\ UNCHANGED <<idx, link, phase>>
      /\ status' = [status EXCEPT ![idx[t]] = "IDE"]
  BY DEF GiveBack, GiveUp, Release, Goes
<1>2. /\ Holds(t) /\ ~Holds(t)'
      /\ \A u \in Thread : u # t => Holds(u)' = Holds(u)
  BY <1>1 DEF Holds
<1>3. Exclusive'
  BY <1>1, <1>2 DEF Exclusive
<1>4. BusyIsHeld'
  <2> SUFFICES ASSUME NEW d \in Conn
               PROVE  status'[d] = "BUSY" <=> \E u \in Thread : Holds(u)' /\ idx'[u] = d
    BY DEF BusyIsHeld
  <2>1. CASE d = idx[t]
    <3>1. status'[d] # "BUSY"
      BY <1>1, <2>1
    <3>2. \A u \in Thread : Holds(u)' => idx'[u] # d
      BY <1>1, <1>2, <2>1 DEF Exclusive
    <3> QED BY <3>1, <3>2
  <2>2. CASE d # idx[t]
    <3>1. status'[d] = status[d]
      BY <1>1, <2>2
    <3>2. \A u \in Thread : (Holds(u)' /\ idx'[u] = d) <=> (Holds(u) /\ idx[u] = d)
      BY <1>1, <1>2, <2>2
    <3> QED BY <3>1, <3>2 DEF BusyIsHeld
  <2> QED BY <2>1, <2>2
<1>5. NeverOnNull'
  BY <1>1 DEF NeverOnNull
<1>6. Quiet'
  BY <1>1 DEF Quiet
<1> QED BY <1>3, <1>4, <1>5, <1>6

\* Every other step of a thread keeps the invariant.
LEMMA PrivateKeeps ==
  ASSUME Inv, TypeOK', NEW t \in Thread, Private(t)
  PROVE  Inv'
<1> USE DEF Inv, TypeOK
<1>1. /\ UNCHANGED <<status, idx>>
      /\ \A u \in Thread : Holds(u)' = Holds(u)
      /\ \A u \in Thread : u # t => pc'[u] = pc[u]
      /\ \A c \in Conn : c # idx[t] => link'[c] = link[c]
      /\ link' # link => Holds(t)
  BY PrivateStep
<1>2. Exclusive' /\ BusyIsHeld'
  BY <1>1 DEF Exclusive, BusyIsHeld
<1>3. NeverOnNull'
  <2> SUFFICES ASSUME NEW u \in Thread, pc'[u] \in {"ping", "exe"}
               PROVE  link'[idx[u]] # "null"
    BY <1>1 DEF NeverOnNull
  <2>1. CASE u = t
    BY <2>1, PrivateNotNull
  <2>2. CASE u # t
    <3>1. pc[u] \in {"ping", "exe"} /\ Holds(u) /\ link[idx[u]] # "null"
      BY <1>1, <2>2 DEF NeverOnNull, Holds
    <3>2. link' # link => idx[u] # idx[t]
      BY <1>1, <2>2, <3>1 DEF Exclusive
    <3> QED BY <1>1, <3>1, <3>2
  <2> QED BY <2>1, <2>2
<1>4. Quiet'
  <2>1. UNCHANGED phase /\ phase = "ready"
    BY DEF Private, Call, Sleep, Awake, Exhausted, Ping, Create, Exe, Goes, Quiet
  <2> QED BY <2>1 DEF Quiet
<1> QED BY <1>2, <1>3, <1>4

LEMMA InvStep == Inv /\ [Next]_vars => Inv'
<1> SUFFICES ASSUME Inv, [Next]_vars PROVE Inv'
  OBVIOUS
<1>1. TypeOK'
  BY TypeStep DEF Inv
<1>2. ASSUME NEW c \in Conn, ServerDrops(c) PROVE Inv'
  <2>1. UNCHANGED <<phase, status, tvars>> /\ \A d \in Conn : link'[d] = "null" => link[d] = "null"
    BY <1>2 DEF ServerDrops, Inv, TypeOK
  <2> QED
    BY <1>1, <2>1 DEF Inv, TypeOK, Exclusive, BusyIsHeld, NeverOnNull, Quiet, Holds, tvars
<1>3. CASE UNCHANGED vars
  BY <1>3, <1>1 DEF vars, tvars, Inv, Exclusive, BusyIsHeld, NeverOnNull, Quiet, Holds
<1> QED
  BY <1>1, <1>2, <1>3, NextCases, QuietStep, TakeStep, GiveBackStep, PrivateKeeps

LEMMA InvAlways == Spec => []Inv
  BY InvInit, InvStep, PTL DEF Spec

\* Every variable of the pool keeps its type.
THEOREM TypeCorrect == Spec => []TypeOK
  BY InvAlways, PTL DEF Inv

\* db_alloc_conn gives no connection to two threads.
THEOREM AlwaysExclusive == Spec => []Exclusive
  BY InvAlways, PTL DEF Inv

\* No path through db_alloc_conn, db_update_insert_del or db_select leaves a
\* connection busy without a thread that will give it back.
THEOREM NoConnectionLost == Spec => []BusyIsHeld
  BY InvAlways, PTL DEF Inv

\* No statement is run on a connection that could not be opened.
THEOREM NeverNull == Spec => []NeverOnNull
  BY InvAlways, PTL DEF Inv

----------------------------------------------------------------------------
(* The pool implements Lease. *)

\* A thread that has a connection is its lease holder, and a connection in
\* nobody's hands has none.
HolderRight ==
  /\ \A t \in Thread : Holds(t) => LeaseHolder[idx[t]] = t
  /\ \A c \in Conn : (\A t \in Thread : Holds(t) => idx[t] # c) => LeaseHolder[c] = None

LEMMA HolderNow == TypeOK /\ Exclusive => HolderRight
<1> SUFFICES ASSUME TypeOK, Exclusive PROVE HolderRight
  OBVIOUS
<1>1. ASSUME NEW t \in Thread, Holds(t) PROVE LeaseHolder[idx[t]] = t
  <2>1. idx[t] \in Conn
    BY DEF TypeOK
  <2>2. \A u \in Thread : Holds(u) /\ idx[u] = idx[t] => u = t
    BY <1>1 DEF Exclusive
  <2> QED BY <1>1, <2>1, <2>2 DEF LeaseHolder
<1>2. ASSUME NEW c \in Conn, \A t \in Thread : Holds(t) => idx[t] # c
      PROVE  LeaseHolder[c] = None
  BY <1>2 DEF LeaseHolder
<1> QED BY <1>1, <1>2 DEF HolderRight

\* The same in the state after a step.
LEMMA HolderNext == TypeOK' /\ Exclusive' => HolderRight'
  BY HolderNow, PTL

\* The lease holders depend only on who has which connection.
LEMMA SameHolders ==
  ASSUME HolderRight, HolderRight', TypeOK,
         NEW c \in Conn,
         \A t \in Thread : (Holds(t)' /\ idx'[t] = c) <=> (Holds(t) /\ idx[t] = c)
  PROVE  LeaseHolder'[c] = LeaseHolder[c]
<1>1. CASE \E t \in Thread : Holds(t) /\ idx[t] = c
  BY <1>1 DEF HolderRight
<1>2. CASE ~ \E t \in Thread : Holds(t) /\ idx[t] = c
  BY <1>2 DEF HolderRight
<1> QED BY <1>1, <1>2

LEMMA HolderStep == Inv /\ Inv' /\ [Next]_vars => [L!Next]_LeaseHolder
<1> SUFFICES ASSUME Inv, Inv', [Next]_vars PROVE [L!Next]_LeaseHolder
  OBVIOUS
<1>1. HolderRight /\ HolderRight' /\ TypeOK
  BY HolderNow, HolderNext DEF Inv
<1>2. LeaseHolder = [c \in Conn |-> LeaseHolder[c]] /\ LeaseHolder' = [c \in Conn |-> LeaseHolder'[c]]
  BY DEF LeaseHolder
<1> DEFINE Same(c) ==
      \A t \in Thread : (Holds(t)' /\ idx'[t] = c) <=> (Holds(t) /\ idx[t] = c)
<1>3. (\A c \in Conn : Same(c)) => UNCHANGED LeaseHolder
  BY <1>1, <1>2, SameHolders
<1>4. ASSUME NEW t \in Thread, NEW c \in Conn, Take(t, c) PROVE L!Next
  <2>1. /\ pc[t] = "alloc" /\ pc'[t] \in {"create", "ping"} /\ idx'[t] = c
        /\ \A u \in Thread : u # t => pc'[u] = pc[u] /\ idx'[u] = idx[u]
        /\ status[c] = "IDE"
    BY <1>1, <1>4 DEF Take, Goes, TypeOK
  <2>2. /\ ~Holds(t) /\ Holds(t)'
        /\ \A u \in Thread : u # t => Holds(u)' = Holds(u)
    BY <2>1 DEF Holds
  <2>3. LeaseHolder[c] = None
    BY <1>1, <2>1 DEF Inv, BusyIsHeld, HolderRight
  <2>4. LeaseHolder'[c] = t
    BY <1>1, <2>1, <2>2 DEF HolderRight
  <2>5. \A d \in Conn : d # c => LeaseHolder'[d] = LeaseHolder[d]
    <3> SUFFICES ASSUME NEW d \in Conn, d # c PROVE LeaseHolder'[d] = LeaseHolder[d]
      OBVIOUS
    <3>1. Same(d)
      BY <2>1, <2>2
    <3> QED BY <1>1, <3>1, SameHolders
  <2>6. LeaseHolder' = [LeaseHolder EXCEPT ![c] = t]
    BY <1>2, <2>4, <2>5
  <2> QED BY <2>3, <2>6 DEF L!Next, L!Acquire
<1>5. ASSUME NEW t \in Thread, GiveBack(t) PROVE L!Next
  <2> DEFINE c == idx[t]
  <2>1. /\ pc[t] \in {"giveup", "release"} /\ pc'[t] = "idle" /\ UNCHANGED idx
        /\ \A u \in Thread : u # t => pc'[u] = pc[u]
    BY <1>1, <1>5 DEF GiveBack, GiveUp, Release, Goes, TypeOK
  <2>2. /\ Holds(t) /\ ~Holds(t)' /\ c \in Conn
        /\ \A u \in Thread : u # t => Holds(u)' = Holds(u)
    BY <1>1, <2>1 DEF Holds, TypeOK
  <2>3. LeaseHolder[c] = t
    BY <1>1, <2>2 DEF HolderRight
  <2>4. LeaseHolder'[c] = None
    <3>1. \A u \in Thread : Holds(u)' => idx'[u] # c
      BY <2>1, <2>2 DEF Inv, Exclusive
    <3> QED BY <1>1, <2>2, <3>1 DEF HolderRight
  <2>5. \A d \in Conn : d # c => LeaseHolder'[d] = LeaseHolder[d]
    <3> SUFFICES ASSUME NEW d \in Conn, d # c PROVE LeaseHolder'[d] = LeaseHolder[d]
      OBVIOUS
    <3>1. Same(d)
      BY <2>1, <2>2
    <3> QED BY <1>1, <3>1, SameHolders
  <2>6. LeaseHolder' = [LeaseHolder EXCEPT ![c] = None]
    BY <1>2, <2>2, <2>4, <2>5
  <2> QED BY <2>2, <2>3, <2>6 DEF L!Next, L!Release
<1>6. ASSUME NEW t \in Thread, Private(t) PROVE UNCHANGED LeaseHolder
  <2>1. UNCHANGED idx /\ \A u \in Thread : Holds(u)' = Holds(u)
    BY <1>1, <1>6, PrivateStep
  <2> QED BY <1>3, <2>1
<1>7. CASE OpenNext \/ OpenFails \/ InitDone \/ End \/ (\E c \in Conn : ServerDrops(c))
  <2>1. UNCHANGED <<pc, idx>>
    BY <1>7 DEF OpenNext, OpenFails, InitDone, End, ServerDrops, tvars
  <2> QED BY <1>3, <2>1 DEF Holds
<1>8. CASE UNCHANGED vars
  <2>1. UNCHANGED <<pc, idx>>
    BY <1>8 DEF vars, tvars
  <2> QED BY <1>3, <2>1 DEF Holds
<1> QED BY <1>4, <1>5, <1>6, <1>7, <1>8, NextCases

LEMMA HolderInit == Init => L!Init
  BY DEF Init, L!Init, LeaseHolder, Holds

\* The connections are leased to the calling threads: what each step of the
\* pool does to them is a step of Lease or invisible there.
THEOREM PoolLeases == Spec => ImplementsLease
<1>1. Inv /\ Inv' /\ [Next]_vars => [L!Next]_LeaseHolder
  BY HolderStep
<1> QED BY <1>1, HolderInit, InvAlways, PTL DEF Spec, L!Spec, ImplementsLease
=============================================================================
