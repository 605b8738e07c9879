------------------------------- MODULE DbPool -------------------------------
(***************************************************************************)
(* The pool of database connections of src/mysql_conn_wl/db.c.  Threads    *)
(* call db_update_insert_del or db_select; a call takes the first idle     *)
(* connection under gdb_mutex, pings it and opens it again if need be      *)
(* without the mutex, runs its statement and gives the connection back.    *)
(*                                                                         *)
(* Each stretch of code under gdb_mutex is one step.  The MySQL server may *)
(* drop a connection, and refuse a new one, at any time.                   *)
(*                                                                         *)
(* The operators named Slip... are not part of the specification.  Each is *)
(* a slip a programmer could make in the definition that follows it; with  *)
(* the slip in its place one of the properties below is violated.          *)
(***************************************************************************)
EXTENDS Integers, FiniteSets

CONSTANTS
  Thread,     \* the calling threads
  NumConns,   \* max_connection_num
  MaxTry,     \* MAX_TRY_COUNT
  None

ASSUME ConnsAssumption == NumConns \in Nat \ {0}
ASSUME MaxTryAssumption == MaxTry \in Nat \ {0}
ASSUME NoneAssumption == None \notin Thread

Conn == 0 .. NumConns - 1

VARIABLES
  phase,    \* "init", "ready", "failed" (db_init returned RET_ERR), "ended"
  ready,    \* the connections db_init has opened so far
  status,   \* gpdb_conns[c].status: 0, "IDE" or "BUSY"
  link,     \* gpdb_conns[c].conn: "null", "up", or "down" if the server left
  pc,       \* where each thread is
  idx,      \* the connection it works on
  tries     \* try_cnt

tvars == <<pc, idx, tries>>
vars  == <<phase, ready, status, link, tvars>>

Init ==
  /\ phase = "init" /\ ready = 0
  /\ status = [c \in Conn |-> "0"] /\ link = [c \in Conn |-> "null"]
  /\ pc = [t \in Thread |-> "idle"] /\ idx = [t \in Thread |-> 0]
  /\ tries = [t \in Thread |-> 0]

----------------------------------------------------------------------------
(* db_init and db_end *)

\* One turn of db_init's loop.
OpenNext ==
  /\ phase = "init" /\ ready < NumConns
  /\ link' = [link EXCEPT ![ready] = "up"]
  /\ status' = [status EXCEPT ![ready] = "IDE"]
  /\ ready' = ready + 1
  /\ UNCHANGED <<phase, tvars>>

OpenFails ==
  /\ phase = "init" /\ ready < NumConns
  /\ phase' = "failed"
  /\ UNCHANGED <<ready, status, link, tvars>>

InitDone ==
  /\ phase = "init" /\ ready = NumConns
  /\ phase' = "ready"
  /\ UNCHANGED <<ready, status, link, tvars>>

\* db_end takes no lock: that no call is under way is the caller's business.
End ==
  /\ phase = "ready" /\ \A t \in Thread : pc[t] = "idle"
  /\ phase' = "ended"
  /\ link' = [c \in Conn |-> "null"]
  /\ status' = [c \in Conn |-> "IDE"]
  /\ UNCHANGED <<ready, tvars>>

----------------------------------------------------------------------------
(* The calls *)

Goes(t, from, to) == pc[t] = from /\ pc' = [pc EXCEPT ![t] = to]

Call(t) ==
  /\ phase = "ready"
  /\ Goes(t, "idle", "alloc")
  /\ tries' = [tries EXCEPT ![t] = 0]
  /\ UNCHANGED <<phase, ready, status, link, idx>>

\* db_alloc_conn, under the mutex: c is the first idle connection.  The slip:
\* its status is not set before the mutex is unlocked.
SlipNotBusy(t, c) ==
  /\ status[c] = "IDE" /\ \A d \in 0 .. c - 1 : status[d] # "IDE"
  /\ tries[t] < MaxTry
  /\ Goes(t, "alloc", IF link[c] = "null" THEN "create" ELSE "ping")
  /\ idx' = [idx EXCEPT ![t] = c]
  /\ tries' = [tries EXCEPT ![t] = @ + 1]
  /\ UNCHANGED <<phase, ready, status, link>>

Take(t, c) ==
  /\ status[c] = "IDE" /\ \A d \in 0 .. c - 1 : status[d] # "IDE"
  /\ tries[t] < MaxTry
  /\ Goes(t, "alloc", IF link[c] = "null" THEN "create" ELSE "ping")
  /\ status' = [status EXCEPT ![c] = "BUSY"]
  /\ idx' = [idx EXCEPT ![t] = c]
  /\ tries' = [tries EXCEPT ![t] = @ + 1]
  /\ UNCHANGED <<phase, ready, link>>

\* None is idle: usleep(100000), then another try.  The slip: tries are not
\* counted.
SlipNotCounted(t) ==
  /\ tries[t] < MaxTry /\ \A c \in Conn : status[c] # "IDE"
  /\ Goes(t, "alloc", "sleep")
  /\ UNCHANGED <<phase, ready, status, link, idx, tries>>

Sleep(t) ==
  /\ tries[t] < MaxTry /\ \A c \in Conn : status[c] # "IDE"
  /\ Goes(t, "alloc", "sleep")
  /\ tries' = [tries EXCEPT ![t] = @ + 1]
  /\ UNCHANGED <<phase, ready, status, link, idx>>

Awake(t) ==
  /\ Goes(t, "sleep", "alloc")
  /\ UNCHANGED <<phase, ready, status, link, idx, tries>>

\* "no more db handles to use!"
Exhausted(t) ==
  /\ tries[t] = MaxTry
  /\ Goes(t, "alloc", "idle")
  /\ UNCHANGED <<phase, ready, status, link, idx, tries>>

Ping(t) ==
  /\ Goes(t, "ping", IF link[idx[t]] = "up" THEN "exe" ELSE "create")
  /\ UNCHANGED <<phase, ready, status, link, idx, tries>>

\* db_create_conn closes what is left of the connection and opens a new one.
\* The slip: its result is not looked at.
SlipResultIgnored(t) ==
  /\ Goes(t, "create", "exe")
  /\ \E l \in {"up", "null"} : link' = [link EXCEPT ![idx[t]] = l]
  /\ UNCHANGED <<phase, ready, status, idx, tries>>

Create(t) ==
  \/ /\ Goes(t, "create", "exe")
     /\ link' = [link EXCEPT ![idx[t]] = "up"]
     /\ UNCHANGED <<phase, ready, status, idx, tries>>
  \/ /\ Goes(t, "create", "giveup")
     /\ link' = [link EXCEPT ![idx[t]] = "null"]
     /\ UNCHANGED <<phase, ready, status, idx, tries>>

\* The connection is idle again, without a link.  The slip: it stays busy.
SlipStaysBusy(t) ==
  /\ Goes(t, "giveup", "idle")
  /\ UNCHANGED <<phase, ready, status, link, idx, tries>>

GiveUp(t) ==
  /\ Goes(t, "giveup", "idle")
  /\ status' = [status EXCEPT ![idx[t]] = "IDE"]
  /\ UNCHANGED <<phase, ready, link, idx, tries>>

\* db_exe and mysql_affected_rows or mysql_store_result; what comes of the
\* statement makes no difference to the pool.
Exe(t) ==
  /\ Goes(t, "exe", "release")
  /\ UNCHANGED <<phase, ready, status, link, idx, tries>>

\* db_release_conn
Release(t) ==
  /\ Goes(t, "release", "idle")
  /\ status' = [status EXCEPT ![idx[t]] = "IDE"]
  /\ UNCHANGED <<phase, ready, link, idx, tries>>

----------------------------------------------------------------------------
\* The MySQL server closes a connection.
ServerDrops(c) ==
  /\ link[c] = "up"
  /\ link' = [link EXCEPT ![c] = "down"]
  /\ UNCHANGED <<phase, ready, status, tvars>>

Work(t) == \/ \E c \in Conn : Take(t, c)
           \/ Sleep(t) \/ Awake(t) \/ Exhausted(t) \/ Ping(t) \/ Create(t)
           \/ GiveUp(t) \/ Exe(t) \/ Release(t)

Next ==
  \/ OpenNext \/ OpenFails \/ InitDone \/ End
  \/ \E t \in Thread : Call(t) \/ Work(t)
  \/ \E c \in Conn : ServerDrops(c)

Spec == Init /\ [][Next]_vars

\* Calls go on once begun; mysql calls return (they have time-outs of 3 s).
FairSpec == Spec /\ \A t \in Thread : WF_vars(Work(t))

----------------------------------------------------------------------------
Holds(t) == pc[t] \in {"ping", "create", "giveup", "exe", "release"}

TypeOK ==
  /\ phase \in {"init", "ready", "failed", "ended"} /\ ready \in 0 .. NumConns
  /\ status \in [Conn -> {"0", "IDE", "BUSY"}]
  /\ link \in [Conn -> {"null", "up", "down"}]
  /\ pc \in [Thread -> {"idle", "alloc", "sleep", "ping", "create", "giveup", "exe", "release"}]
  /\ idx \in [Thread -> Conn]
  /\ tries \in [Thread -> 0 .. MaxTry]

\* A connection is used by one thread at a time, pinging, reconnecting and
\* giving up included, all of which db_alloc_conn does without the mutex.
Exclusive ==
  \A t, u \in Thread : t # u /\ Holds(t) /\ Holds(u) => idx[t] # idx[u]

\* No path through a call leaves a connection marked busy for ever: a busy
\* connection has a thread that will give it back.
BusyIsHeld ==
  \A c \in Conn : status[c] = "BUSY" <=> \E t \in Thread : Holds(t) /\ idx[t] = c

\* mysql_query is not called on a connection that could not be opened.
NeverOnNull == \A t \in Thread : pc[t] \in {"ping", "exe"} => link[idx[t]] # "null"

\* A call returns, whatever the server does.
EveryCallReturns == \A t \in Thread : (pc[t] # "idle") ~> (pc[t] = "idle")

\* The pool leases its connections.
LeaseHolder ==
  [c \in Conn |-> IF \E t \in Thread : Holds(t) /\ idx[t] = c
                  THEN CHOOSE t \in Thread : Holds(t) /\ idx[t] = c
                  ELSE None]
L == INSTANCE Lease WITH Client <- Thread, Item <- Conn, holder <- LeaseHolder
ImplementsLease == L!Spec
=============================================================================
