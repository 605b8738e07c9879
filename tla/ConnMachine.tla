----------------------------- MODULE ConnMachine -----------------------------
(***************************************************************************)
(* The life of one connection object of src/ngix_module/AIS/ais.c: from    *)
(* conn_new through the state machine drive_machine, which libevent enters *)
(* whenever the socket is ready, to conn_close, which puts the object back *)
(* into its pool for the next client.                                      *)
(*                                                                         *)
(* A client sends lines and may send many before it reads an answer.  Its  *)
(* stream is a sequence of integers: 0 is a byte within a line, and the    *)
(* newline that ends its k-th line is k if the server answers that line    *)
(* and -k if it does not (process_command ignores what it does not know,   *)
(* and ais_wap, which is compiled out).  An answer is ReplyLen units of k; *)
(* the answer to a lack of memory is one of 0.                             *)
(*                                                                         *)
(* TCP, ascii.  What no path leads to is left out: UDP, conn_swallow,      *)
(* conn_mwrite, noreply.                                                   *)
(*                                                                         *)
(* The operators named Slip... are not part of the specification.  Each is *)
(* a slip a programmer could make in the definition that follows it; with  *)
(* the slip in its place one of the properties below is violated.          *)
(***************************************************************************)
EXTENDS Integers, Sequences

CONSTANTS
  BufSize,    \* DATA_BUFFER_SIZE, the first size of the read buffer
  MaxAllocs,  \* 4: how often one try_read_network doubles it
  LineMax,    \* 1024: a longer beginning of a line is refused
  Requests,   \* settings.reqs_per_event
  ReplyLen,   \* units of an answer
  Mtu,        \* UDP_MAX_PAYLOAD_SIZE, what the first message of it holds
  Room,       \* what the socket takes before sendmsg gives EAGAIN
  MaxSent,    \* bound: units a client sends
  MaxClients, \* bound: clients served by the connection object
  MaxFails    \* bound: failures of libevent and of realloc

ASSUME SizeAssumption == LineMax \in Nat /\ BufSize \in Nat /\ BufSize > LineMax
ASSUME AllocAssumption == MaxAllocs \in Nat
ASSUME RequestsAssumption == Requests \in Nat \ {0}
ASSUME ReplyAssumption == Mtu \in Nat \ {0} /\ ReplyLen \in Nat /\ ReplyLen > Mtu
ASSUME RoomAssumption == Room \in Nat \ {0}
ASSUME BoundsAssumption == MaxSent \in Nat /\ MaxClients \in Nat /\ MaxFails \in Nat

VARIABLES
  state,    \* c->state; "aborted" when the process has ended
  running,  \* drive_machine is executing
  nreqs,    \* its nreqs
  ev,       \* c->ev_flags
  armed,    \* whether the event is registered with libevent
  buf,      \* rcurr .. rcurr + rbytes
  rsize,    \* size of rbuf
  allocs, gotdata,  \* locals of try_read_network
  reply,    \* the answer in wbuf
  msgs,     \* what is left of each message of it; empty if iovused is 0
  msgcurr,  \* the message being sent
  go,       \* c->write_and_go
  net,      \* sent by the client and not read
  unread,   \* units written and not read by the client
  open,     \* the client has not closed its end
  asked,    \* history: the lines of this client that call for an answer
  lines,    \* history: the number of its lines
  sent,     \* history: the number of units it has sent
  wrote,    \* history: what was written to this client
  handled,  \* history: commands processed in this event that were answered
  clients,  \* history: clients this object has served
  fails     \* history: failures so far

event  == <<ev, armed>>
inbuf  == <<buf, rsize, allocs, gotdata>>
out    == <<reply, msgs, msgcurr, go>>
client == <<net, unread, open, asked, lines, sent>>
ghost  == <<wrote, handled, clients>>
vars   == <<state, running, nreqs, event, inbuf, out, client, ghost, fails>>

States == {"new_cmd", "waiting", "read", "parse_cmd", "write", "closing",
           "closed", "aborted"}

Minimum(a, b) == IF a < b THEN a ELSE b

\* What conn_new leaves behind of the object it got from the pool: the size of
\* its buffer.  The slip: what was read of the last client.
SlipNewKeeps == msgs' = <<>> /\ msgcurr' = 1 /\ buf' = buf
NewConn == msgs' = <<>> /\ msgcurr' = 1 /\ buf' = <<>>

NoClient ==
  /\ net = <<>> /\ unread = 0 /\ open = TRUE
  /\ asked = <<>> /\ lines = 0 /\ sent = 0 /\ wrote = <<>> /\ handled = 0

Init ==
  /\ state = "new_cmd" /\ running = FALSE /\ nreqs = 0
  /\ ev = "READ" /\ armed = TRUE
  /\ buf = <<>> /\ rsize = BufSize /\ allocs = 0 /\ gotdata = FALSE
  /\ reply = 0 /\ msgs = <<>> /\ msgcurr = 1 /\ go = "new_cmd"
  /\ NoClient /\ clients = 1 /\ fails = 0

----------------------------------------------------------------------------
(* The client, and libevent *)

\* The client sends one more unit of its stream.
Send ==
  /\ open /\ sent < MaxSent /\ state \notin {"closed", "aborted"}
  /\ \E u \in {0, lines + 1, -(lines + 1)} :
       /\ net' = Append(net, u)
       /\ lines' = IF u = 0 THEN lines ELSE lines + 1
       /\ asked' = IF u > 0 THEN Append(asked, u) ELSE asked
  /\ sent' = sent + 1
  /\ UNCHANGED <<state, running, nreqs, event, inbuf, out, unread, open, ghost, fails>>

Receive ==
  /\ unread > 0 /\ open
  /\ unread' = unread - 1
  /\ UNCHANGED <<state, running, nreqs, event, inbuf, out, net, open, asked, lines,
                 sent, ghost, fails>>

Leave ==
  /\ open /\ state \notin {"closed", "aborted"}
  /\ open' = FALSE
  /\ UNCHANGED <<state, running, nreqs, event, inbuf, out, net, unread, asked, lines,
                 sent, ghost, fails>>

Ready == \/ ev = "READ" /\ (net # <<>> \/ ~open)
         \/ ev = "WRITE" /\ (unread < Room \/ ~open)

\* event_handler
Fire ==
  /\ ~running /\ armed /\ Ready
  /\ running' = TRUE /\ nreqs' = Requests /\ handled' = 0
  /\ allocs' = 0 /\ gotdata' = FALSE
  /\ UNCHANGED <<state, event, buf, rsize, out, client, wrote, clients, fails>>

----------------------------------------------------------------------------
(* drive_machine *)

In(s) == running /\ state = s

Goto(s) == state' = s

Fails == fails < MaxFails /\ fails' = fails + 1

\* update_event: the flags are as wanted already, or event_del and event_add
\* succeed; or one of the two fails.
Updated(f) == ev' = f /\ UNCHANGED <<armed, fails>>
NotUpdated(f) ==
  /\ ev # f /\ Fails
  /\ \/ UNCHANGED event
     \/ ev' = f /\ armed' = FALSE

Stop == running' = FALSE

\* conn_waiting.  The slip: the result of update_event is not looked at.
SlipResultIgnored ==
  /\ In("waiting")
  /\ Updated("READ") \/ NotUpdated("READ")
  /\ Goto("read") /\ Stop
  /\ allocs' = 0 /\ gotdata' = FALSE
  /\ UNCHANGED <<nreqs, buf, rsize, out, client, ghost>>

Waiting ==
  /\ In("waiting")
  /\ \/ Updated("READ") /\ Goto("read") /\ Stop
     \/ NotUpdated("READ") /\ Goto("closing") /\ UNCHANGED running
  /\ allocs' = 0 /\ gotdata' = FALSE
  /\ UNCHANGED <<nreqs, buf, rsize, out, client, ghost>>

\* out_string: whatever was left of another answer is dropped.
OutString(r, s) == reply' = r /\ go' = s /\ Goto("write") /\ msgs' = <<>> /\ msgcurr' = 1

\* The end of try_read_network with data or without.
EndRead(got) == Goto(IF got THEN "parse_cmd" ELSE "waiting")

Full == Len(buf) >= rsize

\* The buffer is full after MaxAllocs doublings: time to look at the data.
EnoughRead ==
  /\ In("read") /\ Full /\ allocs = MaxAllocs
  /\ EndRead(gotdata)
  /\ UNCHANGED <<running, nreqs, event, inbuf, out, client, ghost, fails>>

\* realloc of a buffer that create_conn has laid out inside a larger block: the
\* allocator may end the process, fail, or give a buffer.
Grow ==
  /\ In("read") /\ Full /\ allocs < MaxAllocs
  /\ \/ /\ rsize' = 2 * rsize /\ allocs' = allocs + 1
        /\ UNCHANGED <<state, running, armed, buf, out, fails>>
     \/ /\ Fails /\ buf' = <<>> /\ OutString(0, "closing")
        /\ UNCHANGED <<running, armed, rsize, allocs>>
     \/ /\ Fails /\ Goto("aborted") /\ Stop /\ armed' = FALSE
        /\ UNCHANGED <<buf, rsize, allocs, out>>
  /\ UNCHANGED <<nreqs, ev, gotdata, client, ghost>>

Avail == rsize - Len(buf)

\* read gives what is there and fits.  Less than what fits ends the loop.
ReadData ==
  /\ In("read") /\ ~Full /\ net # <<>>
  /\ LET n == Minimum(Avail, Len(net))
     IN /\ buf' = buf \o SubSeq(net, 1, n)
        /\ net' = SubSeq(net, n + 1, Len(net))
        /\ IF n = Avail THEN UNCHANGED state ELSE EndRead(TRUE)
  /\ gotdata' = TRUE
  /\ UNCHANGED <<running, nreqs, event, rsize, allocs, out, unread, open, asked, lines,
                 sent, ghost, fails>>

\* EAGAIN
NothingToRead ==
  /\ In("read") /\ ~Full /\ net = <<>> /\ open
  /\ EndRead(gotdata)
  /\ UNCHANGED <<running, nreqs, event, inbuf, out, client, ghost, fails>>

\* The end of the stream, or an error: also if this call has read something.
\* The slip: it counts as nothing to read.
SlipWaitForMore ==
  /\ In("read") /\ ~Full /\ ~open
  /\ EndRead(gotdata)
  /\ UNCHANGED <<running, nreqs, event, inbuf, out, client, ghost, fails>>

ReadError ==
  /\ In("read") /\ ~Full /\ ~open
  /\ Goto("closing")
  /\ UNCHANGED <<running, nreqs, event, inbuf, out, client, ghost, fails>>

Newlines == {i \in DOMAIN buf : buf[i] # 0}

\* try_read_command without a newline in the buffer.  A line that begins with
\* "get " is waited for however long it is.
NoCommand ==
  /\ In("parse_cmd") /\ Newlines = {}
  /\ \/ Goto("waiting")
     \/ Len(buf) > LineMax /\ Goto("closing")
  /\ UNCHANGED <<running, nreqs, event, inbuf, out, client, ghost, fails>>

Consume(i) == buf' = SubSeq(buf, i + 1, Len(buf))

\* try_read_command with one: process_command, then on to the next line.
Command ==
  /\ In("parse_cmd")
  /\ \E i \in Newlines :
       /\ \A j \in Newlines : i <= j
       /\ IF buf[i] > 0
          THEN OutString(buf[i], "new_cmd") /\ handled' = handled + 1
          ELSE msgs' = <<>> /\ msgcurr' = 1 /\ UNCHANGED <<state, reply, go, handled>>
       /\ Consume(i)
  /\ UNCHANGED <<running, nreqs, event, rsize, allocs, gotdata, client, wrote, clients,
                 fails>>

\* conn_new_cmd and reset_cmd_handler.  The slip: the request is not counted.
SlipNotCounted ==
  /\ In("new_cmd") /\ nreqs > 0
  /\ Goto(IF buf # <<>> THEN "parse_cmd" ELSE "waiting")
  /\ UNCHANGED <<running, nreqs, event, inbuf, out, client, ghost, fails>>

NextCommand ==
  /\ In("new_cmd") /\ nreqs > 0
  /\ nreqs' = nreqs - 1
  /\ Goto(IF buf # <<>> THEN "parse_cmd" ELSE "waiting")
  /\ UNCHANGED <<running, event, inbuf, out, client, ghost, fails>>

\* Enough of them for one event: what is left is taken up when the socket can
\* be written to.  If update_event fails the machine stops all the same.  The
\* slip: the event that is waited for is that of more to read.
SlipNoHack ==
  /\ In("new_cmd") /\ nreqs = 0
  /\ Stop
  /\ UNCHANGED <<state, nreqs, event, inbuf, out, client, ghost, fails>>

Yield ==
  /\ In("new_cmd") /\ nreqs = 0
  /\ Stop
  /\ IF buf # <<>>
     THEN \/ Updated("WRITE") /\ UNCHANGED state
          \/ NotUpdated("WRITE") /\ Goto("closing")
     ELSE UNCHANGED <<state, event, fails>>
  /\ UNCHANGED <<nreqs, inbuf, out, client, ghost>>

\* add_iov splits an answer at the size of a datagram, TCP or not.
Split == <<Mtu, ReplyLen - Mtu>>

\* conn_write: what there is to send, assembled on the first visit.
Messages == IF msgs # <<>> THEN msgs ELSE IF reply = 0 THEN <<1>> ELSE Split

\* transmit: the message to send from, past one that is finished.
Current == IF msgcurr <= Len(Messages) /\ Messages[msgcurr] = 0 THEN msgcurr + 1 ELSE msgcurr

\* sendmsg takes some or all of it.
Shortened(n) == [Messages EXCEPT ![Current] = @ - n]

TransmitSome ==
  /\ In("write") /\ Current <= Len(Messages)
  /\ \E n \in 1 .. Minimum(Messages[Current], Room - unread) :
       /\ msgs' = Shortened(n)
       /\ unread' = unread + n
       /\ wrote' = wrote \o [i \in 1 .. n |-> reply]
  /\ msgcurr' = Current
  /\ UNCHANGED <<state, running, nreqs, event, inbuf, reply, go, net, open, asked, lines,
                 sent, handled, clients, fails>>

TransmitComplete ==
  /\ In("write") /\ Current > Len(Messages)
  /\ Goto(go) /\ msgs' = Messages /\ msgcurr' = Current
  /\ UNCHANGED <<running, nreqs, event, inbuf, reply, go, client, ghost, fails>>

\* EAGAIN: the client is there and does not read.  The slip: the event still
\* waits for something to read.
SlipSoftNoUpdate ==
  /\ In("write") /\ Current <= Len(Messages) /\ unread = Room /\ open
  /\ msgs' = Messages /\ msgcurr' = Current
  /\ Stop
  /\ UNCHANGED <<state, nreqs, event, inbuf, reply, go, client, ghost, fails>>

TransmitSoftError ==
  /\ In("write") /\ Current <= Len(Messages) /\ unread = Room /\ open
  /\ msgs' = Messages /\ msgcurr' = Current
  /\ \/ Updated("WRITE") /\ Stop /\ UNCHANGED state
     \/ NotUpdated("WRITE") /\ Goto("closing") /\ UNCHANGED running
  /\ UNCHANGED <<nreqs, inbuf, reply, go, client, ghost>>

TransmitHardError ==
  /\ In("write") /\ Current <= Len(Messages) /\ ~open
  /\ Goto("closing") /\ msgs' = Messages /\ msgcurr' = Current
  /\ UNCHANGED <<running, nreqs, event, inbuf, reply, go, client, ghost, fails>>

\* conn_closing: conn_close
Close ==
  /\ In("closing")
  /\ Goto("closed") /\ Stop /\ armed' = FALSE
  /\ UNCHANGED <<nreqs, ev, inbuf, out, client, ghost, fails>>

\* conn_new takes the object from the pool for another client.
Reuse ==
  /\ state = "closed" /\ clients < MaxClients
  /\ clients' = clients + 1
  /\ Goto("new_cmd") /\ go' = "new_cmd"
  /\ NewConn
  /\ ev' = "READ" /\ armed' = TRUE
  /\ net' = <<>> /\ unread' = 0 /\ open' = TRUE
  /\ asked' = <<>> /\ lines' = 0 /\ sent' = 0 /\ wrote' = <<>> /\ handled' = 0
  /\ UNCHANGED <<running, nreqs, rsize, allocs, gotdata, reply, fails>>

----------------------------------------------------------------------------
Machine ==
  \/ Waiting
  \/ EnoughRead \/ Grow \/ ReadData \/ NothingToRead \/ ReadError
  \/ NoCommand \/ Command \/ NextCommand \/ Yield
  \/ TransmitSome \/ TransmitComplete \/ TransmitSoftError \/ TransmitHardError
  \/ Close

Next == Send \/ Receive \/ Leave \/ Fire \/ Machine \/ Reuse

Spec == Init /\ [][Next]_vars

\* The worker's event loop goes on; and a client that is there reads what it
\* gets.
Fairness == WF_vars(Machine) /\ WF_vars(Fire) /\ WF_vars(Receive)

FairSpec == Spec /\ Fairness

----------------------------------------------------------------------------
(* Properties *)

TypeOK ==
  /\ state \in States /\ running \in BOOLEAN /\ nreqs \in 0 .. Requests
  /\ ev \in {"READ", "WRITE"} /\ armed \in BOOLEAN
  /\ buf \in Seq(Int) /\ rsize \in Nat /\ Len(buf) <= rsize
  /\ allocs \in 0 .. MaxAllocs /\ gotdata \in BOOLEAN
  /\ reply \in Nat
  /\ msgs \in Seq(0 .. ReplyLen) /\ msgcurr \in 1 .. 3
  /\ go \in {"new_cmd", "closing"}
  /\ net \in Seq(Int) /\ unread \in 0 .. Room /\ open \in BOOLEAN
  /\ asked \in Seq(Nat) /\ lines \in Nat /\ sent \in Nat
  /\ wrote \in Seq(Nat) /\ handled \in Nat /\ clients \in Nat /\ fails \in 0 .. MaxFails

\* The client gets the answers to its own requests, each whole, in the order of
\* the requests and none twice; then, perhaps, that the server is out of
\* memory.  However much it sends ahead (process_command and out_string drop
\* what is left of an answer, ais.c:807 and 1220), and whoever had the
\* connection object before.
AnswersInOrder ==
  \A i \in DOMAIN wrote :
    \/ LET k == (i - 1) \div ReplyLen + 1
       IN k <= Len(asked) /\ wrote[i] = asked[k]
    \/ wrote[i] = 0 /\ i = Len(wrote)

\* A machine that stops to wait for something to read has nothing left to do:
\* no line in its buffer, no answer to finish (ais.c:1662, 1724).
NothingLeftWaiting ==
  (~running /\ armed /\ ev = "READ" /\ state # "closing")
     => state \in {"new_cmd", "read"} /\ Newlines = {}

\* A connection whose machine has stopped is still registered, so that it will
\* go on, or be closed; but for one whose update_event failed in conn_new_cmd,
\* which stops before it is closed (ais.c:1741).
StoppedIsArmed ==
  ~running => armed \/ state \in {"closed", "aborted"} \/ (state = "closing" /\ fails > 0)

\* One event answers no more than one request above reqs_per_event (the one
\* that is parsed before conn_new_cmd first counts, ais.c:1715).
EventBounded == handled <= Requests + 1

Lost == state \in {"closing", "closed", "aborted"}

\* Every request of a client that stays is answered in full, or the connection
\* is given up.
EveryRequestAnswered ==
  \A k \in 1 .. MaxSent :
    (Len(asked) >= k) ~> (Len(wrote) >= k * ReplyLen \/ Lost \/ ~open)

\* A connection whose client has left is closed, but for the same case.
ClosedAfterLeave == (~open) ~> (state \in {"closed", "aborted"} \/ (state = "closing" /\ ~armed))
=============================================================================
