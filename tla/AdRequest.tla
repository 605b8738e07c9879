------------------------------ MODULE AdRequest ------------------------------
(***************************************************************************)
(* How a worker of src/ngix_module/AIS/allais.c answers requests for ads,  *)
(* one after another: ais_get, get_app, get_ad, which narrows the ads down *)
(* by what a slave of Redis says of each, and get_adbody, which reads the  *)
(* bodies of the ads chosen and notes the ad shown last in the master.     *)
(* The requests are those of one user: the mark of another has its own key.*)
(*                                                                         *)
(* Any reply may be lost.  A context of hiredis that has seen an error     *)
(* gives no reply ever after.  slave_redis_command_pending closes it at    *)
(* its next call if the error is one of the connection ("broken"), and     *)
(* opens it at the call after that ("down" in between); a context with     *)
(* another error (a reply that cannot be parsed, no memory) stays as it is *)
(* ("stuck"), and so does one whose AUTH was refused, which answers every  *)
(* command with an error ("refused").  send_redis_command closes the       *)
(* master on any error.  A context that is down has no buffers: to append  *)
(* a command to it ends the process.                                       *)
(*                                                                         *)
(* What Redis says is chosen when it is used, from Contents; `eligible`    *)
(* keeps what it says although the reply be lost.  Left out are the SUNION *)
(* of ndemli (it takes the macro SDK, which no build sets), the sessions   *)
(* that get_adbody leaves in the master (AdCallback has them), the log,    *)
(* the statistics and the text of the answers.                             *)
(*                                                                         *)
(* The operators named Slip... are not part of the specification.  Each is *)
(* a slip a programmer could make in the definition that follows it; with  *)
(* the slip in its place one of the properties below is violated.          *)
(***************************************************************************)
EXTENDS Integers, FiniteSets, Sequences, Functions

CONSTANTS
  Ads,       \* ids of ads
  Contents,  \* the sets of ads that Redis may hold under a key
  Nodes,     \* NODE_POOL_SIZE
  Tables,    \* MAP_POOL_SIZE
  Wants,     \* the numbers of ads that are asked for
  MaxFaults  \* bound: replies and writes lost

ASSUME AdsAssumption == Ads \subseteq Nat \ {0} /\ IsFiniteSet(Ads)
ASSUME ContentsAssumption == Contents \subseteq SUBSET Ads
ASSUME NodesAssumption == Nodes \in Nat
ASSUME TablesAssumption == Tables \in Nat /\ Tables >= 4
ASSUME WantsAssumption == Wants \subseteq Nat \ {0}
ASSUME FaultsAssumption == MaxFaults \in Nat

VARIABLES
  pc,        \* where ais_get is
  want,      \* log->adnum
  slave,     \* conn->sredisctx: "up", "broken", "down", "stuck", "refused"
  master,    \* conn->redisctx: "up", "down", "refused"
  debug,     \* the address is one of the list debugip
  got,       \* how many replies of the pipeline of get_ad arrived
  seen,      \* the reply to GET mobile:<uuid>:lastrequest, 0 if none
  maps,      \* the maps of get_ad that hold ads
  nodes,     \* np->cur: nodes of the pool in use
  tables,    \* mp->cur: hash tables of the pool in use
  held,      \* the tables of the pool that maps[0 .. map_len] points to
  dirty,     \* history: the tables handed out and not cleared since
  choice,    \* maps[0] after get_inter
  aids,      \* log->aid_list; then what get_adbody has still to do
  answer,    \* the ads of the answer
  last,      \* mobile:<uuid>:lastrequest in the master, 0 if there is none
  lastSlave, \* the same in the slave
  eligible,  \* history: the ads that no filter excludes
  prev,      \* history: the first ad of the answer before, while it is remembered
  fresh,     \* history: the slave had heard of the last ad when it was asked
  lost,      \* history: a reply was lost in this request
  faults     \* history: losses so far

pool   == <<tables, held, dirty>>
search == <<debug, got, seen, maps, nodes, pool, choice>>
marks  == <<last, lastSlave, prev, fresh>>
output == <<aids, answer>>
vars   == <<pc, want, slave, master, search, output, marks, eligible, lost, faults>>

Replies == 9
Sinter == 1
PrivateAds == 2
IpArea == 3
LastRequest == 4 \* 5: the ads of the country
AppId == 6
AppTypes == 7
LimitTags == 8  \* 9: the debugging addresses

Begun == {"app", "price", "filters"}
Places == Begun \cup {"idle", "apps", "localapp", "types", "intersect", "near",
                      "region", "choose", "bodies", "store", "answer", "aborted"}

Init ==
  /\ pc = "idle" /\ want = 0 /\ slave = "up" /\ master = "up"
  /\ debug = FALSE /\ got = 0 /\ seen = 0 /\ maps = {} /\ nodes = 0 /\ choice = {}
  /\ tables = 0 /\ held = {} /\ dirty = {}
  /\ aids = <<>> /\ answer = <<>>
  /\ last = 0 /\ lastSlave = 0 /\ prev = 0 /\ fresh = FALSE
  /\ eligible = {} /\ lost = FALSE /\ faults = 0

Goto(p) == pc' = p

----------------------------------------------------------------------------
(* Commands and their replies *)

Lose == faults < MaxFaults /\ faults' = faults + 1 /\ lost' = TRUE

\* slave_redis_command_pending, when the reply is the one asked for.  The slip:
\* a connection that is open again is not marked so, and has no buffers.
SlipNotMarked == slave \in {"up", "down"} /\ UNCHANGED <<slave, faults, lost>>
Got == slave \in {"up", "down"} /\ slave' = "up" /\ UNCHANGED <<faults, lost>>

\* No reply, or an error for one.  Only an error of the connection closes it;
\* what is not closed is not opened again.
NotGot ==
  \/ slave \in {"up", "down", "refused"} /\ Lose /\ slave' \in {"down", "stuck"}
  \/ slave = "down" /\ Lose /\ slave' = "refused"
  \/ slave = "broken" /\ slave' = "down" /\ UNCHANGED <<faults, lost>>
  \/ slave \in {"stuck", "refused"} /\ UNCHANGED <<slave, faults, lost>>

\* redisGetReply.  The slip: the error is over with the reply.
SlipOnce == {"up"}
AfterLoss == {"broken", "stuck"}

\* redisCommandArgv, and appending and redisGetReply
Silent == slave \in {"broken", "stuck"}
Arrives == slave = "up" /\ UNCHANGED <<slave, faults, lost>>
Missing ==
  \/ slave = "up" /\ Lose /\ slave' \in AfterLoss
  \/ Silent /\ UNCHANGED <<slave, faults, lost>>
Abort == slave = "down" /\ Goto("aborted")

----------------------------------------------------------------------------
(* ais_get *)

\* A request that cannot be decoded, or lacks a parameter, does not reach Redis.
Malformed ==
  /\ pc = "idle"
  /\ Goto("answer")
  /\ UNCHANGED <<want, slave, master, search, output, marks, eligible, lost, faults>>

\* Any other request.
Request ==
  /\ pc = "idle"
  /\ \E w \in Wants : want' = w
  /\ Goto("app")
  /\ UNCHANGED <<slave, master, search, output, marks, eligible, lost, faults>>

\* get_app, and the checks of time stamp, signature and platform
GetApp ==
  /\ pc = "app"
  /\ \/ Got /\ pc' \in {"price", "answer"}
     \/ NotGot /\ Goto("answer")
  /\ UNCHANGED <<want, master, search, output, marks, eligible>>

\* The price of the platform, without which there is no ad.
GetPrice ==
  /\ pc = "price"
  /\ \/ Got /\ pc' \in {"filters", "answer"}
     \/ NotGot /\ Goto("answer")
  /\ UNCHANGED <<want, master, search, output, marks, eligible>>

----------------------------------------------------------------------------
(* get_ad *)

\* init_map: the nodes of the pool may run out.
Load(s, used) ==
  {t \in SUBSET s : Cardinality(t) = (IF Cardinality(s) <= Nodes - used
                                      THEN Cardinality(s) ELSE Nodes - used)}

\* get_ht_map, n times over, for as many entries more of maps
Take(n) ==
  LET new == tables .. tables + n - 1
  IN tables' = tables + n /\ held' = held \cup new /\ dirty' = dirty \cup new

\* The result of get_inter is in maps[0]; maps[1] makes room for the ads of the
\* place, and moves to the end, where it will be cleared with the others.  The
\* slip: it is lost.
SlipOverwritten ==
  /\ tables' = tables + 1 /\ dirty' = dirty \cup {tables}
  /\ \E i \in held : held' = (held \ {i}) \cup {tables}
Replace == Take(1)

\* The end of get_ad: ht_clear_bucket of every map, reset_ht_node_pool and
\* reset_ht_map_pool.
PoolReset ==
  /\ nodes' = 0 /\ tables' = 0
  /\ dirty' = dirty \ held /\ held' = {}

\* No ad: AD_NOFIND.
NoAd == Goto("answer") /\ PoolReset /\ UNCHANGED <<maps, choice>>

\* The pipeline of nine commands: the first n replies arrive.  The first two
\* are loaded at once.
Filters ==
  /\ pc = "filters" /\ slave # "down"
  /\ \E n \in 0 .. Replies, d \in Contents, p \in Contents :
       /\ IF n = Replies THEN Arrives ELSE Missing
       /\ Silent => n = 0
       /\ got' = n
       /\ seen' = IF n >= LastRequest THEN lastSlave ELSE 0
       /\ debug' \in IF n = Replies THEN BOOLEAN ELSE {FALSE}
       /\ eligible' = d \cap p
       /\ IF (n >= Sinter /\ d = {}) \/ (n >= PrivateAds /\ p = {})
          THEN NoAd
          ELSE \E t \in Load(d, 0) : \E u \in Load(p, Cardinality(t)) :
                 /\ maps' = IF n >= PrivateAds THEN {t, u}
                            ELSE IF n >= Sinter THEN {t} ELSE {}
                 /\ nodes' = IF n >= PrivateAds THEN Cardinality(t) + Cardinality(u)
                             ELSE IF n >= Sinter THEN Cardinality(t) ELSE 0
                 /\ Take(IF n >= PrivateAds THEN 2 ELSE IF n >= Sinter THEN 1 ELSE 0)
                 /\ Goto("apps") /\ UNCHANGED choice
  /\ fresh' = (lastSlave = last)
  /\ UNCHANGED <<want, master, output, last, lastSlave, prev>>

\* One more map, or an empty reply.
Narrow(s) ==
  IF s = {} THEN NoAd
  ELSE \E t \in Load(s, nodes) :
         /\ maps' = maps \cup {t} /\ nodes' = nodes + Cardinality(t) /\ Take(1)
         /\ Goto("intersect") /\ UNCHANGED choice

\* The application: not known, so that its category decides; or known, with
\* ads of its own or categories of its own.
Apps ==
  /\ pc = "apps"
  /\ \/ /\ got >= AppId
        /\ Goto("localapp") /\ UNCHANGED <<maps, nodes, pool, choice, eligible>>
     \/ \E s \in Contents :
          /\ eligible' = eligible \cap s
          /\ Narrow(IF got >= AppTypes THEN s ELSE {})
  /\ UNCHANGED <<want, slave, master, debug, got, seen, output, marks, lost, faults>>

LocalApp ==
  /\ pc = "localapp"
  /\ \/ /\ Got
        /\ \E s \in Contents :
             IF s = {}
             THEN Goto("types") /\ UNCHANGED <<maps, nodes, pool, choice, eligible>>
             ELSE Narrow(s) /\ eligible' = eligible \cap s
     \/ NotGot /\ Goto("types") /\ UNCHANGED <<maps, nodes, pool, choice, eligible>>
  /\ UNCHANGED <<want, master, debug, got, seen, output, marks>>

Types ==
  /\ pc = "types" /\ slave # "down"
  /\ \E s \in Contents :
       /\ eligible' = eligible \cap s
       /\ \/ Arrives /\ Narrow(s)
          \/ Missing /\ NoAd
  /\ UNCHANGED <<want, master, debug, got, seen, output, marks>>

\* A command to a connection that is down.
AppendToNull ==
  /\ pc \in {"filters", "types"} /\ Abort
  /\ UNCHANGED <<want, slave, master, search, output, marks, eligible, lost, faults>>

\* get_inter
InAll == {a \in UNION maps : \A m \in maps : a \in m}

\* get_inter, and the ads that this user is not to be shown any more
Intersect ==
  /\ pc = "intersect"
  /\ \E s \in Contents :
       /\ eligible' = eligible \ s
       /\ LET left == InAll \ (IF got >= LimitTags THEN s ELSE {})
          IN IF left = {} THEN NoAd
             ELSE choice' = left /\ maps' = {} /\ Replace /\ Goto("near") /\ UNCHANGED nodes
  /\ UNCHANGED <<want, slave, master, debug, got, seen, output, marks, lost, faults>>

\* For a debugging address no place is looked at.
Debug ==
  /\ pc = "near" /\ debug
  /\ Goto("choose")
  /\ UNCHANGED <<want, slave, master, search, output, marks, eligible, lost, faults>>

\* The ads that cover the place of the user, if it is known.
Near ==
  /\ pc = "near" /\ ~debug
  /\ \/ Goto("region") /\ UNCHANGED <<slave, faults, lost, nodes, choice, eligible>>
     \/ /\ Arrives
        /\ \E s \in Contents : \E t \in Load(s \cap choice, nodes) :
             /\ nodes' = nodes + Cardinality(t)
             /\ IF t = {} THEN Goto("region") /\ UNCHANGED <<choice, eligible>>
                ELSE choice' = t /\ eligible' = eligible \cap s /\ Goto("choose")
     \/ Missing /\ Goto("region") /\ UNCHANGED <<nodes, choice, eligible>>
  /\ UNCHANGED <<want, master, debug, got, seen, maps, pool, output, marks>>

\* The ads of a region, where no ad covers the place: the cities of the address
\* and the country; or the country, if the address is not known, and then
\* every ad if that list is empty.
Region ==
  /\ pc = "region"
  /\ \E s \in Contents, known \in BOOLEAN :
       /\ known => got >= IpArea
       /\ eligible' = IF known \/ s # {} THEN eligible \cap s ELSE eligible
       /\ \/ /\ Arrives
             /\ IF known \/ s # {}
                THEN \E t \in Load(s, nodes) :
                       choice' = choice \cap t /\ nodes' = nodes + Cardinality(t)
                ELSE UNCHANGED <<choice, nodes>>
          \/ Missing /\ UNCHANGED <<choice, nodes>>
  /\ Goto("choose")
  /\ UNCHANGED <<want, master, debug, got, seen, maps, pool, output, marks>>

\* As many ads as wanted, or all there are, in the order of the hash table; the
\* ad this user was shown last is left out if there are more.
Choose ==
  /\ pc = "choose"
  /\ IF choice = {} THEN Goto("answer") /\ UNCHANGED aids
     ELSE /\ Goto("bodies")
          /\ aids' \in IF want >= Cardinality(choice)
                      THEN Injection(1 .. Cardinality(choice), choice)
                      ELSE Injection(1 .. want, choice \ {seen})
  /\ PoolReset
  /\ UNCHANGED <<want, slave, master, debug, got, seen, maps, choice, answer, marks, eligible, lost,
                 faults>>

----------------------------------------------------------------------------
(* get_adbody *)

\* Three replies: bodies, sizes of images, models of payment.  The request may
\* lack the size of its screen, or no image have one that fits: no answer.  A
\* body without a model of payment ends the process.
Bodies ==
  /\ pc = "bodies"
  /\ \E n \in 0 .. 3 :
       /\ IF n = 3 THEN Arrives ELSE Missing
       /\ Silent => n = 0
       /\ \/ Goto("answer")
          \/ n \in 1 .. 2 /\ Goto("aborted")
          \/ n = 3 /\ Goto("store")
  /\ UNCHANGED <<want, master, search, output, marks, eligible>>

\* The next ad has no body, or the buffer ends before it.
NoBody ==
  /\ pc = "store" /\ aids # <<>>
  /\ aids' \in {Tail(aids), <<>>}
  /\ UNCHANGED <<pc, want, slave, master, search, answer, marks, eligible, lost, faults>>

\* safeRedisAppendCommandArgv, for the first ad, of that it was the last (under
\* another key if debugging); then send_redis_command.  A connection that is
\* down takes none of it and is opened for the next; one whose AUTH was refused
\* takes it for nothing.  The slip: every ad is noted as the last.
SlipEveryLast(a) ==
  /\ last' = IF ~debug THEN a ELSE last
  /\ prev' = IF answer # <<>> THEN prev ELSE IF ~debug THEN a ELSE 0

NoteLast(a) ==
  /\ last' = IF answer = <<>> /\ ~debug THEN a ELSE last
  /\ prev' = IF answer # <<>> THEN prev ELSE IF ~debug THEN a ELSE 0

NotNoted == last' = last /\ prev' = IF answer = <<>> THEN 0 ELSE prev

Store ==
  /\ pc = "store" /\ aids # <<>>
  /\ \/ master = "up" /\ NoteLast(Head(aids)) /\ UNCHANGED <<master, lost, faults>>
     \/ Lose /\ master' = "down" /\ NotNoted
     \/ master = "down" /\ Lose /\ master' = "refused" /\ NotNoted
     \/ master = "down" /\ master' = "up" /\ NotNoted /\ UNCHANGED <<lost, faults>>
     \/ master = "refused" /\ NotNoted /\ UNCHANGED <<master, lost, faults>>
  /\ answer' = Append(answer, Head(aids)) /\ aids' = Tail(aids)
  /\ UNCHANGED <<pc, want, slave, search, lastSlave, fresh, eligible>>

Stored ==
  /\ pc = "store" /\ aids = <<>>
  /\ Goto("answer")
  /\ UNCHANGED <<want, slave, master, search, output, marks, eligible, lost, faults>>

\* out_string; what is local to the request is gone.
Answer ==
  /\ pc = "answer"
  /\ Goto("idle") /\ want' = 0
  /\ debug' = FALSE /\ got' = 0 /\ seen' = 0 /\ maps' = {} /\ choice' = {}
  /\ aids' = <<>> /\ answer' = <<>>
  /\ eligible' = {} /\ lost' = FALSE /\ fresh' = FALSE
  /\ UNCHANGED <<slave, master, nodes, pool, last, lastSlave, prev, faults>>

----------------------------------------------------------------------------
(* Redis *)

Replicate ==
  /\ lastSlave # last
  /\ lastSlave' = last
  /\ UNCHANGED <<pc, want, slave, master, search, output, last, prev, fresh, eligible, lost, faults>>

\* The 1800 s of the key are over.
Expire ==
  /\ last # 0
  /\ last' = 0 /\ prev' = 0
  /\ UNCHANGED <<pc, want, slave, master, search, output, lastSlave, fresh, eligible, lost, faults>>

Worker ==
  \/ GetApp \/ GetPrice
  \/ Filters \/ Apps \/ LocalApp \/ Types \/ AppendToNull \/ Intersect
  \/ Debug \/ Near \/ Region \/ Choose
  \/ Bodies \/ NoBody \/ Store \/ Stored \/ Answer

Next == Malformed \/ Request \/ Worker \/ Replicate \/ Expire

Spec == Init /\ [][Next]_vars

\* A worker goes on, and among the requests there are always some that can be
\* answered, however many are malformed.
FairSpec == Spec /\ WF_vars(Worker) /\ SF_vars(Request)

----------------------------------------------------------------------------
(* Properties *)

PoolTypeOK == tables \in Nat /\ held \in SUBSET Nat /\ dirty \in SUBSET Nat

TypeOK ==
  /\ pc \in Places /\ want \in Wants \cup {0}
  /\ slave \in {"up", "broken", "down", "stuck", "refused"}
  /\ master \in {"up", "down", "refused"}
  /\ got \in 0 .. Replies /\ maps \in SUBSET (SUBSET Ads)
  /\ nodes \in 0 .. Nodes /\ choice \in SUBSET Ads
  /\ PoolTypeOK
  /\ aids \in Seq(Ads) /\ answer \in Seq(Ads)
  /\ last \in Ads \cup {0} /\ lastSlave \in Ads \cup {0}
  /\ seen \in Ads \cup {0} /\ prev \in Ads \cup {0}
  /\ eligible \in SUBSET Ads /\ fresh \in BOOLEAN /\ debug \in BOOLEAN
  /\ lost \in BOOLEAN
  /\ faults \in 0 .. MaxFaults

\* Whatever is lost on the way, an ad in an answer is one that no filter of
\* Redis excludes: not one over the limit of its user, not one of another
\* region.  get_ad goes on without the filter whose reply it did not get
\* (allais.c:3676, 3949); it is the error kept in the context (hiredis.c:1076)
\* that keeps the ad from being served.
OnlyEligible == \A i \in DOMAIN answer : answer[i] \in eligible

\* A search never asks for a hash table that the pool does not have (get_ht_map
\* gives NULL, which is not looked at), and it begins with both pools whole and
\* every table cleared (allais.c:4047), whichever break left the one before and
\* wherever maps[1] has moved; or ads of an earlier request would be served,
\* and nodes run out request by request.
PoolWhole ==
  /\ tables <= Tables
  /\ pc \in Begun \cup {"idle"} => nodes = 0 /\ tables = 0 /\ dirty = {}

\* A user who was shown an ad is shown others next, if there are enough and
\* the slave had heard of it.
NotTwiceInARow ==
  pc = "bodies" /\ prev # 0 /\ fresh /\ Cardinality(choice) > want
     => prev \notin Range(aids)

\* The process ends for want of a reply only if one was lost in this request: a
\* connection left broken or down by another is found by get_app or the price,
\* before the commands that do not look at it (allais.c:4799, 3574).
AbortNeedsLoss == pc = "aborted" => lost

\* A connection that was lost is opened again, if the process goes on: however
\* the attempts fail, it does not stay closed (allais.c:2803, 2850).  That it
\* answers is more than the code sees to: see "stuck" and "refused".
Lost == {"broken", "down"}
ConnectionRecovers == (slave \in Lost) ~> (slave \notin Lost \/ pc = "aborted")
=============================================================================
