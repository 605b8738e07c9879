----------------------------- MODULE AdCallback -----------------------------
(***************************************************************************)
(* The callbacks of src/ngix_module/AIS/allais.c.  An ad that was served   *)
(* carries a session id; the user's device reports its show ("cbimp",      *)
(* "imp") and its click ("cbclk", "clk") with that id, any number of times *)
(* and to any worker thread.  ais_callback decides whether a report is     *)
(* genuine, charges the advertiser's order and decides what is billed.     *)
(* All that the workers share is in Redis: they write to the master and    *)
(* read some keys from a slave that is behind.                             *)
(*                                                                         *)
(* Each Redis command is one step.  A command whose reply is awaited may   *)
(* go unsent, or its reply may be lost after the server has executed it    *)
(* (redis_command_pending gives NULL for both); a command that is only     *)
(* sent may be dropped (send_redis_command on a broken connection).        *)
(*                                                                         *)
(* Expiring keys carry the ticks they have left.  A tick is long compared  *)
(* with a callback and with the delay of the slave: time passes only       *)
(* between callbacks, and the slave drops a key when the master does.      *)
(*                                                                         *)
(* The servings are of one ad of one order, on one day: mobile:<user>:     *)
(* shownum and the fields of the other hashes are those of the user.       *)
(* Life and Window are ticks, not seconds.                                 *)
(*                                                                         *)
(* The operators named Slip... are not part of the specification.  Each is *)
(* a slip a programmer could make in the definition that follows it; with  *)
(* the slip in its place one of the properties below is violated.          *)
(***************************************************************************)
EXTENDS Integers, FiniteSets

CONSTANTS
  Workers,    \* the worker threads
  Ads,        \* the servings of an ad, by their session ids
  Users,      \* the devices (uuid)
  UserOf,     \* the device an ad is served to
  PaidOn,     \* CallbackType stored with a serving: what is paid for
  Life,       \* 900 s, in ticks
  Window,     \* 60 s, in ticks
  ShowCap,    \* 12: shows accepted of one user in a window
  ShowBill,   \* 4: shows billed of them
  ClickCap,   \* 6: clicks accepted of one user in a day
  ClickBill,  \* 2: clicks billed of them
  Fre,        \* order:<id>:showfre and :clickfre, 0 for no limit
  MaxFaults,  \* bound on lost commands and crashes
  None

Kinds == {"show", "click"}

ASSUME WorkerAssumption == IsFiniteSet(Workers)
ASSUME UserAssumption == UserOf \in [Ads -> Users]
ASSUME PaidAssumption == PaidOn \in [Ads -> Kinds]
ASSUME TimeAssumption == Life \in Nat \ {0} /\ Window \in Nat \ {0}
ASSUME CapAssumption ==
  /\ ShowCap \in Nat \ {0} /\ ClickCap \in Nat \ {0}
  /\ ShowBill \in Nat /\ ClickBill \in Nat
ASSUME FreAssumption == Fre \in [Kinds -> Nat]
ASSUME FaultAssumption == MaxFaults \in Nat
ASSUME NoneAssumption == None \notin Ads

\* The ticks left of a key that was given no expiry.
Forever == Life + Window

Marks == {"none", "valid", "invalid"}

VARIABLES
  session,   \* adsession:<ad>, ticks left (0: no such key)
  lock,      \* mobile:<ad>:s_lock and :c_lock, ticks left
  mark,      \* mobile:<ad>:show, its value and ticks left
  shownum,   \* mobile:<user>:shownum, its value and ticks left
  clicknum,  \* mobile:<day>:clicknum, the field of the user and the ad
  fre,       \* fre:orderid:<order>:show and :click, the user's field
  tagged,    \* users whose tag:uuid set holds the order's ads
  used,      \* usedmoney:<order>:..., in prices
  taken,     \* what was taken from order:<order>:money balance, in prices
  slave,     \* the slave's adsession:<ad> and mobile:<ad>:show
  h,         \* what each worker is doing
  served,    \* the ads served so far
  counted,   \* how often a show or click of an ad was found genuine
  accepted,  \* the kinds accepted for an ad (assshow, assclick)
  billed,    \* the kinds billed for an ad (masshow, masclick)
  faults

redis == <<session, lock, mark, shownum, clicknum, fre, tagged, used, taken>>
ghost == <<served, counted, accepted, billed>>
vars  == <<redis, slave, h, ghost, faults>>

Pc == {"idle", "getshow", "lock", "expire", "count", "window",
       "price", "used", "taken", "limit", "hit", "tag", "settle"}

\* The callback of a worker: where it is, of which report, and whether it will
\* be billed.
Work == [pc: Pc, ad: Ads \cup {None}, kind: Kinds, bill: BOOLEAN]

RedisOK ==
  /\ session \in [Ads -> 0 .. Life]
  /\ lock \in [Ads -> [Kinds -> 0 .. Forever]]
  /\ mark \in [Ads -> [v: Marks, ttl: 0 .. Life]]
  /\ shownum \in [Users -> [n: Nat, ttl: 0 .. Forever]]
  /\ clicknum \in [Users -> Nat]
  /\ fre \in [Users -> [Kinds -> Nat]]
  /\ tagged \subseteq Users
  /\ used \in Nat /\ taken \in Nat
  /\ slave \in [Ads -> [session: BOOLEAN, mark: Marks]]

WorkOK ==
  /\ h \in [Workers -> Work]
  /\ \A w \in Workers : h[w].pc # "idle" => h[w].ad \in Ads

GhostOK ==
  /\ served \subseteq Ads
  /\ counted \in [Ads -> [Kinds -> Nat]]
  /\ accepted \in [Ads -> SUBSET Kinds]
  /\ billed \in [Ads -> SUBSET Kinds]
  /\ faults \in 0 .. MaxFaults

TypeOK == RedisOK /\ WorkOK /\ GhostOK

Idle == [pc |-> "idle", ad |-> None, kind |-> "show", bill |-> FALSE]

Init ==
  /\ session = [a \in Ads |-> 0]
  /\ lock = [a \in Ads |-> [k \in Kinds |-> 0]]
  /\ mark = [a \in Ads |-> [v |-> "none", ttl |-> 0]]
  /\ shownum = [u \in Users |-> [n |-> 0, ttl |-> 0]]
  /\ clicknum = [u \in Users |-> 0]
  /\ fre = [u \in Users |-> [k \in Kinds |-> 0]]
  /\ tagged = {} /\ used = 0 /\ taken = 0
  /\ slave = [a \in Ads |-> [session |-> FALSE, mark |-> "none"]]
  /\ h = [w \in Workers |-> Idle]
  /\ served = {}
  /\ counted = [a \in Ads |-> [k \in Kinds |-> 0]]
  /\ accepted = [a \in Ads |-> {}] /\ billed = [a \in Ads |-> {}]
  /\ faults = 0

\* Where a worker is goes on, and the end of its callback.
Goto(w, p) == h' = [h EXCEPT ![w].pc = p]
GotoBill(w, p, b) == h' = [h EXCEPT ![w] = [@ EXCEPT !.pc = p, !.bill = b]]
Done(w)    == h' = [h EXCEPT ![w] = Idle]

\* A command that was answered, or that reached the server; and the two ways
\* to fail.
Reached == UNCHANGED faults
Fault   == faults < MaxFaults /\ faults' = faults + 1

----------------------------------------------------------------------------
(* Around the callbacks *)

\* get_adbody stores the session of the ad it answers a request with.
Serve(a) ==
  /\ a \notin served
  /\ served' = served \cup {a}
  /\ session' = [session EXCEPT ![a] = Life]
  /\ UNCHANGED <<lock, mark, shownum, clicknum, fre, tagged, used, taken, slave,
                 h, counted, accepted, billed, faults>>

\* The slave catches up with one key.
ReplicateSession(a) ==
  /\ slave[a].session # (session[a] > 0)
  /\ slave' = [slave EXCEPT ![a].session = session[a] > 0]
  /\ UNCHANGED <<redis, h, ghost, faults>>

ReplicateMark(a) ==
  /\ slave[a].mark # mark[a].v
  /\ slave' = [slave EXCEPT ![a].mark = mark[a].v]
  /\ UNCHANGED <<redis, h, ghost, faults>>

Aged(t) == IF t \in {0, Forever} THEN t ELSE t - 1

\* Time passes and keys expire.
Tick ==
  /\ \A w \in Workers : h[w] = Idle
  /\ session' = [a \in Ads |-> Aged(session[a])]
  /\ lock' = [a \in Ads |-> [k \in Kinds |-> Aged(lock[a][k])]]
  /\ mark' = [a \in Ads |-> IF mark[a].ttl > 1
                            THEN [mark[a] EXCEPT !.ttl = @ - 1]
                            ELSE [v |-> "none", ttl |-> 0]]
  /\ shownum' = [u \in Users |-> IF Aged(shownum[u].ttl) > 0
                                 THEN [shownum[u] EXCEPT !.ttl = Aged(@)]
                                 ELSE [n |-> 0, ttl |-> 0]]
  /\ slave' = [a \in Ads |->
                 [session |-> slave[a].session /\ session'[a] > 0,
                  mark |-> IF mark'[a].ttl > 0 THEN slave[a].mark ELSE "none"]]
  /\ UNCHANGED <<clicknum, fre, tagged, used, taken, h, ghost, faults>>

\* The process ends between any two commands, and is started again.
Crash ==
  /\ Fault
  /\ \E w \in Workers : h[w] # Idle
  /\ h' = [w \in Workers |-> Idle]
  /\ UNCHANGED <<redis, slave, ghost>>

----------------------------------------------------------------------------
(* Is the report genuine? *)

\* The session is read from the slave.  So is the id of the order (5821): what
\* follows from a reply lost there is in Price and Limit.
Begin(w, a, k) ==
  /\ h[w].pc = "idle"
  /\ slave[a].session
  /\ h' = [h EXCEPT ![w] = [pc   |-> IF k = "show" THEN "lock" ELSE "getshow",
                            ad   |-> a,
                            kind |-> k,
                            bill |-> FALSE]]
  /\ UNCHANGED <<redis, slave, ghost, faults>>

SlipNoShowNeeded(w) ==
  /\ h[w].pc = "getshow"
  /\ Reached
  /\ GotoBill(w, "lock", slave[h[w].ad].mark = "valid")
  /\ UNCHANGED <<redis, slave, ghost>>

\* A click needs the mark of a show, which is read from the slave.
GetShow(w) ==
  /\ h[w].pc = "getshow"
  /\ LET m == slave[h[w].ad].mark
     IN \/ /\ m # "none" /\ Reached
           /\ GotoBill(w, "lock", m = "valid")
        \/ /\ m = "none" /\ Reached
           /\ Done(w)
        \/ Fault /\ Done(w)
  /\ UNCHANGED <<redis, slave, ghost>>

\* INCR of the ad's lock: only the report that gets 1 is genuine.
Lock(w) ==
  LET a == h[w].ad
      k == h[w].kind
  IN /\ h[w].pc = "lock"
     /\ \/ /\ lock[a][k] = 0
           /\ lock' = [lock EXCEPT ![a][k] = Forever]
           /\ \/ Reached /\ Goto(w, "expire")
              \/ Fault /\ Done(w)
        \/ /\ lock[a][k] > 0 /\ Reached
           /\ Done(w) /\ UNCHANGED lock
        \/ /\ Fault
           /\ Done(w) /\ UNCHANGED lock
     /\ UNCHANGED <<session, mark, shownum, clicknum, fre, tagged, used, taken,
                    slave, ghost>>

SlipShortLock(w) ==
  LET a == h[w].ad
      k == h[w].kind
  IN /\ h[w].pc = "expire"
     /\ counted' = [counted EXCEPT ![a][k] = @ + 1]
     /\ lock' = [lock EXCEPT ![a][k] = Window] /\ Reached
     /\ Goto(w, "count")
     /\ UNCHANGED <<session, mark, shownum, clicknum, fre, tagged, used, taken,
                    slave, served, accepted, billed>>

\* The lock is given the life of the session; the report counts.
Expire(w) ==
  LET a == h[w].ad
      k == h[w].kind
  IN /\ h[w].pc = "expire"
     /\ counted' = [counted EXCEPT ![a][k] = @ + 1]
     /\ \/ lock' = [lock EXCEPT ![a][k] = Life] /\ Reached
        \/ UNCHANGED lock /\ Fault
     /\ Goto(w, "count")
     /\ UNCHANGED <<session, mark, shownum, clicknum, fre, tagged, used, taken,
                    slave, served, accepted, billed>>

----------------------------------------------------------------------------
(* How many of the user were there already? *)

Accept(a, k) == accepted' = [accepted EXCEPT ![a] = @ \cup {k}]

SlipPaysForAll(a, k) == "price"

\* What follows an accepted report: the charge, if the order pays for it.
AfterCount(a, k) == IF PaidOn[a] = k THEN "price" ELSE "limit"

\* INCR of the user's shows.
CountShow(w) ==
  LET a == h[w].ad
      u == UserOf[a]
      n == shownum[u].n + 1
  IN /\ h[w].pc = "count" /\ h[w].kind = "show"
     /\ \/ /\ shownum' = [shownum EXCEPT ![u].n = n,
                                         ![u].ttl = IF n = 1 THEN Forever ELSE @]
           /\ \/ /\ n <= ShowCap /\ Reached
                 /\ Accept(a, "show")
                 /\ GotoBill(w, IF n = 1 THEN "window" ELSE AfterCount(a, "show"),
                             n <= ShowBill)
              \/ /\ n > ShowCap /\ Reached
                 /\ Done(w) /\ UNCHANGED accepted
              \/ /\ Fault
                 /\ Done(w) /\ UNCHANGED accepted
        \/ /\ Fault
           /\ Done(w) /\ UNCHANGED <<shownum, accepted>>
     /\ UNCHANGED <<session, lock, mark, clicknum, fre, tagged, used, taken,
                    slave, served, counted, billed>>

SlipNoWindow(w) ==
  /\ h[w].pc = "window"
  /\ Goto(w, AfterCount(h[w].ad, "show"))
  /\ UNCHANGED <<redis, slave, ghost, faults>>

\* The first show of a user opens a window of 60 s.
OpenWindow(w) ==
  /\ h[w].pc = "window"
  /\ \/ shownum' = [shownum EXCEPT ![UserOf[h[w].ad]].ttl = Window] /\ Reached
     \/ UNCHANGED shownum /\ Fault
  /\ Goto(w, AfterCount(h[w].ad, "show"))
  /\ UNCHANGED <<session, lock, mark, clicknum, fre, tagged, used, taken, slave,
                 ghost>>

\* HINCRBY of the user's clicks of the day.
CountClick(w) ==
  LET a == h[w].ad
      u == UserOf[a]
      n == clicknum[u] + 1
  IN /\ h[w].pc = "count" /\ h[w].kind = "click"
     /\ \/ /\ clicknum' = [clicknum EXCEPT ![u] = n]
           /\ \/ /\ n <= ClickCap /\ Reached
                 /\ Accept(a, "click")
                 /\ GotoBill(w, AfterCount(a, "click"), h[w].bill /\ n <= ClickBill)
              \/ /\ n > ClickCap /\ Reached
                 /\ Done(w) /\ UNCHANGED accepted
              \/ /\ Fault
                 /\ Done(w) /\ UNCHANGED accepted
        \/ /\ Fault
           /\ Done(w) /\ UNCHANGED <<clicknum, accepted>>
     /\ UNCHANGED <<session, lock, mark, shownum, fre, tagged, used, taken,
                    slave, served, counted, billed>>

----------------------------------------------------------------------------
(* DeductMoney *)

\* The id of the order and the price are read from the slave.  Without a price
\* nothing is charged; without an id the charge goes to no order, and none
\* has a limit.
Price(w) ==
  /\ h[w].pc = "price"
  /\ \/ Reached /\ Goto(w, "used")
     \/ Fault /\ \E p \in {"limit", "settle"} : Goto(w, p)
  /\ UNCHANGED <<redis, slave, ghost>>

\* HINCRBYFLOAT of the money used ...
Used(w) ==
  /\ h[w].pc = "used"
  /\ \/ used' = used + 1 /\ Reached
     \/ UNCHANGED used /\ Fault
  /\ Goto(w, "taken")
  /\ UNCHANGED <<session, lock, mark, shownum, clicknum, fre, tagged, taken,
                 slave, ghost>>

\* ... and of the balance of the order.
Taken(w) ==
  /\ h[w].pc = "taken"
  /\ \/ taken' = taken + 1 /\ Reached
     \/ UNCHANGED taken /\ Fault
  /\ Goto(w, "limit")
  /\ UNCHANGED <<session, lock, mark, shownum, clicknum, fre, tagged, used,
                 slave, ghost>>

----------------------------------------------------------------------------
(* The frequency limit of the order, and the outcome *)

\* The limit is read (of a show at allais.c:5926, of a click at 6053), for the
\* order whose id was read before.  A click for which there is an id and no
\* limit to be had ends here, unbilled.
Limit(w) ==
  LET k == h[w].kind
  IN /\ h[w].pc = "limit"
     /\ \/ Reached /\ Goto(w, IF Fre[k] > 0 THEN "hit" ELSE "settle")
        \/ Fault /\ Goto(w, "settle")
        \/ k = "click" /\ Fault /\ Done(w)
     /\ UNCHANGED <<redis, slave, ghost>>

SlipPastLimit(n, k) == n > Fre[k]

AtLimit(n, k) == n >= Fre[k]

\* HINCRBY of the user's shows (5938) or clicks (6081) of the order.  A show
\* passes over a missing reply; a click reads through it, and the process ends.
Hit(w) ==
  LET k == h[w].kind
      u == UserOf[h[w].ad]
      n == fre[u][k] + 1
  IN /\ h[w].pc = "hit"
     /\ \/ /\ Reached
           /\ fre' = [fre EXCEPT ![u][k] = n]
           /\ Goto(w, IF AtLimit(n, k) THEN "tag" ELSE "settle")
        \/ /\ Fault
           /\ fre' \in {fre, [fre EXCEPT ![u][k] = n]}
           /\ \/ k = "show" /\ Goto(w, "settle")
              \/ k = "click" /\ h' = [x \in Workers |-> Idle]
     /\ UNCHANGED <<session, lock, mark, shownum, clicknum, tagged, used, taken,
                    slave, ghost>>

\* The order's ads, read from the slave (5946, 6088; the one that was served is
\* among them, so there are some), are added to those not to be served to the
\* user.  Without an answer to the read a click ends, unbilled, and the process
\* ends on a show.
Tag(w) ==
  LET u == UserOf[h[w].ad]
      k == h[w].kind
  IN /\ h[w].pc = "tag"
     /\ \/ tagged' = tagged \cup {u} /\ Reached /\ Goto(w, "settle")
        \/ UNCHANGED tagged /\ Fault /\ Goto(w, "settle")
        \/ /\ k = "click" /\ Fault
           /\ tagged' \in {tagged, tagged \cup {u}} /\ Done(w)
        \/ /\ k = "show" /\ Fault
           /\ UNCHANGED tagged /\ h' = [x \in Workers |-> Idle]
     /\ UNCHANGED <<session, lock, mark, shownum, clicknum, fre, used, taken,
                    slave, ghost>>

Bill(a, k, bill) ==
  billed' = [billed EXCEPT ![a] = IF bill THEN @ \cup {k} ELSE @]

Validity(bill) == IF bill THEN "valid" ELSE "invalid"

SlipAlwaysValid(bill) == [v |-> "valid", ttl |-> Life]

ShowMark(bill) == [v |-> Validity(bill), ttl |-> Life]

\* A show leaves the mark a click will ask for.
SettleShow(w) ==
  LET a == h[w].ad
  IN /\ h[w].pc = "settle" /\ h[w].kind = "show"
     /\ \/ mark' = [mark EXCEPT ![a] = ShowMark(h[w].bill)] /\ Reached
        \/ UNCHANGED mark /\ Fault
     /\ Bill(a, "show", h[w].bill)
     /\ Done(w)
     /\ UNCHANGED <<session, lock, shownum, clicknum, fre, tagged, used, taken,
                    slave, served, counted, accepted>>

SettleClick(w) ==
  /\ h[w].pc = "settle" /\ h[w].kind = "click"
  /\ Bill(h[w].ad, "click", h[w].bill)
  /\ Done(w)
  /\ UNCHANGED <<redis, slave, served, counted, accepted, faults>>

Step(w) ==
  \/ GetShow(w) \/ Lock(w) \/ Expire(w)
  \/ CountShow(w) \/ OpenWindow(w) \/ CountClick(w)
  \/ Price(w) \/ Used(w) \/ Taken(w)
  \/ Limit(w) \/ Hit(w) \/ Tag(w)
  \/ SettleShow(w) \/ SettleClick(w)

Next ==
  \/ \E a \in Ads : Serve(a) \/ ReplicateSession(a) \/ ReplicateMark(a)
  \/ \E w \in Workers, a \in Ads, k \in Kinds : Begin(w, a, k)
  \/ \E w \in Workers : Step(w)
  \/ Tick
  \/ Crash

Spec == Init /\ [][Next]_vars

----------------------------------------------------------------------------
(* Properties *)

\* However often, and to however many workers, a show or click of an ad is
\* reported, it counts at most once: the lock outlives the session that a
\* report needs (s_lock and c_lock, allais.c:5868 and 5997).
CountedOnce == \A a \in Ads, k \in Kinds : counted[a][k] <= 1

\* A click that counts is of an ad whose show was accepted, and one that is
\* billed of an ad whose show was billed, although the click reads the mark of
\* the show from the slave (allais.c:5982, 6115).
ClickFollowsShow ==
  \A a \in Ads :
    /\ counted[a]["click"] > 0 => "show" \in accepted[a]
    /\ "click" \in billed[a] => "show" \in billed[a]

Chargeable == {a \in Ads : PaidOn[a] \in accepted[a]}
At(ps) == {w \in Workers : h[w].pc \in ps}
\* What DeductMoney still has to do for the callbacks under way.
ToUse  == {w \in Workers : \/ h[w].pc \in {"price", "used"}
                           \/ /\ h[w].pc = "window"
                              /\ PaidOn[h[w].ad] = "show"}
ToTake == ToUse \cup At({"taken"})

\* The order is charged once for each ad it pays for, never for the other kind
\* of report, and both accounts of it agree up to what is under way and what
\* lost commands took away (DeductMoney, allais.c:3132 and 3183).
ChargedExactly ==
  LET due   == Cardinality(Chargeable)
      slack == faults * Cardinality(Workers)
  IN /\ used + Cardinality(ToUse) <= due
     /\ taken + Cardinality(ToTake) <= due
     /\ due - slack <= used + Cardinality(ToUse)
     /\ due - slack <= taken + Cardinality(ToTake)

\* A lock or a window without an expiry is one whose worker is about to give
\* it one: only the report that got 1 does so (allais.c:5874, 5905), so a lost
\* command leaves it for ever, and nothing else does.
EveryKeyExpires ==
  faults = 0 =>
    /\ \A a \in Ads, k \in Kinds :
         lock[a][k] = Forever =>
           \E w \in At({"expire"}) : h[w].ad = a /\ h[w].kind = k
    /\ \A u \in Users :
         shownum[u].ttl = Forever =>
           \E w \in At({"window"}) : UserOf[h[w].ad] = u

\* A user who has reached the limit of an order is tagged with its ads, which
\* get_ad takes out of a search, once the report that reached the limit is
\* through (allais.c:5943, 6083).
LimitTags ==
  faults = 0 =>
    \A u \in Users, k \in Kinds :
      Fre[k] > 0 /\ fre[u][k] >= Fre[k] =>
        u \in tagged \/ \E w \in At({"tag"}) : UserOf[h[w].ad] = u
=============================================================================
