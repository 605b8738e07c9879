-------------------------- MODULE AdCallbackProofs --------------------------
(***************************************************************************)
(* For any number of workers, users and ads, and any number of lost        *)
(* commands, lost replies and crashes: a show or a click of an ad counts   *)
(* at most once, and only a shown ad's click counts.                       *)
(*                                                                         *)
(* CountedOnce alone is not inductive.  That the lock of a report that     *)
(* counted still stands when the report is repeated follows from its       *)
(* outliving the session (LockOutlives), which the callback under way has  *)
(* seen alive (SessionAlive); and that two callbacks which found the lock  *)
(* free are of different reports from the lock having no expiry while a    *)
(* worker is between INCR and EXPIRE (LockedAlone).                        *)
(*                                                                         *)
(* ClickFollowsShow needs that every mark of a show, on the master and on  *)
(* the slave, is of a show that was accepted, and a valid one of a show    *)
(* that was billed (MarksTrue), and that a click which has read one        *)
(* carries it on unchanged (UnderWay).                                     *)
(*                                                                         *)
(* As long as no command was lost, the step that makes a key without an    *)
(* expiry, or reaches a limit, puts its worker where the expiry or the tag *)
(* comes next, and nothing but that worker moves it on (Clean).            *)
(*                                                                         *)
(* ChargedExactly counts.  A report that counts has not been accepted and  *)
(* no other callback under way is of it (CountedFirst), so the step that   *)
(* accepts it adds exactly one ad to those the order pays for.  Every step *)
(* changes the two accounts, what is owed to them and what they are due in *)
(* one of five ways (Effect), and each way keeps both in balance           *)
(* (Balanced), a fault losing at most one callback of every worker.        *)
(***************************************************************************)
EXTENDS AdCallback, FiniteSetTheorems, TLAPS

\* The slave knows of no session that is gone, and a callback under way is of
\* a session that is alive.
SessionAlive ==
  /\ \A a \in Ads : slave[a].session => session[a] > 0
  /\ \A w \in Workers : h[w].pc # "idle" => session[h[w].ad] > 0

\* Only an ad that was served has a session or a count.
ServedFirst ==
  \A a \in Ads : a \notin served =>
    /\ session[a] = 0
    /\ \A k \in Kinds : counted[a][k] = 0

LockOutlives ==
  \A a \in Ads, k \in Kinds : counted[a][k] > 0 => lock[a][k] >= session[a]

\* Whoever found the lock free is alone until the lock has its expiry.
LockedAlone ==
  \A w \in Workers : h[w].pc = "expire" =>
    /\ lock[h[w].ad][h[w].kind] = Forever
    /\ counted[h[w].ad][h[w].kind] = 0
    /\ \A x \in Workers \ {w} :
         ~ (h[x].pc = "expire" /\ h[x].ad = h[w].ad /\ h[x].kind = h[w].kind)

OnceInv == TypeOK /\ SessionAlive /\ ServedFirst /\ LockOutlives /\ LockedAlone
           /\ CountedOnce

\* The marks, on the master and on the slave, of shows that were accepted.
MarksTrue ==
  \A a \in Ads : \A m \in {mark[a].v, slave[a].mark} :
    /\ m # "none" => "show" \in accepted[a]
    /\ m = "valid" => "show" \in billed[a]

Accepted == {"window", "price", "used", "taken", "limit", "hit", "tag", "settle"}

\* A click that found a mark, and a show past its count.
UnderWay ==
  \A w \in Workers :
    LET a == h[w].ad
    IN /\ h[w].kind = "click" /\ h[w].pc \notin {"idle", "getshow"} =>
            /\ "show" \in accepted[a]
            /\ h[w].bill => "show" \in billed[a]
       /\ h[w].kind = "show" /\ h[w].pc \in Accepted => "show" \in accepted[a]

FollowInv == TypeOK /\ MarksTrue /\ UnderWay /\ ClickFollowsShow

----------------------------------------------------------------------------
(* The records of the workers *)

LEMMA WorkFields ==
  ASSUME NEW r \in Work
  PROVE  r.pc \in Pc /\ r.ad \in Ads \cup {None} /\ r.kind \in Kinds /\ r.bill \in BOOLEAN
  BY DEF Work

LEMMA WorkMoved ==
  ASSUME NEW r \in Work, NEW p \in Pc
  PROVE  [r EXCEPT !.pc = p] \in Work
  BY DEF Work

LEMMA IdleWork == Idle \in Work /\ Idle.pc = "idle"
  BY DEF Work, Idle, Pc, Kinds

\* A worker that goes on keeps its report.
LEMMA GotoMoves ==
  ASSUME WorkOK, NEW w \in Workers, h[w].pc # "idle", NEW p \in Pc, Goto(w, p)
  PROVE  /\ WorkOK'
         /\ h'[w] = [h[w] EXCEPT !.pc = p]
         /\ \A x \in Workers : x # w => h'[x] = h[x]
<1>1. h'[w] = [h[w] EXCEPT !.pc = p] /\ \A x \in Workers : x # w => h'[x] = h[x]
  BY DEF Goto, WorkOK
<1>2. h' \in [Workers -> Work]
  <2>1. [h[w] EXCEPT !.pc = p] \in Work
    BY WorkMoved DEF WorkOK
  <2> QED BY <2>1 DEF Goto, WorkOK
<1>3. h'[w].ad = h[w].ad
  BY <1>1, WorkFields DEF WorkOK, Work
<1> QED BY <1>1, <1>2, <1>3 DEF WorkOK

LEMMA BillMoves ==
  ASSUME WorkOK, NEW w \in Workers, h[w].pc # "idle", NEW p \in Pc, NEW b \in BOOLEAN,
         GotoBill(w, p, b)
  PROVE  /\ WorkOK'
         /\ h'[w] = [h[w] EXCEPT !.pc = p, !.bill = b]
         /\ \A x \in Workers : x # w => h'[x] = h[x]
<1>1. h'[w] = [h[w] EXCEPT !.pc = p, !.bill = b] /\ \A x \in Workers : x # w => h'[x] = h[x]
  BY DEF GotoBill, WorkOK
<1>2. h' \in [Workers -> Work]
  <2> DEFINE r == [h[w] EXCEPT !.pc = p, !.bill = b]
  <2>1. r \in Work
    BY DEF WorkOK, Work
  <2>2. h' = [h EXCEPT ![w] = r] /\ h \in [Workers -> Work]
    BY DEF GotoBill, WorkOK
  <2> HIDE DEF r
  <2> QED BY <2>1, <2>2
<1>3. h'[w].ad = h[w].ad
  BY <1>1, WorkFields DEF WorkOK, Work
<1> QED BY <1>1, <1>2, <1>3 DEF WorkOK

LEMMA DoneMoves ==
  ASSUME WorkOK, NEW w \in Workers, Done(w)
  PROVE  /\ WorkOK'
         /\ h'[w] = Idle
         /\ \A x \in Workers : x # w => h'[x] = h[x]
  BY IdleWork DEF Done, WorkOK

LEMMA AllIdle ==
  ASSUME h' = [w \in Workers |-> Idle]
  PROVE  WorkOK'
  BY IdleWork DEF WorkOK

----------------------------------------------------------------------------
(* Types *)

LEMMA StepFields ==
  ASSUME TypeOK, NEW w \in Workers, h[w].pc # "idle"
  PROVE  h[w].ad \in Ads /\ h[w].kind \in Kinds /\ h[w].bill \in BOOLEAN
         /\ UserOf[h[w].ad] \in Users
  BY WorkFields, UserAssumption DEF TypeOK, WorkOK

\* What a step of a worker can do to the workers.
Moves(w) ==
  \/ \E p \in Pc : Goto(w, p)
  \/ \E p \in Pc, b \in BOOLEAN : GotoBill(w, p, b)
  \/ Done(w)
  \/ h' = [x \in Workers |-> Idle]

LEMMA StepMoves ==
  ASSUME TypeOK, NEW w \in Workers, Step(w)
  PROVE  h[w].pc # "idle" /\ Moves(w)
<1> USE DEF Moves, Pc
<1>1. CASE GetShow(w)
  BY <1>1 DEF GetShow
<1>2. CASE Lock(w) \/ Expire(w)
  BY <1>2 DEF Lock, Expire
<1>3. CASE CountShow(w)
  <2> DEFINE n == shownum[UserOf[h[w].ad]].n + 1
             p == IF n = 1 THEN "window" ELSE AfterCount(h[w].ad, "show")
  <2>1. p \in Pc /\ (n <= ShowBill) \in BOOLEAN
    BY DEF AfterCount
  <2>2. h[w].pc # "idle" /\ (GotoBill(w, p, n <= ShowBill) \/ Done(w))
    BY <1>3 DEF CountShow
  <2> HIDE DEF n, p
  <2> QED BY <2>1, <2>2
<1>4. CASE OpenWindow(w)
  BY <1>4 DEF OpenWindow, AfterCount
<1>5. CASE CountClick(w)
  BY <1>5, StepFields, CapAssumption DEF CountClick, AfterCount
<1>6. CASE Price(w) \/ Used(w) \/ Taken(w)
  BY <1>6 DEF Price, Used, Taken
<1>7. CASE Limit(w) \/ Hit(w) \/ Tag(w)
  BY <1>7 DEF Limit, Hit, Tag
<1>8. CASE SettleShow(w) \/ SettleClick(w)
  BY <1>8 DEF SettleShow, SettleClick
<1> QED BY <1>1, <1>2, <1>3, <1>4, <1>5, <1>6, <1>7, <1>8 DEF Step

LEMMA WorkMoves ==
  ASSUME WorkOK, NEW w \in Workers, h[w].pc # "idle", Moves(w)
  PROVE  WorkOK'
<1>1. ASSUME NEW p \in Pc, Goto(w, p) PROVE WorkOK'
  BY <1>1, GotoMoves
<1>2. ASSUME NEW p \in Pc, NEW b \in BOOLEAN, GotoBill(w, p, b) PROVE WorkOK'
  BY <1>2, BillMoves, Zenon
<1>3. CASE Done(w)
  BY <1>3, DoneMoves
<1>4. CASE h' = [x \in Workers |-> Idle]
  BY <1>4, AllIdle
<1> QED BY <1>1, <1>2, <1>3, <1>4, Zenon DEF Moves

LEMMA WorkStep == TypeOK /\ [Next]_vars => WorkOK'
<1> SUFFICES ASSUME TypeOK, [Next]_vars PROVE WorkOK'
  OBVIOUS
<1>0. WorkOK BY DEF TypeOK
<1>1. ASSUME NEW a \in Ads, Serve(a) \/ ReplicateSession(a) \/ ReplicateMark(a)
      PROVE WorkOK'
  BY <1>0, <1>1 DEF Serve, ReplicateSession, ReplicateMark, WorkOK
<1>2. ASSUME NEW w \in Workers, NEW a \in Ads, NEW k \in Kinds, Begin(w, a, k)
      PROVE WorkOK'
  <2> DEFINE r == [pc |-> IF k = "show" THEN "lock" ELSE "getshow", ad |-> a,
                   kind |-> k, bill |-> FALSE]
  <2>1. r \in Work /\ r.ad \in Ads
    BY DEF Work, Pc
  <2>2. h' = [h EXCEPT ![w] = r]
    BY <1>2 DEF Begin
  <2> HIDE DEF r
  <2> QED BY <1>0, <2>1, <2>2 DEF WorkOK
<1>3. CASE Tick \/ UNCHANGED vars
  BY <1>0, <1>3 DEF Tick, WorkOK, vars
<1>4. CASE Crash
  BY <1>4, AllIdle DEF Crash
<1>5. ASSUME NEW w \in Workers, Step(w) PROVE WorkOK'
  BY <1>0, <1>5, StepMoves, WorkMoves, Zenon
<1> QED BY <1>1, <1>2, <1>3, <1>4, <1>5 DEF Next

LEMMA AgedInRange ==
  /\ \A t \in 0 .. Life : Aged(t) \in 0 .. Life
  /\ \A t \in 0 .. Forever : Aged(t) \in 0 .. Forever
  BY TimeAssumption DEF Aged, Forever

LEMMA Put ==
  ASSUME NEW S, NEW T, NEW f \in [S -> T], NEW x \in S, NEW v \in T
  PROVE  [f EXCEPT ![x] = v] \in [S -> T]
  OBVIOUS

LEMMA PutIn ==
  ASSUME NEW S, NEW U, NEW T, NEW f \in [S -> [U -> T]], NEW x \in S, NEW y \in U, NEW v \in T
  PROVE  [f EXCEPT ![x][y] = v] \in [S -> [U -> T]]
  OBVIOUS

\* A step of a worker, one variable at a time.
LEMMA LockTyped ==
  ASSUME TypeOK, NEW w \in Workers, Lock(w) \/ Expire(w)
  PROVE  lock' \in [Ads -> [Kinds -> 0 .. Forever]] /\ counted' \in [Ads -> [Kinds -> Nat]]
<1> DEFINE a == h[w].ad
           k == h[w].kind
<1>1. a \in Ads /\ k \in Kinds
  BY StepFields DEF Lock, Expire
<1>2. Life \in 0 .. Forever /\ Forever \in 0 .. Forever
  BY TimeAssumption DEF Forever
<1>3. lock \in [Ads -> [Kinds -> 0 .. Forever]] /\ counted \in [Ads -> [Kinds -> Nat]]
  BY DEF TypeOK, RedisOK, GhostOK
<1>4. \/ lock' = lock
      \/ lock' = [lock EXCEPT ![a][k] = Forever]
      \/ lock' = [lock EXCEPT ![a][k] = Life]
  BY DEF Lock, Expire
<1>5. counted' = counted \/ counted' = [counted EXCEPT ![a][k] = counted[a][k] + 1]
  BY <1>1, <1>3 DEF Lock, Expire, ghost
<1>6. counted[a][k] + 1 \in Nat
  BY <1>1, <1>3
<1> HIDE DEF a, k
<1>7. lock' \in [Ads -> [Kinds -> 0 .. Forever]]
  <2>1. /\ [lock EXCEPT ![a][k] = Forever] \in [Ads -> [Kinds -> 0 .. Forever]]
        /\ [lock EXCEPT ![a][k] = Life] \in [Ads -> [Kinds -> 0 .. Forever]]
    BY <1>1, <1>2, <1>3, PutIn, Zenon
  <2> QED BY <1>3, <1>4, <2>1
<1>8. counted' \in [Ads -> [Kinds -> Nat]]
  <2>1. [counted EXCEPT ![a][k] = counted[a][k] + 1] \in [Ads -> [Kinds -> Nat]]
    BY <1>1, <1>3, <1>6, PutIn, Zenon
  <2> QED BY <1>3, <1>5, <2>1
<1> QED BY <1>7, <1>8

LEMMA NumTyped ==
  ASSUME TypeOK, NEW w \in Workers, CountShow(w) \/ OpenWindow(w)
  PROVE  shownum' \in [Users -> [n: Nat, ttl: 0 .. Forever]]
<1> DEFINE u == UserOf[h[w].ad]
           c == shownum[u]
<1>1. u \in Users
  BY StepFields DEF CountShow, OpenWindow
<1>2. shownum \in [Users -> [n: Nat, ttl: 0 .. Forever]]
  BY DEF TypeOK, RedisOK
<1>3. c \in [n: Nat, ttl: 0 .. Forever]
  BY <1>1, <1>2
<1>4. Window \in 0 .. Forever /\ Forever \in 0 .. Forever
  BY TimeAssumption DEF Forever
<1> HIDE DEF u, c
<1>5. /\ [c EXCEPT !.ttl = Window] \in [n: Nat, ttl: 0 .. Forever]
      /\ [c EXCEPT !.n = c.n + 1, !.ttl = Forever] \in [n: Nat, ttl: 0 .. Forever]
      /\ [c EXCEPT !.n = c.n + 1] \in [n: Nat, ttl: 0 .. Forever]
      /\ [c EXCEPT !.n = c.n + 1, !.ttl = c.ttl] \in [n: Nat, ttl: 0 .. Forever]
  <2>1. c.n + 1 \in Nat /\ c.ttl \in 0 .. Forever
    BY <1>3
  <2> QED BY <1>3, <1>4, <2>1
<1>6. \/ shownum' = shownum
      \/ shownum' = [shownum EXCEPT ![u] = [c EXCEPT !.ttl = Window]]
      \/ shownum' = [shownum EXCEPT ![u] = [c EXCEPT !.n = c.n + 1, !.ttl = Forever]]
      \/ shownum' = [shownum EXCEPT ![u] = [c EXCEPT !.n = c.n + 1, !.ttl = c.ttl]]
  BY DEF CountShow, OpenWindow, u, c
<1>7. \A r \in [n: Nat, ttl: 0 .. Forever] :
        [shownum EXCEPT ![u] = r] \in [Users -> [n: Nat, ttl: 0 .. Forever]]
  BY <1>1, <1>2, Put, Zenon
<1> QED BY <1>2, <1>5, <1>6, <1>7

LEMMA AcceptTyped ==
  ASSUME TypeOK, NEW w \in Workers, CountShow(w) \/ CountClick(w)
  PROVE  accepted' \in [Ads -> SUBSET Kinds] /\ clicknum' \in [Users -> Nat]
<1> DEFINE a == h[w].ad
           u == UserOf[a]
<1>1. a \in Ads /\ u \in Users
  BY StepFields DEF CountShow, CountClick
<1>2. accepted \in [Ads -> SUBSET Kinds] /\ clicknum \in [Users -> Nat]
  BY DEF TypeOK, RedisOK, GhostOK
<1>3. \/ accepted' = accepted
      \/ accepted' = [accepted EXCEPT ![a] = accepted[a] \cup {"show"}]
      \/ accepted' = [accepted EXCEPT ![a] = accepted[a] \cup {"click"}]
  BY <1>1, <1>2 DEF CountShow, CountClick, Accept
<1>4. clicknum' = clicknum \/ clicknum' = [clicknum EXCEPT ![u] = clicknum[u] + 1]
  BY DEF CountShow, CountClick
<1>5. /\ accepted[a] \cup {"show"} \in SUBSET Kinds
      /\ accepted[a] \cup {"click"} \in SUBSET Kinds
      /\ clicknum[u] + 1 \in Nat
  BY <1>1, <1>2 DEF Kinds
<1> HIDE DEF a, u
<1> QED BY <1>1, <1>2, <1>3, <1>4, <1>5, Put

LEMMA HitTyped ==
  ASSUME TypeOK, NEW w \in Workers, Hit(w) \/ Tag(w)
  PROVE  fre' \in [Users -> [Kinds -> Nat]] /\ tagged' \subseteq Users
<1> DEFINE u == UserOf[h[w].ad]
           k == h[w].kind
<1>1. u \in Users /\ k \in Kinds
  BY StepFields DEF Hit, Tag
<1>2. fre \in [Users -> [Kinds -> Nat]] /\ tagged \subseteq Users
  BY DEF TypeOK, RedisOK
<1>3. fre' = fre \/ fre' = [fre EXCEPT ![u][k] = fre[u][k] + 1]
  BY DEF Hit, Tag
<1>4. tagged' = tagged \/ tagged' = tagged \cup {u}
  BY DEF Hit, Tag
<1>5. fre[u][k] + 1 \in Nat
  BY <1>1, <1>2
<1> HIDE DEF u, k
<1>6. [fre EXCEPT ![u][k] = fre[u][k] + 1] \in [Users -> [Kinds -> Nat]]
  BY <1>1, <1>2, <1>5, PutIn, Zenon
<1> QED BY <1>1, <1>2, <1>3, <1>4, <1>6

LEMMA SettleTyped ==
  ASSUME TypeOK, NEW w \in Workers, SettleShow(w) \/ SettleClick(w)
  PROVE  mark' \in [Ads -> [v: Marks, ttl: 0 .. Life]] /\ billed' \in [Ads -> SUBSET Kinds]
<1> DEFINE a == h[w].ad
           m == ShowMark(h[w].bill)
<1>1. a \in Ads
  BY StepFields DEF SettleShow, SettleClick
<1>2. mark \in [Ads -> [v: Marks, ttl: 0 .. Life]] /\ billed \in [Ads -> SUBSET Kinds]
  BY DEF TypeOK, RedisOK, GhostOK
<1>3. m \in [v: Marks, ttl: 0 .. Life]
  BY TimeAssumption DEF ShowMark, Validity, Marks
<1>4. mark' = mark \/ mark' = [mark EXCEPT ![a] = m]
  BY DEF SettleShow, SettleClick, redis
<1>5. \/ billed' = [billed EXCEPT ![a] = billed[a]]
      \/ billed' = [billed EXCEPT ![a] = billed[a] \cup {"show"}]
      \/ billed' = [billed EXCEPT ![a] = billed[a] \cup {"click"}]
  BY <1>1, <1>2 DEF SettleShow, SettleClick, Bill
<1>6. /\ billed[a] \in SUBSET Kinds
      /\ billed[a] \cup {"show"} \in SUBSET Kinds
      /\ billed[a] \cup {"click"} \in SUBSET Kinds
  BY <1>1, <1>2 DEF Kinds
<1> HIDE DEF a, m
<1>7. [mark EXCEPT ![a] = m] \in [Ads -> [v: Marks, ttl: 0 .. Life]]
  BY <1>1, <1>2, <1>3, Put, Zenon
<1>8. /\ [billed EXCEPT ![a] = billed[a]] \in [Ads -> SUBSET Kinds]
      /\ [billed EXCEPT ![a] = billed[a] \cup {"show"}] \in [Ads -> SUBSET Kinds]
      /\ [billed EXCEPT ![a] = billed[a] \cup {"click"}] \in [Ads -> SUBSET Kinds]
  BY <1>1, <1>2, <1>6, Put, Zenon
<1> QED BY <1>2, <1>4, <1>5, <1>7, <1>8

LEMMA TickTyped ==
  ASSUME TypeOK, Tick
  PROVE  RedisOK'
<1>1. session' \in [Ads -> 0 .. Life]
  BY AgedInRange DEF Tick, TypeOK, RedisOK
<1>2. lock' \in [Ads -> [Kinds -> 0 .. Forever]]
  BY AgedInRange DEF Tick, TypeOK, RedisOK
<1>3. mark' \in [Ads -> [v: Marks, ttl: 0 .. Life]]
  <2> DEFINE R == [v: Marks, ttl: 0 .. Life]
             r(a) == IF mark[a].ttl > 1 THEN [mark[a] EXCEPT !.ttl = @ - 1]
                     ELSE [v |-> "none", ttl |-> 0]
  <2>1. \A a \in Ads : mark[a] \in R
    BY DEF TypeOK, RedisOK
  <2>2. \A m \in R : m.ttl > 1 => [m EXCEPT !.ttl = m.ttl - 1] \in R
    BY TimeAssumption
  <2>3. [v |-> "none", ttl |-> 0] \in R
    BY TimeAssumption DEF Marks
  <2>4. \A a \in Ads : r(a) \in R
    BY <2>1, <2>2, <2>3
  <2>5. mark' = [a \in Ads |-> r(a)]
    BY DEF Tick
  <2> HIDE DEF R, r
  <2>6. mark' \in [Ads -> R]
    BY <2>4, <2>5
  <2> QED BY <2>6 DEF R
<1>4. shownum' \in [Users -> [n: Nat, ttl: 0 .. Forever]]
  <2> DEFINE R == [n: Nat, ttl: 0 .. Forever]
             r(u) == IF Aged(shownum[u].ttl) > 0
                     THEN [shownum[u] EXCEPT !.ttl = Aged(@)]
                     ELSE [n |-> 0, ttl |-> 0]
  <2>1. \A u \in Users : shownum[u] \in R
    BY DEF TypeOK, RedisOK
  <2>2. \A c \in R : [c EXCEPT !.ttl = Aged(c.ttl)] \in R
    BY AgedInRange
  <2>3. [n |-> 0, ttl |-> 0] \in R
    BY TimeAssumption DEF Forever
  <2>4. \A u \in Users : r(u) \in R
    BY <2>1, <2>2, <2>3
  <2>5. shownum' = [u \in Users |-> r(u)]
    BY DEF Tick
  <2> HIDE DEF R, r
  <2>6. shownum' \in [Users -> R]
    BY <2>4, <2>5
  <2> QED BY <2>6 DEF R
<1>5. slave' \in [Ads -> [session: BOOLEAN, mark: Marks]]
  <2> DEFINE r(a) == [session |-> slave[a].session /\ session'[a] > 0,
                      mark |-> IF mark'[a].ttl > 0 THEN slave[a].mark ELSE "none"]
  <2>1. \A a \in Ads : r(a) \in [session: BOOLEAN, mark: Marks]
    BY DEF TypeOK, RedisOK, Marks
  <2>2. slave' = [a \in Ads |-> r(a)]
    BY DEF Tick
  <2> HIDE DEF r
  <2> QED BY <2>1, <2>2
<1> QED BY <1>1, <1>2, <1>3, <1>4, <1>5 DEF Tick, TypeOK, RedisOK

LEMMA ReplicaTyped ==
  ASSUME TypeOK, NEW a \in Ads, ReplicateSession(a) \/ ReplicateMark(a)
  PROVE  slave' \in [Ads -> [session: BOOLEAN, mark: Marks]]
<1> DEFINE R == [session: BOOLEAN, mark: Marks]
           r1 == [slave[a] EXCEPT !.session = session[a] > 0]
           r2 == [slave[a] EXCEPT !.mark = mark[a].v]
<1>1. slave \in [Ads -> R] /\ slave[a] \in R /\ mark[a].v \in Marks
  BY DEF TypeOK, RedisOK
<1>2. r1 \in R /\ r2 \in R
  <2>1. (session[a] > 0) \in BOOLEAN
    OBVIOUS
  <2>2. r2 \in R
    BY <1>1
  <2>3. \A r \in R, b \in BOOLEAN : [r EXCEPT !.session = b] \in R
    OBVIOUS
  <2> QED BY <1>1, <2>1, <2>2, <2>3, Zenon
<1>3. slave' = [slave EXCEPT ![a] = r1] \/ slave' = [slave EXCEPT ![a] = r2]
  BY DEF ReplicateSession, ReplicateMark
<1> HIDE DEF R, r1, r2
<1>4. slave' \in [Ads -> R]
  BY <1>1, <1>2, <1>3
<1> QED BY <1>4 DEF R

LEMMA DataStep == TypeOK /\ [Next]_vars => RedisOK' /\ GhostOK'
<1> SUFFICES ASSUME TypeOK, [Next]_vars PROVE RedisOK' /\ GhostOK'
  OBVIOUS
<1>0. RedisOK /\ GhostOK BY DEF TypeOK
<1> USE FaultAssumption DEF Reached, Fault, redis, ghost
<1>1. ASSUME NEW a \in Ads, Serve(a) PROVE RedisOK' /\ GhostOK'
  BY <1>0, <1>1, TimeAssumption DEF Serve, RedisOK, GhostOK
<1>2. ASSUME NEW a \in Ads, ReplicateSession(a) \/ ReplicateMark(a)
      PROVE RedisOK' /\ GhostOK'
  BY <1>0, <1>2, ReplicaTyped DEF ReplicateSession, ReplicateMark, RedisOK, GhostOK
<1>3. ASSUME NEW w \in Workers, NEW a \in Ads, NEW k \in Kinds, Begin(w, a, k)
      PROVE RedisOK' /\ GhostOK'
  BY <1>0, <1>3 DEF Begin, RedisOK, GhostOK
<1>4. CASE Tick
  BY <1>0, <1>4, TickTyped DEF Tick, GhostOK
<1>5. CASE Crash \/ UNCHANGED vars
  BY <1>0, <1>5 DEF Crash, vars, RedisOK, GhostOK
<1>6. ASSUME NEW w \in Workers, GetShow(w) \/ Price(w) \/ Limit(w)
      PROVE RedisOK' /\ GhostOK'
  BY <1>0, <1>6 DEF GetShow, Price, Limit, RedisOK, GhostOK
<1>7. ASSUME NEW w \in Workers, Lock(w) \/ Expire(w)
      PROVE RedisOK' /\ GhostOK'
  <2>1. lock' \in [Ads -> [Kinds -> 0 .. Forever]] /\ counted' \in [Ads -> [Kinds -> Nat]]
    BY <1>7, LockTyped
  <2>2. faults' \in 0 .. MaxFaults
    BY <1>0, <1>7 DEF Lock, Expire, GhostOK
  <2>3. UNCHANGED <<session, mark, shownum, clicknum, fre, tagged, used, taken,
                 slave, served, accepted, billed>>
    BY <1>7 DEF Lock, Expire
  <2> QED BY <1>0, <2>1, <2>2, <2>3 DEF RedisOK, GhostOK
<1>8. ASSUME NEW w \in Workers, CountShow(w) PROVE RedisOK' /\ GhostOK'
  <2>1. shownum' \in [Users -> [n: Nat, ttl: 0 .. Forever]]
        /\ accepted' \in [Ads -> SUBSET Kinds]
    BY <1>8, NumTyped, AcceptTyped
  <2>2. faults' \in 0 .. MaxFaults
    BY <1>0, <1>8 DEF CountShow, GhostOK
  <2>3. UNCHANGED <<session, lock, mark, clicknum, fre, tagged, used, taken,
                 slave, served, counted, billed>>
    BY <1>8 DEF CountShow
  <2> QED BY <1>0, <2>1, <2>2, <2>3 DEF RedisOK, GhostOK
<1>9. ASSUME NEW w \in Workers, OpenWindow(w) PROVE RedisOK' /\ GhostOK'
  <2>1. shownum' \in [Users -> [n: Nat, ttl: 0 .. Forever]]
    BY <1>9, NumTyped
  <2>2. faults' \in 0 .. MaxFaults
    BY <1>0, <1>9 DEF OpenWindow, GhostOK
  <2>3. UNCHANGED <<session, lock, mark, clicknum, fre, tagged, used, taken,
                 slave, served, counted, accepted, billed>>
    BY <1>9 DEF OpenWindow
  <2> QED BY <1>0, <2>1, <2>2, <2>3 DEF RedisOK, GhostOK
<1>10. ASSUME NEW w \in Workers, CountClick(w) PROVE RedisOK' /\ GhostOK'
  <2>1. accepted' \in [Ads -> SUBSET Kinds] /\ clicknum' \in [Users -> Nat]
    BY <1>10, AcceptTyped
  <2>2. faults' \in 0 .. MaxFaults
    BY <1>0, <1>10 DEF CountClick, GhostOK
  <2>3. UNCHANGED <<session, lock, mark, shownum, fre, tagged, used, taken,
                 slave, served, counted, billed>>
    BY <1>10 DEF CountClick
  <2> QED BY <1>0, <2>1, <2>2, <2>3 DEF RedisOK, GhostOK
<1>11. ASSUME NEW w \in Workers, Used(w) \/ Taken(w) PROVE RedisOK' /\ GhostOK'
  BY <1>0, <1>11 DEF Used, Taken, RedisOK, GhostOK
<1>12. ASSUME NEW w \in Workers, Hit(w) \/ Tag(w) PROVE RedisOK' /\ GhostOK'
  <2>1. fre' \in [Users -> [Kinds -> Nat]] /\ tagged' \subseteq Users
    BY <1>12, HitTyped
  <2>2. faults' \in 0 .. MaxFaults
    BY <1>0, <1>12 DEF Hit, Tag, GhostOK
  <2>3. UNCHANGED <<session, lock, mark, shownum, clicknum, used, taken, slave,
                 served, counted, accepted, billed>>
    BY <1>12 DEF Hit, Tag
  <2> QED BY <1>0, <2>1, <2>2, <2>3 DEF RedisOK, GhostOK
<1>13. ASSUME NEW w \in Workers, SettleShow(w) \/ SettleClick(w)
       PROVE RedisOK' /\ GhostOK'
  BY <1>0, <1>13, SettleTyped DEF SettleShow, SettleClick, RedisOK, GhostOK
<1> QED
  BY <1>1, <1>2, <1>3, <1>4, <1>5, <1>6, <1>7, <1>8, <1>9, <1>10, <1>11, <1>12,
     <1>13 DEF Next, Step

LEMMA TypeInit == Init => TypeOK
  BY TimeAssumption, FaultAssumption, IdleWork
  DEF Init, TypeOK, RedisOK, WorkOK, GhostOK, Marks, Forever

LEMMA TypeStep == TypeOK /\ [Next]_vars => TypeOK'
  BY WorkStep, DataStep DEF TypeOK

\* Redis, the workers and the counts keep their types.
THEOREM TypeCorrect == Spec => []TypeOK
  BY TypeInit, TypeStep, PTL DEF Spec

----------------------------------------------------------------------------
(* A report counts once *)

LEMMA GotoFields ==
  ASSUME WorkOK, NEW w \in Workers, NEW p, Goto(w, p)
  PROVE  /\ \A x \in Workers : x # w => h'[x] = h[x]
         /\ h'[w].pc = p /\ h'[w].ad = h[w].ad /\ h'[w].kind = h[w].kind
         /\ h'[w].bill = h[w].bill
  BY DEF WorkOK, Work, Goto

LEMMA GotoBillFields ==
  ASSUME WorkOK, NEW w \in Workers, NEW p, NEW b, GotoBill(w, p, b)
  PROVE  /\ \A x \in Workers : x # w => h'[x] = h[x]
         /\ h'[w].pc = p /\ h'[w].ad = h[w].ad /\ h'[w].kind = h[w].kind
         /\ h'[w].bill = b
<1> DEFINE r == [h[w] EXCEPT !.pc = p, !.bill = b]
<1>1. h' = [h EXCEPT ![w] = r] /\ h \in [Workers -> Work] /\ h[w] \in Work
  BY DEF GotoBill, WorkOK
<1>2. r.pc = p /\ r.ad = h[w].ad /\ r.kind = h[w].kind /\ r.bill = b
  BY <1>1 DEF Work
<1> HIDE DEF r
<1> QED BY <1>1, <1>2

\* Between two steps a worker stays with its report or drops it.
LEMMA StepKeeps ==
  ASSUME TypeOK, NEW w \in Workers, Step(w)
  PROVE  \A x \in Workers :
           \/ h'[x] = Idle
           \/ x # w /\ h'[x] = h[x]
           \/ x = w /\ h'[x].ad = h[x].ad /\ h'[x].kind = h[x].kind /\ h[x].pc # "idle"
<1> DEFINE Kept == \A x \in Workers :
             \/ h'[x] = Idle
             \/ x # w /\ h'[x] = h[x]
             \/ x = w /\ h'[x].ad = h[x].ad /\ h'[x].kind = h[x].kind /\ h[x].pc # "idle"
<1>0. WorkOK /\ h[w].pc # "idle" /\ Moves(w)
  BY StepMoves DEF TypeOK
<1>1. ASSUME NEW p \in Pc, Goto(w, p) PROVE Kept
  BY <1>0, <1>1, GotoFields
<1>2. ASSUME NEW p \in Pc, NEW b \in BOOLEAN, GotoBill(w, p, b) PROVE Kept
  BY <1>0, <1>2, GotoBillFields
<1>3. ASSUME Done(w) PROVE Kept
  BY <1>0, <1>3, DoneMoves
<1>4. ASSUME h' = [y \in Workers |-> Idle] PROVE Kept
  BY <1>4
<1> HIDE DEF Kept
<1>5. Kept
  BY <1>0, <1>1, <1>2, <1>3, <1>4, Zenon DEF Moves
<1> QED BY <1>5 DEF Kept

\* The steps that are neither INCR nor EXPIRE of a lock.
LEMMA QuietSteps ==
  ASSUME TypeOK, NEW w \in Workers, Step(w), ~ Lock(w), ~ Expire(w)
  PROVE  /\ UNCHANGED <<session, lock, counted, served, slave>>
         /\ h'[w].pc # "expire"
<1>0. WorkOK
  BY DEF TypeOK
<1>1. UNCHANGED <<session, lock, counted, served, slave>>
  BY DEF Step, GetShow, CountShow, OpenWindow, CountClick, Price, Used, Taken, Limit,
         Hit, Tag, SettleShow, SettleClick, redis, ghost
<1> DEFINE Others == {"getshow", "lock", "count", "window", "price", "used", "taken",
                      "limit", "hit", "tag", "settle"}
           Leads == \/ \E p \in Others : Goto(w, p)
                    \/ \E p \in Others : \E b : GotoBill(w, p, b)
                    \/ Done(w)
                    \/ h' = [y \in Workers |-> Idle]
<1>2. ASSUME GetShow(w) PROVE Leads
  BY <1>2 DEF GetShow
<1>3. ASSUME CountShow(w) \/ CountClick(w) PROVE Leads
  <2>1. AfterCount(h[w].ad, "show") \in Others /\ AfterCount(h[w].ad, "click") \in Others
    BY DEF AfterCount
  <2> QED BY <1>3, <2>1 DEF CountShow, CountClick
<1>4. ASSUME OpenWindow(w) \/ Price(w) \/ Used(w) \/ Taken(w) \/ Limit(w) PROVE Leads
  BY <1>4 DEF OpenWindow, AfterCount, Price, Used, Taken, Limit
<1>5. ASSUME Hit(w) \/ Tag(w) \/ SettleShow(w) \/ SettleClick(w) PROVE Leads
  BY <1>5 DEF Hit, Tag, SettleShow, SettleClick
<1>6. ASSUME Leads PROVE h'[w].pc # "expire"
  <2>1. ASSUME NEW p \in Others, Goto(w, p) PROVE h'[w].pc # "expire"
    BY <1>0, <2>1, GotoFields
  <2>2. ASSUME NEW p \in Others, NEW b, GotoBill(w, p, b) PROVE h'[w].pc # "expire"
    BY <1>0, <2>2, GotoBillFields
  <2>3. CASE Done(w) \/ h' = [y \in Workers |-> Idle]
    BY <1>0, <2>3, DoneMoves, IdleWork
  <2> QED BY <1>6, <2>1, <2>2, <2>3
<1>7. Leads
  BY <1>2, <1>3, <1>4, <1>5 DEF Step
<1> QED BY <1>1, <1>6, <1>7

LEMMA OnceInit == Init => OnceInv
  BY TypeInit, IdleWork
  DEF Init, OnceInv, SessionAlive, ServedFirst, LockOutlives, LockedAlone, CountedOnce

\* Around the callbacks.
LEMMA OnceOutside ==
  ASSUME OnceInv, TypeOK',
         \/ \E a \in Ads : Serve(a) \/ ReplicateSession(a) \/ ReplicateMark(a)
         \/ \E w \in Workers, a \in Ads, k \in Kinds : Begin(w, a, k)
         \/ Tick \/ Crash \/ UNCHANGED vars
  PROVE  OnceInv'
<1> USE DEF OnceInv
<1>1. ASSUME NEW a \in Ads, Serve(a) PROVE OnceInv'
  <2>1. /\ session' = [session EXCEPT ![a] = Life] /\ served' = served \cup {a}
        /\ UNCHANGED <<lock, slave, counted, h>>
        /\ a \notin served /\ session \in [Ads -> 0 .. Life]
    BY <1>1 DEF Serve, TypeOK, RedisOK
  <2>2. SessionAlive'
    BY <2>1, TimeAssumption DEF SessionAlive, TypeOK, WorkOK
  <2>3. ServedFirst' /\ LockOutlives'
    BY <2>1, TimeAssumption DEF ServedFirst, LockOutlives
  <2> QED BY <2>1, <2>2, <2>3 DEF LockedAlone, CountedOnce
<1>2. ASSUME NEW a \in Ads, ReplicateSession(a) \/ ReplicateMark(a) PROVE OnceInv'
  <2>1. UNCHANGED <<session, lock, served, counted, h>>
    BY <1>2 DEF ReplicateSession, ReplicateMark, redis, ghost
  <2>2. \A b \in Ads : slave'[b].session => slave[b].session \/ session[b] > 0
    <3>1. slave \in [Ads -> [session: BOOLEAN, mark: Marks]]
      BY DEF TypeOK, RedisOK
    <3>2. CASE slave' = [slave EXCEPT ![a].session = session[a] > 0]
      BY <3>1, <3>2
    <3>3. CASE slave' = [slave EXCEPT ![a].mark = mark[a].v]
      BY <3>1, <3>3
    <3> QED BY <1>2, <3>2, <3>3 DEF ReplicateSession, ReplicateMark
  <2> QED BY <2>1, <2>2
      DEF SessionAlive, ServedFirst, LockOutlives, LockedAlone, CountedOnce
<1>3. ASSUME NEW w \in Workers, NEW a \in Ads, NEW k \in Kinds, Begin(w, a, k)
      PROVE OnceInv'
  <2>1. UNCHANGED <<session, lock, served, counted, slave>> /\ slave[a].session
    BY <1>3 DEF Begin, redis, ghost
  <2>2. /\ h'[w].pc # "expire" /\ h'[w].ad = a
        /\ \A x \in Workers : x # w => h'[x] = h[x]
    BY <1>3 DEF Begin, TypeOK, WorkOK
  <2>3. SessionAlive'
    BY <2>1, <2>2 DEF SessionAlive
  <2>4. LockedAlone'
    BY <2>1, <2>2 DEF LockedAlone
  <2> QED BY <2>1, <2>3, <2>4 DEF ServedFirst, LockOutlives, CountedOnce
<1>4. CASE Tick
  <2>1. /\ UNCHANGED <<served, counted, h>>
        /\ \A w \in Workers : h[w].pc = "idle"
        /\ \A a \in Ads : session'[a] = Aged(session[a])
        /\ \A a \in Ads, k \in Kinds : lock'[a][k] = Aged(lock[a][k])
        /\ \A a \in Ads : slave'[a].session => session'[a] > 0
    BY <1>4, IdleWork DEF Tick, ghost
  <2>2. \A s \in 0 .. Life, t \in 0 .. Forever : t >= s => Aged(t) >= Aged(s)
    BY TimeAssumption DEF Aged, Forever
  <2>3. LockOutlives'
    BY <2>1, <2>2 DEF LockOutlives, TypeOK, RedisOK
  <2>4. ServedFirst'
    BY <2>1 DEF ServedFirst, Aged
  <2> QED BY <2>1, <2>3, <2>4 DEF SessionAlive, LockedAlone, CountedOnce
<1>5. CASE Crash
  BY <1>5, IdleWork
  DEF Crash, redis, ghost, SessionAlive, ServedFirst, LockOutlives, LockedAlone, CountedOnce
<1>6. CASE UNCHANGED vars
  BY <1>6
  DEF vars, redis, ghost, SessionAlive, ServedFirst, LockOutlives, LockedAlone, CountedOnce
<1> QED BY <1>1, <1>2, <1>3, <1>4, <1>5, <1>6

\* INCR: a report finds the lock free only if none of it has counted, and no
\* other worker is about to count it.
LEMMA OnceLock ==
  ASSUME OnceInv, TypeOK', NEW w \in Workers, Lock(w)
  PROVE  OnceInv'
<1> DEFINE a == h[w].ad
           k == h[w].kind
<1>0. TypeOK /\ Step(w)
  BY DEF OnceInv, Step
<1>1. a \in Ads /\ k \in Kinds /\ session[a] > 0
  BY <1>0, StepFields DEF Lock, OnceInv, SessionAlive
<1>2. UNCHANGED <<session, served, counted, slave>>
  BY DEF Lock, ghost
<1>3. SessionAlive'
  BY <1>0, <1>2, StepKeeps, IdleWork DEF OnceInv, SessionAlive
<1>4. CASE lock[a][k] = 0 /\ lock' = [lock EXCEPT ![a][k] = Forever] /\ Goto(w, "expire")
  <2>1. /\ \A x \in Workers : x # w => h'[x] = h[x]
        /\ h'[w].pc = "expire" /\ h'[w].ad = a /\ h'[w].kind = k
    BY <1>0, <1>4, GotoFields DEF TypeOK
  <2>2. counted[a][k] = 0
    <3>1. counted[a][k] \in Nat /\ session[a] \in 0 .. Life
      BY <1>1 DEF OnceInv, TypeOK, RedisOK, GhostOK
    <3>2. counted[a][k] > 0 => lock[a][k] >= session[a]
      BY <1>1 DEF OnceInv, LockOutlives
    <3> QED BY <1>1, <1>4, <3>1, <3>2
  <2>3. \A x \in Workers \ {w} : h[x].pc = "expire" => ~ (h[x].ad = a /\ h[x].kind = k)
    BY <1>4, TimeAssumption DEF OnceInv, LockedAlone, Forever
  <2>4. /\ lock'[a][k] = Forever
        /\ \A b \in Ads, j \in Kinds : b # a \/ j # k => lock'[b][j] = lock[b][j]
    BY <1>1, <1>4 DEF OnceInv, TypeOK, RedisOK
  <2>5. LockOutlives'
    BY <1>1, <1>2, <2>2, <2>4 DEF OnceInv, LockOutlives
  <2>6. \A x \in Workers : h'[x].pc = "expire" => h'[x].ad \in Ads /\ h'[x].kind \in Kinds
    BY WorkFields DEF TypeOK, WorkOK
  <2> HIDE DEF a, k
  <2>7. LockedAlone'
    <3> SUFFICES ASSUME NEW x \in Workers, h'[x].pc = "expire"
                 PROVE  /\ lock'[h'[x].ad][h'[x].kind] = Forever
                        /\ counted'[h'[x].ad][h'[x].kind] = 0
                        /\ \A y \in Workers \ {x} :
                             ~ (h'[y].pc = "expire" /\ h'[y].ad = h'[x].ad
                                /\ h'[y].kind = h'[x].kind)
      BY DEF LockedAlone
    <3>1. CASE x = w
      BY <1>2, <2>1, <2>2, <2>3, <2>4, <3>1
    <3>2. CASE x # w
      BY <1>2, <2>1, <2>3, <2>4, <2>6, <3>2 DEF OnceInv, LockedAlone
    <3> QED BY <3>1, <3>2
  <2> QED BY <1>2, <1>3, <2>5, <2>7 DEF OnceInv, ServedFirst, CountedOnce
<1>5. CASE Done(w) /\ (UNCHANGED lock \/ /\ lock[a][k] = 0
                                         /\ lock' = [lock EXCEPT ![a][k] = Forever])
  <2>1. h'[w] = Idle /\ \A x \in Workers : x # w => h'[x] = h[x]
    BY <1>0, <1>5, DoneMoves DEF TypeOK
  <2>2. \A b \in Ads, j \in Kinds :
          \/ lock'[b][j] = lock[b][j]
          \/ lock[b][j] = 0 /\ lock'[b][j] = Forever
    <3>1. lock \in [Ads -> [Kinds -> 0 .. Forever]]
      BY <1>0 DEF TypeOK, RedisOK
    <3>2. CASE UNCHANGED lock
      BY <3>2
    <3>3. CASE lock[a][k] = 0 /\ lock' = [lock EXCEPT ![a][k] = Forever]
      BY <1>1, <3>1, <3>3
    <3> QED BY <1>5, <3>2, <3>3
  <2>3. LockOutlives'
    <3>1. \A b \in Ads : session[b] \in 0 .. Life
      BY <1>0 DEF TypeOK, RedisOK
    <3>2. \A b \in Ads : Forever >= session[b]
      BY <3>1, TimeAssumption DEF Forever
    <3> QED BY <1>2, <2>2, <3>2 DEF OnceInv, LockOutlives
  <2>4. \A x \in Workers : h[x].pc = "expire" => h[x].ad \in Ads /\ h[x].kind \in Kinds
    BY WorkFields DEF OnceInv, TypeOK, WorkOK
  <2>5. LockedAlone'
    BY <1>2, <2>1, <2>2, <2>4, IdleWork, TimeAssumption DEF OnceInv, LockedAlone, Forever
  <2> QED BY <1>2, <1>3, <2>3, <2>5 DEF OnceInv, ServedFirst, CountedOnce
<1> QED BY <1>4, <1>5 DEF Lock

\* EXPIRE: the report counts, and its lock lives as long as any session.
LEMMA OnceExpire ==
  ASSUME OnceInv, TypeOK', NEW w \in Workers, Expire(w)
  PROVE  OnceInv'
<1> DEFINE a == h[w].ad
           k == h[w].kind
<1>0. TypeOK /\ Step(w) /\ h[w].pc = "expire"
  BY DEF OnceInv, Step, Expire
<1>1. a \in Ads /\ k \in Kinds /\ session[a] > 0
  BY <1>0, StepFields DEF OnceInv, SessionAlive
<1>2. UNCHANGED <<session, served, slave>> /\ Goto(w, "count")
  BY DEF Expire
<1>3. SessionAlive'
  BY <1>0, <1>2, StepKeeps, IdleWork DEF OnceInv, SessionAlive
<1>4. /\ \A x \in Workers : x # w => h'[x] = h[x]
      /\ h'[w].pc = "count"
  BY <1>0, <1>2, GotoFields DEF TypeOK
<1>5. /\ lock[a][k] = Forever /\ counted[a][k] = 0
      /\ \A x \in Workers \ {w} :
           ~ (h[x].pc = "expire" /\ h[x].ad = a /\ h[x].kind = k)
  BY <1>0 DEF OnceInv, LockedAlone
<1>6. /\ lock'[a][k] \in {Life, Forever}
      /\ \A b \in Ads, j \in Kinds : b # a \/ j # k => lock'[b][j] = lock[b][j]
  BY <1>1, <1>5 DEF Expire, OnceInv, TypeOK, RedisOK
<1>7. /\ counted'[a][k] = 1
      /\ \A b \in Ads, j \in Kinds : b # a \/ j # k => counted'[b][j] = counted[b][j]
  BY <1>1, <1>5 DEF Expire, OnceInv, TypeOK, GhostOK
<1>8. \A x \in Workers : h[x].pc = "expire" => h[x].ad \in Ads /\ h[x].kind \in Kinds
  BY WorkFields DEF OnceInv, TypeOK, WorkOK
<1>9. session \in [Ads -> 0 .. Life]
  BY <1>0 DEF TypeOK, RedisOK
<1> HIDE DEF a, k
<1>10. LockOutlives'
  BY <1>1, <1>2, <1>6, <1>7, <1>9, TimeAssumption DEF OnceInv, LockOutlives, Forever
<1>11. LockedAlone'
  BY <1>4, <1>5, <1>6, <1>7, <1>8 DEF OnceInv, LockedAlone
<1>12. ServedFirst'
  BY <1>1, <1>2, <1>7 DEF OnceInv, ServedFirst
<1>13. CountedOnce'
  BY <1>7 DEF OnceInv, CountedOnce
<1> QED BY <1>3, <1>10, <1>11, <1>12, <1>13 DEF OnceInv

LEMMA OnceQuiet ==
  ASSUME OnceInv, TypeOK', NEW w \in Workers, Step(w), ~ Lock(w), ~ Expire(w)
  PROVE  OnceInv'
<1>0. TypeOK
  BY DEF OnceInv
<1>1. UNCHANGED <<session, lock, counted, served, slave>> /\ h'[w].pc # "expire"
  BY <1>0, QuietSteps
<1>2. SessionAlive'
  BY <1>0, <1>1, StepKeeps, IdleWork DEF OnceInv, SessionAlive
<1>3. \A x \in Workers : h'[x].pc = "expire" => x # w /\ h'[x] = h[x]
  BY <1>0, <1>1, StepKeeps, IdleWork
<1>4. LockedAlone'
  BY <1>1, <1>3 DEF OnceInv, LockedAlone
<1> QED BY <1>1, <1>2, <1>4 DEF OnceInv, ServedFirst, LockOutlives, CountedOnce

LEMMA OnceStep == OnceInv /\ [Next]_vars => OnceInv'
<1> SUFFICES ASSUME OnceInv, [Next]_vars PROVE OnceInv'
  OBVIOUS
<1>1. TypeOK'
  BY TypeStep DEF OnceInv
<1> QED BY <1>1, OnceOutside, OnceLock, OnceExpire, OnceQuiet DEF Next

\* However often a show or a click of an ad is reported, and to however many
\* workers at the same time, it counts at most once.
THEOREM CountsOnce == Spec => []CountedOnce
<1>1. OnceInv => CountedOnce
  BY DEF OnceInv
<1> QED BY <1>1, OnceInit, OnceStep, PTL DEF Spec

----------------------------------------------------------------------------
(* A click follows its show *)

LEMMA FollowInit == Init => FollowInv
<1> SUFFICES ASSUME Init PROVE FollowInv
  OBVIOUS
<1>1. TypeOK
  BY TypeInit
<1>2. MarksTrue
  BY DEF Init, MarksTrue
<1>3. \A w \in Workers : h[w].pc = "idle" /\ h[w].kind = "show"
  BY DEF Init, Idle
<1>4. UnderWay
  BY <1>3 DEF UnderWay, Accepted
<1>5. ClickFollowsShow
  BY DEF Init, ClickFollowsShow, Kinds
<1> QED BY <1>1, <1>2, <1>4, <1>5 DEF FollowInv

\* Around the callbacks.
LEMMA FollowOutside ==
  ASSUME FollowInv, TypeOK',
         \/ \E a \in Ads : Serve(a) \/ ReplicateSession(a) \/ ReplicateMark(a)
         \/ \E w \in Workers, a \in Ads, k \in Kinds : Begin(w, a, k)
         \/ Tick \/ Crash \/ UNCHANGED vars
  PROVE  FollowInv'
<1>0. /\ slave \in [Ads -> [session: BOOLEAN, mark: Marks]]
      /\ mark \in [Ads -> [v: Marks, ttl: 0 .. Life]]
  BY DEF FollowInv, TypeOK, RedisOK
<1> SUFFICES /\ UNCHANGED <<counted, accepted, billed>>
             /\ UnderWay'
             /\ \A a \in Ads : /\ mark'[a].v \in {mark[a].v, "none"}
                               /\ slave'[a].mark \in {mark[a].v, slave[a].mark, "none"}
  BY DEF FollowInv, MarksTrue, ClickFollowsShow
<1>1. ASSUME NEW a \in Ads, Serve(a)
      PROVE UNCHANGED <<counted, accepted, billed, mark, slave, h>>
  BY <1>1 DEF Serve
<1>2. ASSUME NEW a \in Ads, ReplicateSession(a) \/ ReplicateMark(a)
      PROVE /\ UNCHANGED <<counted, accepted, billed, mark, h>>
            /\ \A b \in Ads : slave'[b].mark \in {mark[b].v, slave[b].mark}
  <2>1. UNCHANGED <<counted, accepted, billed, mark, h>>
    BY <1>2 DEF ReplicateSession, ReplicateMark, redis, ghost
  <2>2. CASE slave' = [slave EXCEPT ![a].session = session[a] > 0]
    BY <1>0, <2>1, <2>2
  <2>3. CASE slave' = [slave EXCEPT ![a].mark = mark[a].v]
    BY <1>0, <2>1, <2>3
  <2> QED BY <1>2, <2>2, <2>3 DEF ReplicateSession, ReplicateMark
<1>3. ASSUME NEW w \in Workers, NEW a \in Ads, NEW k \in Kinds, Begin(w, a, k)
      PROVE UNCHANGED <<counted, accepted, billed, mark, slave>> /\ UnderWay'
  <2>1. UNCHANGED <<counted, accepted, billed, mark, slave>>
    BY <1>3 DEF Begin, redis, ghost
  <2>2. /\ h'[w].pc = IF k = "show" THEN "lock" ELSE "getshow"
        /\ h'[w].kind = k
        /\ \A x \in Workers : x # w => h'[x] = h[x]
    BY <1>3 DEF Begin, FollowInv, TypeOK, WorkOK
  <2> QED BY <2>1, <2>2 DEF FollowInv, UnderWay, Accepted, Kinds
<1>4. CASE Tick
  <2>1. UNCHANGED <<counted, accepted, billed, h>>
    BY <1>4 DEF Tick, ghost
  <2>2. \A a \in Ads : /\ mark'[a].v \in {mark[a].v, "none"}
                       /\ slave'[a].mark \in {slave[a].mark, "none"}
    BY <1>0, <1>4 DEF Tick
  <2> QED BY <2>1, <2>2 DEF FollowInv, UnderWay
<1>5. CASE Crash
  BY <1>5, IdleWork DEF Crash, redis, ghost, UnderWay, Accepted, Idle
<1>6. CASE UNCHANGED vars
  BY <1>6 DEF vars, redis, ghost, FollowInv, UnderWay
<1> QED BY <1>1, <1>2, <1>3, <1>4, <1>5, <1>6 DEF FollowInv, UnderWay

\* What the worker that moves needs: the invariant of it after the step.
UnderWayOf(w) ==
  LET a == h[w].ad
  IN /\ h[w].kind = "click" /\ h[w].pc \notin {"idle", "getshow"} =>
          /\ "show" \in accepted[a]
          /\ h[w].bill => "show" \in billed[a]
     /\ h[w].kind = "show" /\ h[w].pc \in Accepted => "show" \in accepted[a]

\* A step that leaves the other workers alone or ends them.
LEMMA OthersUnderWay ==
  ASSUME FollowInv, NEW w \in Workers, Step(w), UnderWayOf(w)',
         \A a \in Ads : accepted[a] \subseteq accepted'[a] /\ billed[a] \subseteq billed'[a]
  PROVE  UnderWay'
<1>1. \A x \in Workers : x # w => h'[x] = Idle \/ h'[x] = h[x]
  BY StepKeeps DEF FollowInv
<1>2. \A x \in Workers : h[x].pc # "idle" => h[x].ad \in Ads
  BY DEF FollowInv, TypeOK, WorkOK
<1> SUFFICES ASSUME NEW x \in Workers, x # w PROVE UnderWayOf(x)'
  BY DEF UnderWay, UnderWayOf
<1>3. CASE h'[x] = Idle
  BY <1>3 DEF UnderWayOf, Idle, Accepted
<1>4. CASE h'[x] = h[x]
  <2>1. UnderWayOf(x)
    BY DEF FollowInv, UnderWay, UnderWayOf
  <2> QED BY <1>2, <1>4, <2>1 DEF UnderWayOf, Accepted
<1> QED BY <1>1, <1>3, <1>4

\* The steps that only move their worker on.
LEMMA FollowOn ==
  ASSUME FollowInv, TypeOK', NEW w \in Workers,
         \/ Lock(w) \/ OpenWindow(w) \/ Price(w) \/ Used(w) \/ Taken(w) \/ Limit(w)
         \/ Hit(w) \/ Tag(w)
  PROVE  FollowInv'
<1>0. WorkOK /\ Step(w) /\ UnderWayOf(w)
  BY DEF FollowInv, TypeOK, Step, UnderWay, UnderWayOf
<1>1. UNCHANGED <<mark, slave, counted, accepted, billed>>
  BY DEF Lock, OpenWindow, Price, Used, Taken, Limit, Hit, Tag, redis, ghost
<1>2. \/ Done(w)
      \/ h' = [x \in Workers |-> Idle]
      \/ h[w].pc = "lock" /\ Goto(w, "expire")
      \/ h[w].pc \in Accepted /\ \E p \in Accepted : Goto(w, p)
  BY DEF Lock, OpenWindow, Price, Used, Taken, Limit, Hit, Tag, AfterCount, Accepted
<1>3. ASSUME NEW p, Goto(w, p), p \in Accepted => h[w].pc \in Accepted,
             h[w].pc \notin {"idle", "getshow"}
      PROVE  UnderWayOf(w)'
  BY <1>0, <1>1, <1>3, GotoFields DEF UnderWayOf
<1>4. ASSUME h'[w] = Idle PROVE UnderWayOf(w)'
  BY <1>4 DEF UnderWayOf, Idle, Accepted
<1>5. UnderWayOf(w)'
  BY <1>0, <1>2, <1>3, <1>4, DoneMoves DEF Accepted
<1> QED BY <1>0, <1>1, <1>5, OthersUnderWay DEF FollowInv, MarksTrue, ClickFollowsShow

LEMMA FollowGetShow ==
  ASSUME FollowInv, TypeOK', NEW w \in Workers, GetShow(w)
  PROVE  FollowInv'
<1>0. WorkOK /\ Step(w) /\ h[w].ad \in Ads
  BY DEF FollowInv, TypeOK, WorkOK, Step, GetShow
<1>1. UNCHANGED <<mark, slave, counted, accepted, billed>>
  BY DEF GetShow, redis, ghost
<1> DEFINE a == h[w].ad
           b == slave[a].mark = "valid"
<1>2. CASE slave[a].mark # "none" /\ GotoBill(w, "lock", b)
  <2>1. h'[w].ad = a /\ h'[w].bill = b /\ h'[w].pc = "lock"
    BY <1>0, <1>2, GotoBillFields
  <2>2. "show" \in accepted[a] /\ (b => "show" \in billed[a])
    BY <1>0, <1>2 DEF FollowInv, MarksTrue
  <2> QED BY <1>1, <2>1, <2>2, <1>0, OthersUnderWay
      DEF UnderWayOf, Accepted, FollowInv, MarksTrue, ClickFollowsShow
<1>3. CASE Done(w)
  <2>1. UnderWayOf(w)'
    BY <1>0, <1>3, DoneMoves DEF UnderWayOf, Idle, Accepted
  <2> QED BY <1>0, <1>1, <2>1, OthersUnderWay DEF FollowInv, MarksTrue, ClickFollowsShow
<1> QED BY <1>2, <1>3 DEF GetShow

LEMMA FollowExpire ==
  ASSUME FollowInv, TypeOK', NEW w \in Workers, Expire(w)
  PROVE  FollowInv'
<1> DEFINE a == h[w].ad
           k == h[w].kind
<1>0. WorkOK /\ TypeOK /\ Step(w) /\ UnderWayOf(w) /\ h[w].pc = "expire"
  BY DEF FollowInv, TypeOK, Step, UnderWay, UnderWayOf, Expire
<1>1. UNCHANGED <<mark, slave, accepted, billed>> /\ Goto(w, "count")
  BY DEF Expire
<1>2. UnderWayOf(w)'
  BY <1>0, <1>1, GotoFields DEF UnderWayOf, Accepted
<1>3. a \in Ads /\ k \in Kinds
  BY <1>0, StepFields
<1>4. \A b \in Ads : (b # a \/ k # "click") => counted'[b]["click"] = counted[b]["click"]
  <2>1. counted \in [Ads -> [Kinds -> Nat]]
    BY <1>0 DEF TypeOK, GhostOK
  <2>2. counted' = [counted EXCEPT ![a][k] = counted[a][k] + 1]
    BY <1>3, <2>1 DEF Expire
  <2> HIDE DEF a, k
  <2> QED BY <1>3, <2>1, <2>2 DEF Kinds
<1>5. k = "click" => "show" \in accepted[a]
  BY <1>0 DEF UnderWayOf
<1>6. ClickFollowsShow'
  BY <1>1, <1>4, <1>5 DEF FollowInv, ClickFollowsShow
<1> QED BY <1>0, <1>1, <1>2, <1>6, OthersUnderWay DEF FollowInv, MarksTrue

\* Accepting a report takes nothing back.
LEMMA FollowAccept ==
  ASSUME FollowInv, TypeOK', NEW w \in Workers, Step(w), UnderWayOf(w)',
         UNCHANGED <<mark, slave, counted, billed>>,
         \A a \in Ads : accepted[a] \subseteq accepted'[a]
  PROVE  FollowInv'
  BY OthersUnderWay DEF FollowInv, MarksTrue, ClickFollowsShow

LEMMA Accepts ==
  ASSUME TypeOK, NEW a \in Ads, NEW k \in Kinds, Accept(a, k)
  PROVE  k \in accepted'[a] /\ \A b \in Ads : accepted[b] \subseteq accepted'[b]
  BY DEF TypeOK, GhostOK, Accept

LEMMA FollowCountShow ==
  ASSUME FollowInv, TypeOK', NEW w \in Workers, CountShow(w)
  PROVE  FollowInv'
<1> DEFINE a == h[w].ad
           n == shownum[UserOf[a]].n + 1
           p == IF n = 1 THEN "window" ELSE AfterCount(a, "show")
<1>0. WorkOK /\ TypeOK /\ Step(w) /\ h[w].pc # "idle" /\ h[w].kind = "show"
  BY DEF FollowInv, TypeOK, Step, CountShow
<1>1. UNCHANGED <<mark, slave, counted, billed>>
  BY DEF CountShow
<1>2. a \in Ads /\ "show" \in Kinds
  BY <1>0, StepFields DEF Kinds
<1>3. ASSUME Accept(a, "show"), GotoBill(w, p, n <= ShowBill) PROVE FollowInv'
  <2>1. h'[w].ad = a /\ h'[w].kind = "show"
    <3> HIDE DEF p, n
    <3> QED BY <1>0, <1>3, GotoBillFields, Zenon
  <2>2. "show" \in accepted'[a] /\ \A b \in Ads : accepted[b] \subseteq accepted'[b]
    BY <1>0, <1>2, <1>3, Accepts
  <2>3. UnderWayOf(w)'
    BY <2>1, <2>2 DEF UnderWayOf
  <2> QED BY <1>0, <1>1, <2>2, <2>3, FollowAccept
<1>4. ASSUME Done(w), UNCHANGED accepted PROVE FollowInv'
  <2>1. UnderWayOf(w)'
    BY <1>0, <1>4, DoneMoves DEF UnderWayOf, Idle, Accepted
  <2> QED BY <1>0, <1>1, <1>4, <2>1, FollowAccept
<1>5. (Accept(a, "show") /\ GotoBill(w, p, n <= ShowBill)) \/ (Done(w) /\ UNCHANGED accepted)
  BY DEF CountShow
<1> QED BY <1>3, <1>4, <1>5

LEMMA FollowCountClick ==
  ASSUME FollowInv, TypeOK', NEW w \in Workers, CountClick(w)
  PROVE  FollowInv'
<1> DEFINE a == h[w].ad
           n == clicknum[UserOf[a]] + 1
           p == AfterCount(a, "click")
           b == h[w].bill /\ n <= ClickBill
<1>0. /\ WorkOK /\ TypeOK /\ Step(w) /\ UnderWayOf(w)
      /\ h[w].pc = "count" /\ h[w].kind = "click"
  BY DEF FollowInv, TypeOK, Step, CountClick, UnderWay, UnderWayOf
<1>1. UNCHANGED <<mark, slave, counted, billed>>
  BY DEF CountClick
<1>2. a \in Ads /\ "click" \in Kinds
  BY <1>0, StepFields DEF Kinds
<1>3. ASSUME Accept(a, "click"), GotoBill(w, p, b) PROVE FollowInv'
  <2>1. h'[w].ad = a /\ h'[w].kind = "click" /\ h'[w].bill = b
    <3> HIDE DEF p, b
    <3> QED BY <1>0, <1>3, GotoBillFields, Zenon
  <2>2. \A c \in Ads : accepted[c] \subseteq accepted'[c]
    BY <1>0, <1>2, <1>3, Accepts
  <2>3. "show" \in accepted[a] /\ (h[w].bill => "show" \in billed[a])
    BY <1>0 DEF UnderWayOf
  <2>4. UnderWayOf(w)'
    BY <1>1, <1>2, <2>1, <2>2, <2>3 DEF UnderWayOf
  <2> QED BY <1>0, <1>1, <2>2, <2>4, FollowAccept
<1>4. ASSUME Done(w), UNCHANGED accepted PROVE FollowInv'
  <2>1. UnderWayOf(w)'
    BY <1>0, <1>4, DoneMoves DEF UnderWayOf, Idle, Accepted
  <2> QED BY <1>0, <1>1, <1>4, <2>1, FollowAccept
<1>5. (Accept(a, "click") /\ GotoBill(w, p, b)) \/ (Done(w) /\ UNCHANGED accepted)
  BY DEF CountClick
<1> QED BY <1>3, <1>4, <1>5

\* What the end of a callback adds to the bills.
LEMMA Bills ==
  ASSUME TypeOK, NEW a \in Ads, NEW k \in Kinds, NEW b \in BOOLEAN, Bill(a, k, b)
  PROVE  /\ b => k \in billed'[a]
         /\ \A c \in Ads : billed[c] \subseteq billed'[c]
         /\ \A c \in Ads : c # a => billed'[c] = billed[c]
         /\ \A j \in Kinds : j \in billed'[a] => j \in billed[a] \/ (j = k /\ b)
  BY DEF TypeOK, GhostOK, Bill

LEMMA FollowSettleShow ==
  ASSUME FollowInv, TypeOK', NEW w \in Workers, SettleShow(w)
  PROVE  FollowInv'
<1> DEFINE a == h[w].ad
           b == h[w].bill
<1>0. /\ WorkOK /\ TypeOK /\ Step(w) /\ UnderWayOf(w)
      /\ h[w].pc = "settle" /\ h[w].kind = "show"
  BY DEF FollowInv, TypeOK, Step, SettleShow, UnderWay, UnderWayOf
<1>1. UNCHANGED <<slave, counted, accepted>> /\ Done(w) /\ Bill(a, "show", b)
  BY DEF SettleShow
<1>2. a \in Ads /\ b \in BOOLEAN /\ "show" \in Kinds /\ "click" \in Kinds
  BY <1>0, StepFields DEF Kinds
<1>3. "show" \in accepted[a]
  BY <1>0 DEF UnderWayOf, Accepted
<1>4. UnderWayOf(w)'
  BY <1>0, <1>1, DoneMoves DEF UnderWayOf, Idle, Accepted
<1>5. mark' = mark \/ mark' = [mark EXCEPT ![a] = ShowMark(b)]
  BY DEF SettleShow
<1>6. mark \in [Ads -> [v: Marks, ttl: 0 .. Life]]
  BY <1>0 DEF TypeOK, RedisOK
<1>7. ShowMark(b).v = IF b THEN "valid" ELSE "invalid"
  BY DEF ShowMark, Validity
<1> HIDE DEF a, b
<1>8. /\ b => "show" \in billed'[a]
      /\ \A c \in Ads : billed[c] \subseteq billed'[c]
      /\ \A c \in Ads : "click" \in billed'[c] => "click" \in billed[c]
  BY <1>0, <1>1, <1>2, Bills
<1>9. \A c \in Ads : mark'[c].v = mark[c].v \/ (c = a /\ mark'[c].v = ShowMark(b).v)
  BY <1>5, <1>6
<1>10. MarksTrue'
  BY <1>1, <1>3, <1>7, <1>8, <1>9 DEF FollowInv, MarksTrue
<1>11. ClickFollowsShow'
  BY <1>1, <1>8 DEF FollowInv, ClickFollowsShow
<1> QED BY <1>0, <1>1, <1>4, <1>8, <1>10, <1>11, OthersUnderWay DEF FollowInv

LEMMA FollowSettleClick ==
  ASSUME FollowInv, TypeOK', NEW w \in Workers, SettleClick(w)
  PROVE  FollowInv'
<1> DEFINE a == h[w].ad
           b == h[w].bill
<1>0. /\ WorkOK /\ TypeOK /\ Step(w) /\ UnderWayOf(w)
      /\ h[w].pc = "settle" /\ h[w].kind = "click"
  BY DEF FollowInv, TypeOK, Step, SettleClick, UnderWay, UnderWayOf
<1>1. UNCHANGED <<mark, slave, counted, accepted>> /\ Done(w) /\ Bill(a, "click", b)
  BY DEF SettleClick, redis
<1>2. a \in Ads /\ b \in BOOLEAN /\ "show" \in Kinds /\ "click" \in Kinds
  BY <1>0, StepFields DEF Kinds
<1>3. b => "show" \in billed[a]
  BY <1>0 DEF UnderWayOf
<1>4. UnderWayOf(w)'
  BY <1>0, <1>1, DoneMoves DEF UnderWayOf, Idle, Accepted
<1> HIDE DEF a, b
<1>5. /\ \A c \in Ads : billed[c] \subseteq billed'[c]
      /\ \A c \in Ads : "click" \in billed'[c] => "click" \in billed[c] \/ (c = a /\ b)
  BY <1>0, <1>1, <1>2, Bills
<1>6. MarksTrue' /\ ClickFollowsShow'
  BY <1>1, <1>3, <1>5 DEF FollowInv, MarksTrue, ClickFollowsShow
<1> QED BY <1>0, <1>1, <1>4, <1>5, <1>6, OthersUnderWay DEF FollowInv

LEMMA FollowStep == FollowInv /\ [Next]_vars => FollowInv'
<1> SUFFICES ASSUME FollowInv, [Next]_vars PROVE FollowInv'
  OBVIOUS
<1>1. TypeOK'
  BY TypeStep DEF FollowInv
<1>2. ASSUME NEW w \in Workers, Step(w) PROVE FollowInv'
  BY <1>1, <1>2, FollowOn, FollowGetShow, FollowExpire, FollowCountShow, FollowCountClick,
     FollowSettleShow, FollowSettleClick DEF Step
<1> QED BY <1>1, <1>2, FollowOutside DEF Next

\* A click counts only of an ad whose show was accepted, and is billed only of
\* one whose show was billed, whatever the slave lags and whatever is lost.
THEOREM ClicksFollowShows == Spec => []ClickFollowsShow
<1>1. FollowInv => ClickFollowsShow
  BY DEF FollowInv
<1> QED BY <1>1, FollowInit, FollowStep, PTL DEF Spec

----------------------------------------------------------------------------
(* Without a fault *)

\* The command of a step was answered.
NoFault == faults' = faults

LEMMA Answered == TypeOK /\ NoFault => ~Fault
  BY DEF TypeOK, GhostOK, NoFault, Fault

\* Without a fault a step of a worker concerns no other one.
LEMMA Alone ==
  ASSUME TypeOK, NoFault, NEW w \in Workers, Step(w)
  PROVE  /\ \A x \in Workers : x # w => h'[x] = h[x]
         /\ h'[w].pc # "idle" => h'[w].ad = h[w].ad /\ h'[w].kind = h[w].kind
<1>0. WorkOK /\ Moves(w) /\ h[w].pc # "idle" /\ ~Fault
  BY StepMoves, Answered DEF TypeOK
<1>1. ASSUME NEW p \in Pc, Goto(w, p)
      PROVE  /\ \A x \in Workers : x # w => h'[x] = h[x]
             /\ h'[w].ad = h[w].ad /\ h'[w].kind = h[w].kind
  BY <1>0, <1>1, GotoFields, Zenon
<1>2. ASSUME NEW p \in Pc, NEW b \in BOOLEAN, GotoBill(w, p, b)
      PROVE  /\ \A x \in Workers : x # w => h'[x] = h[x]
             /\ h'[w].ad = h[w].ad /\ h'[w].kind = h[w].kind
  BY <1>0, <1>2, GotoBillFields, Zenon
<1>3. Done(w) => (\A x \in Workers : x # w => h'[x] = h[x]) /\ h'[w].pc = "idle"
  BY <1>0, DoneMoves, IdleWork
<1>4. ASSUME h' = [x \in Workers |-> Idle]
      PROVE  (\E p \in Pc : Goto(w, p)) \/ (\E p \in Pc, b \in BOOLEAN : GotoBill(w, p, b)) \/ Done(w)
  <2>1. CASE Hit(w) BY <1>0, <2>1 DEF Hit, Pc
  <2>2. CASE Tag(w) BY <1>0, <2>2 DEF Tag, Pc
  <2>3. CASE GetShow(w) BY <2>3, <1>0 DEF GetShow, Pc
  <2>4. CASE Lock(w) \/ Expire(w) BY <2>4, <1>0 DEF Lock, Expire, Pc
  <2>5. CASE Price(w) \/ Used(w) \/ Taken(w) \/ Limit(w) \/ SettleShow(w) \/ SettleClick(w)
    BY <2>5, <1>0 DEF Price, Used, Taken, Limit, SettleShow, SettleClick, Pc
  <2>6. CASE OpenWindow(w) BY <2>6 DEF OpenWindow, AfterCount, Pc
  <2>7. CASE CountShow(w)
    <3> DEFINE n == shownum[UserOf[h[w].ad]].n + 1
               p == IF n = 1 THEN "window" ELSE AfterCount(h[w].ad, "show")
    <3>1. p \in Pc /\ (n <= ShowBill) \in BOOLEAN BY DEF AfterCount, Pc
    <3>2. GotoBill(w, p, n <= ShowBill) \/ Done(w) BY <2>7 DEF CountShow
    <3> HIDE DEF n, p
    <3> QED BY <3>1, <3>2
  <2>8. CASE CountClick(w)
    BY <2>8, <1>0, StepFields, CapAssumption DEF CountClick, AfterCount, Pc
  <2> QED BY <2>1, <2>2, <2>3, <2>4, <2>5, <2>6, <2>7, <2>8 DEF Step
<1> QED BY <1>0, <1>1, <1>2, <1>3, <1>4, Zenon DEF Moves

\* Who stands at p is still there.
LEMMA StillThere ==
  ASSUME TypeOK, NoFault, NEW w \in Workers, Step(w), NEW p, h[w].pc # p
  PROVE  \A x \in Workers : h[x].pc = p => h'[x] = h[x]
  BY Alone

----------------------------------------------------------------------------
(* Expiries and tags *)

LocksExpire ==
  \A a \in Ads, k \in Kinds :
    lock[a][k] = Forever => \E w \in At({"expire"}) : h[w].ad = a /\ h[w].kind = k

WindowsExpire ==
  \A u \in Users :
    shownum[u].ttl = Forever => \E w \in At({"window"}) : UserOf[h[w].ad] = u

LimitsTagged ==
  \A u \in Users, k \in Kinds :
    Fre[k] > 0 /\ fre[u][k] >= Fre[k] =>
      u \in tagged \/ \E w \in At({"tag"}) : UserOf[h[w].ad] = u

Clean == faults = 0 => LocksExpire /\ WindowsExpire /\ LimitsTagged

LEMMA LocksStay ==
  ASSUME LocksExpire, lock' = lock,
         \A x \in Workers : h[x].pc = "expire" => h'[x] = h[x]
  PROVE  LocksExpire'
  BY DEF LocksExpire, At

LEMMA WindowsStay ==
  ASSUME WindowsExpire, shownum' = shownum,
         \A x \in Workers : h[x].pc = "window" => h'[x] = h[x]
  PROVE  WindowsExpire'
  BY DEF WindowsExpire, At

LEMMA TagsStay ==
  ASSUME LimitsTagged, fre' = fre, tagged' = tagged,
         \A x \in Workers : h[x].pc = "tag" => h'[x] = h[x]
  PROVE  LimitsTagged'
  BY DEF LimitsTagged, At

\* Whoever gets 1 from INCR goes on to give the lock its expiry.
LEMMA LockExpires ==
  ASSUME TypeOK, NoFault, LocksExpire, NEW w \in Workers, Lock(w) \/ Expire(w)
  PROVE  LocksExpire'
<1> DEFINE a == h[w].ad
           k == h[w].kind
<1>0. ~Fault /\ WorkOK /\ a \in Ads /\ k \in Kinds /\ Step(w)
      /\ lock \in [Ads -> [Kinds -> 0 .. Forever]] /\ Life # Forever
  <2>1. Step(w) /\ h[w].pc # "idle" BY DEF Step, Lock, Expire
  <2>2. WorkOK /\ lock \in [Ads -> [Kinds -> 0 .. Forever]] BY DEF TypeOK, RedisOK
  <2>3. Life # Forever BY TimeAssumption DEF Forever
  <2> QED BY <2>1, <2>2, <2>3, Answered, StepFields
<1>1. CASE Lock(w)
  <2>1. CASE lock[a][k] = 0
    <3>1. lock' = [lock EXCEPT ![a][k] = Forever] /\ Goto(w, "expire")
      BY <1>0, <1>1, <2>1 DEF Lock
    <3>2. h'[w].pc = "expire" /\ h'[w].ad = a /\ h'[w].kind = k
          /\ \A x \in Workers : x # w => h'[x] = h[x]
      BY <1>0, <3>1, GotoFields
    <3>3. h[w].pc = "lock" BY <1>1 DEF Lock
    <3> SUFFICES ASSUME NEW b \in Ads, NEW l \in Kinds, lock'[b][l] = Forever
                 PROVE  \E x \in Workers : h'[x].pc = "expire" /\ h'[x].ad = b /\ h'[x].kind = l
      BY DEF LocksExpire, At
    <3>4. CASE b = a /\ l = k BY <3>2, <3>4
    <3>5. CASE ~(b = a /\ l = k)
      <4>1. lock[b][l] = Forever BY <1>0, <3>1, <3>5
      <4>2. PICK x \in Workers : h[x].pc = "expire" /\ h[x].ad = b /\ h[x].kind = l
        BY <4>1 DEF LocksExpire, At
      <4> QED BY <3>2, <3>3, <4>2
    <3> QED BY <3>4, <3>5
  <2>2. CASE lock[a][k] # 0
    <3>1. lock' = lock /\ h[w].pc = "lock" BY <1>0, <1>1, <2>2 DEF Lock
    <3> QED BY <1>0, <3>1, StillThere, LocksStay
  <2> QED BY <2>1, <2>2
<1>2. CASE Expire(w)
  <2>1. lock' = [lock EXCEPT ![a][k] = Life] /\ h[w].pc = "expire"
    BY <1>0, <1>2 DEF Expire
  <2> SUFFICES ASSUME NEW b \in Ads, NEW l \in Kinds, lock'[b][l] = Forever
               PROVE  \E x \in Workers : h'[x].pc = "expire" /\ h'[x].ad = b /\ h'[x].kind = l
    BY DEF LocksExpire, At
  <2>2. ~(b = a /\ l = k) /\ lock[b][l] = Forever BY <1>0, <2>1
  <2>3. PICK x \in Workers : h[x].pc = "expire" /\ h[x].ad = b /\ h[x].kind = l
    BY <2>2 DEF LocksExpire, At
  <2>4. x # w BY <2>2, <2>3
  <2> QED BY <1>0, <2>3, <2>4, Alone
<1> QED BY <1>1, <1>2

\* Whoever opens the window of a user goes on to give it its end.
LEMMA WindowOpens ==
  ASSUME TypeOK, NoFault, WindowsExpire, NEW w \in Workers, CountShow(w)
  PROVE  WindowsExpire'
<1> DEFINE a == h[w].ad
           u == UserOf[a]
           n == shownum[u].n + 1
<1>0. Step(w) /\ h[w].pc = "count" BY DEF Step, CountShow
<1>1. WorkOK /\ ~Fault /\ u \in Users BY <1>0, Answered, StepFields DEF TypeOK
<1>2. shownum \in [Users -> [n: Nat, ttl: 0 .. Forever]] BY DEF TypeOK, RedisOK
<1>3. n > ShowCap <=> ~(n <= ShowCap)
  <2>1. n \in Nat BY <1>1, <1>2
  <2> HIDE DEF n
  <2> QED BY <2>1, CapAssumption
<1>4. shownum' = [shownum EXCEPT ![u].n = n, ![u].ttl = IF n = 1 THEN Forever ELSE @]
      /\ (n <= ShowCap => GotoBill(w, IF n = 1 THEN "window" ELSE AfterCount(a, "show"),
                                   n <= ShowBill))
  BY <1>1, <1>3, Zenon DEF CountShow
<1>5. \A x \in Workers : h[x].pc = "window" => h'[x] = h[x]
  BY <1>0, StillThere
<1>6. n = 1 => h'[w].pc = "window" /\ h'[w].ad = a
  <2>1. n = 1 => n <= ShowCap BY CapAssumption
  <2>2. n = 1 => GotoBill(w, "window", n <= ShowBill) BY <1>4, <2>1
  <2> HIDE DEF n, a
  <2> QED BY <1>1, <2>2, GotoBillFields DEF a
<1>7. \A v \in Users : shownum'[v].ttl = Forever => (v = u /\ n = 1) \/ shownum[v].ttl = Forever
  BY <1>1, <1>4, <1>2
<1> HIDE DEF n
<1> SUFFICES ASSUME NEW v \in Users, shownum'[v].ttl = Forever
             PROVE  \E x \in Workers : h'[x].pc = "window" /\ UserOf[h'[x].ad] = v
  BY DEF WindowsExpire, At
<1>8. CASE v = u /\ n = 1 BY <1>6, <1>8
<1>9. CASE shownum[v].ttl = Forever
  <2>1. PICK x \in Workers : h[x].pc = "window" /\ UserOf[h[x].ad] = v
    BY <1>9 DEF WindowsExpire, At
  <2> QED BY <1>5, <2>1
<1> QED BY <1>7, <1>8, <1>9

LEMMA WindowEnds ==
  ASSUME TypeOK, NoFault, WindowsExpire, NEW w \in Workers, OpenWindow(w)
  PROVE  WindowsExpire'
<1> DEFINE u == UserOf[h[w].ad]
<1>0. Step(w) /\ h[w].pc = "window" BY DEF Step, OpenWindow
<1>1. ~Fault /\ u \in Users BY <1>0, Answered, StepFields
<1>2. shownum' = [shownum EXCEPT ![u].ttl = Window] BY <1>1 DEF OpenWindow
<1>3. Window # Forever BY TimeAssumption DEF Forever
<1>4. shownum \in [Users -> [n: Nat, ttl: 0 .. Forever]] BY DEF TypeOK, RedisOK
<1>5. \A v \in Users : shownum'[v].ttl = Forever => v # u /\ shownum[v].ttl = Forever
  BY <1>1, <1>2, <1>3, <1>4
<1> SUFFICES ASSUME NEW v \in Users, shownum'[v].ttl = Forever
             PROVE  \E x \in Workers : h'[x].pc = "window" /\ UserOf[h'[x].ad] = v
  BY DEF WindowsExpire, At
<1>6. PICK x \in Workers : h[x].pc = "window" /\ UserOf[h[x].ad] = v
  BY <1>5 DEF WindowsExpire, At
<1>7. x # w BY <1>5, <1>6
<1> QED BY <1>0, <1>6, <1>7, Alone

\* Whoever reaches the limit of the order goes on to tag the user.
LEMMA LimitReached ==
  ASSUME TypeOK, NoFault, LimitsTagged, NEW w \in Workers, Hit(w)
  PROVE  LimitsTagged'
<1> DEFINE a == h[w].ad
           k == h[w].kind
           u == UserOf[a]
           n == fre[u][k] + 1
<1>0. Step(w) /\ h[w].pc = "hit" BY DEF Step, Hit
<1>1. WorkOK /\ ~Fault /\ u \in Users /\ k \in Kinds
  BY <1>0, Answered, StepFields DEF TypeOK
<1>2. /\ fre' = [fre EXCEPT ![u][k] = n] /\ tagged' = tagged
      /\ n >= Fre[k] => Goto(w, "tag")
  BY <1>1 DEF Hit, AtLimit
<1>3. \A x \in Workers : h[x].pc = "tag" => h'[x] = h[x]
  BY <1>0, StillThere
<1>4. fre \in [Users -> [Kinds -> Nat]] BY DEF TypeOK, RedisOK
<1>5. n >= Fre[k] => h'[w].pc = "tag" /\ h'[w].ad = a
  <2> HIDE DEF n, a, k
  <2> QED BY <1>1, <1>2, GotoFields DEF a
<1>6. \A v \in Users, l \in Kinds : (v = u /\ l = k /\ fre'[v][l] = n) \/ fre'[v][l] = fre[v][l]
  BY <1>1, <1>2, <1>4
<1> HIDE DEF n, k
<1> SUFFICES ASSUME NEW v \in Users, NEW l \in Kinds, Fre[l] > 0, fre'[v][l] >= Fre[l],
                    v \notin tagged
             PROVE  \E x \in Workers : h'[x].pc = "tag" /\ UserOf[h'[x].ad] = v
  BY <1>2 DEF LimitsTagged, At
<1>7. CASE v = u /\ l = k /\ fre'[v][l] = n BY <1>5, <1>7
<1>8. CASE fre'[v][l] = fre[v][l]
  <2>1. fre[v][l] >= Fre[l] BY <1>8
  <2>2. PICK x \in Workers : h[x].pc = "tag" /\ UserOf[h[x].ad] = v
    BY <2>1 DEF LimitsTagged, At
  <2> QED BY <1>3, <2>2
<1> QED BY <1>6, <1>7, <1>8

LEMMA UserTagged ==
  ASSUME TypeOK, NoFault, LimitsTagged, NEW w \in Workers, Tag(w)
  PROVE  LimitsTagged'
<1> DEFINE u == UserOf[h[w].ad]
<1>0. Step(w) /\ h[w].pc = "tag" BY DEF Step, Tag
<1>1. ~Fault BY Answered
<1>2. tagged' = tagged \cup {u} /\ fre' = fre BY <1>1 DEF Tag
<1>3. \A x \in Workers : x # w => h'[x] = h[x] BY <1>0, Alone
<1> SUFFICES ASSUME NEW v \in Users, NEW l \in Kinds, Fre[l] > 0, fre[v][l] >= Fre[l],
                    v \notin tagged, v # u
             PROVE  \E x \in Workers : h'[x].pc = "tag" /\ UserOf[h'[x].ad] = v
  BY <1>2 DEF LimitsTagged, At
<1>4. PICK x \in Workers : h[x].pc = "tag" /\ UserOf[h[x].ad] = v
  BY DEF LimitsTagged, At
<1>5. x # w BY <1>4
<1> QED BY <1>3, <1>4, <1>5

\* What the other steps leave alone.
LEMMA Elsewhere ==
  ASSUME NEW w \in Workers, Step(w)
  PROVE  /\ Lock(w) \/ Expire(w) \/ (lock' = lock /\ h[w].pc # "expire")
         /\ CountShow(w) \/ OpenWindow(w) \/ (shownum' = shownum /\ h[w].pc # "window")
         /\ Hit(w) \/ Tag(w) \/ (fre' = fre /\ tagged' = tagged /\ h[w].pc # "tag")
         /\ faults' = faults \/ faults' = faults + 1
<1> USE DEF redis, Reached, Fault
<1>1. CASE GetShow(w) BY <1>1 DEF GetShow
<1>2. CASE Lock(w) BY <1>2 DEF Lock
<1>3. CASE Expire(w) BY <1>3 DEF Expire
<1>4. CASE CountShow(w) BY <1>4 DEF CountShow
<1>5. CASE OpenWindow(w) BY <1>5 DEF OpenWindow
<1>6. CASE CountClick(w) BY <1>6 DEF CountClick
<1>7. CASE Price(w) \/ Used(w) \/ Taken(w) BY <1>7 DEF Price, Used, Taken
<1>8. CASE Limit(w) BY <1>8 DEF Limit
<1>9. CASE Hit(w) BY <1>9 DEF Hit
<1>10. CASE Tag(w) BY <1>10 DEF Tag
<1>11. CASE SettleShow(w) \/ SettleClick(w) BY <1>11 DEF SettleShow, SettleClick
<1> QED BY <1>1, <1>2, <1>3, <1>4, <1>5, <1>6, <1>7, <1>8, <1>9, <1>10, <1>11 DEF Step

Kept == LocksExpire /\ WindowsExpire /\ LimitsTagged

LEMMA KeptOn ==
  ASSUME TypeOK, NoFault, Kept, NEW w \in Workers, Step(w)
  PROVE  Kept'
<1>1. LocksExpire'
  BY Elsewhere, LockExpires, LocksStay, StillThere DEF Kept
<1>2. WindowsExpire'
  BY Elsewhere, WindowOpens, WindowEnds, WindowsStay, StillThere DEF Kept
<1>3. LimitsTagged'
  BY Elsewhere, LimitReached, UserTagged, TagsStay, StillThere DEF Kept
<1> QED BY <1>1, <1>2, <1>3 DEF Kept

\* Time makes no key without an expiry.
LEMMA KeptTick ==
  ASSUME TypeOK, Kept, Tick
  PROVE  Kept'
<1>1. \A w \in Workers : h[w].pc = "idle" BY DEF Tick, Idle
<1>2. \A a \in Ads, k \in Kinds : lock[a][k] # Forever
  BY <1>1 DEF Kept, LocksExpire, At
<1>3. \A u \in Users : shownum[u].ttl # Forever
  BY <1>1 DEF Kept, WindowsExpire, At
<1>4. \A t \in 0 .. Forever : t # Forever => Aged(t) # Forever
  BY TimeAssumption DEF Aged, Forever
<1>5. 0 # Forever BY TimeAssumption DEF Forever
<1>6. \A a \in Ads, k \in Kinds : lock'[a][k] # Forever
  BY <1>2, <1>4 DEF Tick, TypeOK, RedisOK
<1>7. \A u \in Users : shownum'[u].ttl # Forever
  <2> SUFFICES ASSUME NEW u \in Users PROVE shownum'[u].ttl # Forever
    OBVIOUS
  <2>1. shownum[u] \in [n: Nat, ttl: 0 .. Forever] BY DEF TypeOK, RedisOK
  <2>2. shownum'[u] = IF Aged(shownum[u].ttl) > 0
                      THEN [shownum[u] EXCEPT !.ttl = Aged(@)]
                      ELSE [n |-> 0, ttl |-> 0]
    BY DEF Tick
  <2>3. Aged(shownum[u].ttl) # Forever BY <1>3, <1>4, <2>1
  <2> QED BY <1>5, <2>1, <2>2, <2>3
<1>8. LimitsTagged'
  BY TagsStay DEF Tick, Kept
<1> QED BY <1>6, <1>7, <1>8 DEF Kept, LocksExpire, WindowsExpire

LEMMA CleanStep == TypeOK /\ Clean /\ [Next]_vars => Clean'
<1> SUFFICES ASSUME TypeOK, Clean, [Next]_vars, faults' = 0 PROVE Kept'
  BY DEF Clean, Kept
<1>0. faults \in Nat BY FaultAssumption DEF TypeOK, GhostOK
<1>1. ASSUME NEW w \in Workers, Step(w) PROVE Kept'
  <2>1. faults' = faults BY <1>0, <1>1, Elsewhere
  <2> QED BY <1>1, <2>1, KeptOn DEF NoFault, Clean, Kept
<1>2. CASE Tick
  BY <1>2, KeptTick DEF Tick, Clean, Kept
<1>3. ASSUME NEW a \in Ads, Serve(a) \/ ReplicateSession(a) \/ ReplicateMark(a) PROVE Kept'
  <2>1. UNCHANGED <<lock, shownum, fre, tagged, h, faults>>
    BY <1>3 DEF Serve, ReplicateSession, ReplicateMark, redis
  <2> QED BY <2>1, LocksStay, WindowsStay, TagsStay DEF Clean, Kept
<1>4. ASSUME NEW w \in Workers, NEW a \in Ads, NEW k \in Kinds, Begin(w, a, k) PROVE Kept'
  <2>1. UNCHANGED <<lock, shownum, fre, tagged, faults>> /\ h[w].pc = "idle"
        /\ \A x \in Workers : x # w => h'[x] = h[x]
    BY <1>4 DEF Begin, redis, TypeOK, WorkOK
  <2> QED BY <2>1, LocksStay, WindowsStay, TagsStay DEF Clean, Kept
<1>5. CASE Crash
  BY <1>0, <1>5 DEF Crash, Fault
<1>6. CASE UNCHANGED vars
  <2>1. UNCHANGED <<lock, shownum, fre, tagged, h, faults>> BY <1>6 DEF vars, redis
  <2> QED BY <2>1, LocksStay, WindowsStay, TagsStay DEF Clean, Kept
<1> QED BY <1>1, <1>2, <1>3, <1>4, <1>5, <1>6 DEF Next

LEMMA CleanInit == Init => Clean
  BY TimeAssumption, FreAssumption
  DEF Init, Clean, LocksExpire, WindowsExpire, LimitsTagged, Forever

\* As long as no command was lost and no process ended, a lock and a window
\* are without an expiry only while their worker is on its way to set it.
THEOREM KeysExpire == Spec => []EveryKeyExpires
<1>1. Clean => EveryKeyExpires
  BY DEF Clean, EveryKeyExpires, LocksExpire, WindowsExpire
<1> QED BY <1>1, TypeInit, TypeStep, CleanInit, CleanStep, PTL DEF Spec

\* As long as no command was lost, who has reached the limit of an order is
\* tagged, or is about to be.
THEOREM LimitsHold == Spec => []LimitTags
<1>1. Clean => LimitTags
  BY DEF Clean, LimitTags, LimitsTagged
<1> QED BY <1>1, TypeInit, TypeStep, CleanInit, CleanStep, PTL DEF Spec

-----------------------------------------------------------------------------

\* What is accepted has counted, and a report that counts is not accepted yet
\* and alone.
CountedFirst ==
  /\ \A a \in Ads, k \in Kinds : k \in accepted[a] => counted[a][k] > 0
  /\ \A w \in Workers : h[w].pc = "count" =>
       /\ counted[h[w].ad][h[w].kind] > 0
       /\ h[w].kind \notin accepted[h[w].ad]
       /\ \A x \in Workers \ {w} :
            ~ (h[x].pc = "count" /\ h[x].ad = h[w].ad /\ h[x].kind = h[w].kind)

LEMMA FirstInit == Init => CountedFirst
BY IdleWork DEF Init, CountedFirst

\* Steps after which no one else waits to be accepted.
LEMMA FirstFrame ==
  ASSUME CountedFirst, UNCHANGED <<counted, accepted>>,
         \A x \in Workers : h'[x] = h[x] \/ h'[x].pc # "count"
  PROVE  CountedFirst'
BY DEF CountedFirst

LEMMA FirstOutside ==
  ASSUME TypeOK, CountedFirst,
         \/ \E a \in Ads : Serve(a) \/ ReplicateSession(a) \/ ReplicateMark(a)
         \/ \E w \in Workers, a \in Ads, k \in Kinds : Begin(w, a, k)
         \/ Tick \/ Crash \/ UNCHANGED vars
  PROVE  CountedFirst'
<1>1. ASSUME NEW a \in Ads, Serve(a) \/ ReplicateSession(a) \/ ReplicateMark(a)
      PROVE  CountedFirst'
  BY <1>1, FirstFrame DEF Serve, ReplicateSession, ReplicateMark, ghost
<1>2. ASSUME NEW w \in Workers, NEW a \in Ads, NEW k \in Kinds, Begin(w, a, k)
      PROVE  CountedFirst'
  <2>1. UNCHANGED <<counted, accepted>> BY <1>2 DEF Begin, ghost
  <2>2. h'[w].pc # "count" /\ \A x \in Workers : x # w => h'[x] = h[x]
    BY <1>2 DEF Begin, TypeOK, WorkOK
  <2> QED BY <2>1, <2>2, FirstFrame
<1>3. CASE Tick \/ UNCHANGED vars
  BY <1>3, FirstFrame DEF Tick, vars, ghost
<1>4. CASE Crash
  BY <1>4, IdleWork, FirstFrame DEF Crash, ghost
<1> QED BY <1>1, <1>2, <1>3, <1>4

\* A report counts that no other worker has counted, nor has accepted.
LEMMA FirstExpire ==
  ASSUME OnceInv, CountedFirst, NEW w \in Workers, Expire(w)
  PROVE  CountedFirst'
<1> DEFINE a == h[w].ad
           k == h[w].kind
<1>0. TypeOK /\ WorkOK /\ a \in Ads /\ k \in Kinds
  BY StepFields DEF OnceInv, TypeOK, Expire
<1>1. counted' = [counted EXCEPT ![a][k] = @ + 1] /\ accepted' = accepted /\ Goto(w, "count")
      /\ h[w].pc = "expire"
  BY DEF Expire
<1>2. /\ \A x \in Workers : x # w => h'[x] = h[x]
      /\ h'[w].pc = "count" /\ h'[w].ad = a /\ h'[w].kind = k
  BY <1>0, <1>1, GotoFields
<1>3. counted[a][k] = 0 BY <1>1 DEF OnceInv, LockedAlone
<1>4. counted \in [Ads -> [Kinds -> Nat]] BY <1>0 DEF TypeOK, GhostOK
<1> HIDE DEF a, k
<1>5. /\ counted'[a][k] > 0
      /\ \A b \in Ads, l \in Kinds : counted[b][l] > 0 => counted'[b][l] > 0
  BY <1>0, <1>1, <1>4
<1>6. k \notin accepted[a] BY <1>0, <1>3, <1>4 DEF CountedFirst
<1>7. \A x \in Workers : h[x].pc = "count" => ~ (h[x].ad = a /\ h[x].kind = k)
  BY <1>3 DEF CountedFirst
<1>8. \A x \in Workers : h[x].pc = "count" => h[x].ad \in Ads /\ h[x].kind \in Kinds
  BY <1>0, StepFields
<1>9. \A b \in Ads, l \in Kinds : l \in accepted'[b] => counted'[b][l] > 0
  BY <1>1, <1>5 DEF CountedFirst
<1>10. ASSUME NEW x \in Workers, h'[x].pc = "count"
       PROVE  /\ counted'[h'[x].ad][h'[x].kind] > 0
              /\ h'[x].kind \notin accepted'[h'[x].ad]
              /\ \A y \in Workers \ {x} :
                   ~ (h'[y].pc = "count" /\ h'[y].ad = h'[x].ad /\ h'[y].kind = h'[x].kind)
  <2>1. CASE x = w BY <2>1, <1>1, <1>2, <1>5, <1>6, <1>7
  <2>2. CASE x # w
    <3>1. h'[x] = h[x] /\ h[x].pc = "count" BY <2>2, <1>2, <1>10
    <3>2. counted'[h'[x].ad][h'[x].kind] > 0 BY <3>1, <1>5, <1>8 DEF CountedFirst
    <3>3. h'[x].kind \notin accepted'[h'[x].ad] BY <3>1, <1>1 DEF CountedFirst
    <3>4. ASSUME NEW y \in Workers \ {x}, h'[y].pc = "count", h'[y].ad = h'[x].ad,
                 h'[y].kind = h'[x].kind
          PROVE  FALSE
      <4>1. CASE y = w BY <3>1, <3>4, <4>1, <1>2, <1>7
      <4>2. CASE y # w
        <5>1. h'[y] = h[y] BY <4>2, <1>2
        <5> QED BY <5>1, <3>1, <3>4 DEF CountedFirst
      <4> QED BY <4>1, <4>2
    <3> QED BY <3>2, <3>3, <3>4
  <2> QED BY <2>1, <2>2
<1> QED BY <1>9, <1>10 DEF CountedFirst

\* A report is accepted.
LEMMA FirstAccept ==
  ASSUME TypeOK, CountedFirst, NEW w \in Workers, h[w].pc = "count",
         Accept(h[w].ad, h[w].kind), counted' = counted,
         h'[w].pc # "count", \A x \in Workers : x # w => h'[x] = h[x]
  PROVE  CountedFirst'
<1> DEFINE a == h[w].ad
           k == h[w].kind
<1>0. a \in Ads /\ k \in Kinds BY StepFields
<1>1. accepted \in [Ads -> SUBSET Kinds] BY DEF TypeOK, GhostOK
<1>2. counted[a][k] > 0 BY DEF CountedFirst
<1>3. \A b \in Ads : accepted'[b] = IF b = a THEN accepted[a] \cup {k} ELSE accepted[b]
  BY <1>0, <1>1 DEF Accept
<1>4. \A x \in Workers : h'[x].pc = "count" =>
        h'[x] = h[x] /\ x # w /\ ~ (h[x].ad = a /\ h[x].kind = k) /\ h[x].ad \in Ads
  BY StepFields DEF CountedFirst
<1> HIDE DEF a, k
<1>5. \A b \in Ads, l \in Kinds : l \in accepted'[b] => counted'[b][l] > 0
  BY <1>2, <1>3 DEF CountedFirst
<1>6. \A x \in Workers : h'[x].pc = "count" =>
       /\ counted'[h'[x].ad][h'[x].kind] > 0
       /\ h'[x].kind \notin accepted'[h'[x].ad]
  BY <1>3, <1>4 DEF CountedFirst
<1>7. \A x \in Workers : h'[x].pc = "count" => \A y \in Workers \ {x} :
        ~ (h'[y].pc = "count" /\ h'[y].ad = h'[x].ad /\ h'[y].kind = h'[x].kind)
  BY <1>4 DEF CountedFirst
<1> QED BY <1>5, <1>6, <1>7 DEF CountedFirst

\* What the two accounts are owed for the callback of a worker.
UsesLeft(w) ==
  h[w].pc \in {"price", "used"} \/ (h[w].pc = "window" /\ PaidOn[h[w].ad] = "show")
TakesLeft(w) == UsesLeft(w) \/ h[w].pc = "taken"

LEMMA LeftOver ==
  /\ ToUse = {w \in Workers : UsesLeft(w)}
  /\ ToTake = {w \in Workers : TakesLeft(w)}
BY DEF ToUse, ToTake, At, UsesLeft, TakesLeft

\* One worker moves.
LEMMA LeftOverOf ==
  ASSUME NEW w \in Workers, \A x \in Workers : x # w => h'[x] = h[x]
  PROVE  /\ ToUse' = IF UsesLeft(w)' THEN ToUse \cup {w} ELSE ToUse \ {w}
         /\ ToTake' = IF TakesLeft(w)' THEN ToTake \cup {w} ELSE ToTake \ {w}
         /\ w \in ToUse <=> UsesLeft(w)
         /\ w \in ToTake <=> TakesLeft(w)
<1>1. ToUse' = {x \in Workers : UsesLeft(x)'} /\ ToTake' = {x \in Workers : TakesLeft(x)'}
  BY DEF ToUse, ToTake, At, UsesLeft, TakesLeft
<1>2. \A x \in Workers : x # w =>
        (UsesLeft(x)' <=> UsesLeft(x)) /\ (TakesLeft(x)' <=> TakesLeft(x))
  BY DEF UsesLeft, TakesLeft
<1> QED BY <1>1, <1>2, LeftOver

Accounts == <<used, taken, Chargeable>>

\* The ways a step can change what is charged and what is owed.
Unowed == UNCHANGED <<Accounts, ToUse, ToTake>> /\ (faults' = faults \/ faults' = faults + 1)

Owed == \E w \in Workers, a \in Ads :
  /\ a \notin Chargeable /\ Chargeable' = Chargeable \cup {a}
  /\ w \notin ToUse /\ ToUse' = ToUse \cup {w}
  /\ w \notin ToTake /\ ToTake' = ToTake \cup {w}
  /\ UNCHANGED <<used, taken, faults>>

PaidUsed == \E w \in ToUse :
  /\ used' = used + 1 /\ ToUse' = ToUse \ {w}
  /\ UNCHANGED <<taken, Chargeable, ToTake, faults>>

PaidTaken == \E w \in ToTake :
  /\ taken' = taken + 1 /\ ToTake' = ToTake \ {w}
  /\ UNCHANGED <<used, Chargeable, ToUse, faults>>

Missed ==
  /\ ToUse' \subseteq ToUse /\ ToTake' \subseteq ToTake
  /\ UNCHANGED Accounts /\ faults' = faults + 1

Effect == Unowed \/ Owed \/ PaidUsed \/ PaidTaken \/ Missed

\* A worker that owes nothing before and after its step.
LEMMA OwesNothing ==
  ASSUME NEW w \in Workers, \A x \in Workers : x # w => h'[x] = h[x],
         UNCHANGED <<used, taken, accepted>>, faults' = faults \/ faults' = faults + 1,
         UsesLeft(w)' <=> UsesLeft(w), TakesLeft(w)' <=> TakesLeft(w)
  PROVE  Unowed
<1>1. Chargeable' = Chargeable BY DEF Chargeable
<1>2. ToUse' = ToUse /\ ToTake' = ToTake BY LeftOverOf
<1> QED BY <1>1, <1>2 DEF Unowed, Accounts

\* A step of which the reply is lost, or after which the process ends.
LEMMA OwesLess ==
  ASSUME UNCHANGED <<used, taken, accepted>>, Fault,
         \A x \in Workers : (UsesLeft(x)' => UsesLeft(x)) /\ (TakesLeft(x)' => TakesLeft(x))
  PROVE  Missed
<1>1. Chargeable' = Chargeable BY DEF Chargeable
<1>2. ToUse' = {x \in Workers : UsesLeft(x)'} /\ ToTake' = {x \in Workers : TakesLeft(x)'}
  BY DEF ToUse, ToTake, At, UsesLeft, TakesLeft
<1>3. ToUse' \subseteq ToUse /\ ToTake' \subseteq ToTake BY <1>2, LeftOver
<1> QED BY <1>1, <1>3 DEF Missed, Accounts, Fault

\* An accepted report is charged if the order pays for its kind.
LEMMA AcceptedOwes ==
  ASSUME TypeOK, CountedFirst, NEW w \in Workers, h[w].pc = "count",
         Accept(h[w].ad, h[w].kind), UNCHANGED <<used, taken, faults>>,
         \A x \in Workers : x # w => h'[x] = h[x],
         UsesLeft(w)' <=> PaidOn[h[w].ad] = h[w].kind,
         TakesLeft(w)' <=> PaidOn[h[w].ad] = h[w].kind
  PROVE  Unowed \/ Owed
<1> DEFINE a == h[w].ad
           k == h[w].kind
<1>0. a \in Ads /\ k \in Kinds /\ PaidOn \in [Ads -> Kinds] BY StepFields, PaidAssumption
<1>1. accepted \in [Ads -> SUBSET Kinds] BY DEF TypeOK, GhostOK
<1>2. \A b \in Ads : accepted'[b] = IF b = a THEN accepted[a] \cup {k} ELSE accepted[b]
  BY <1>0, <1>1 DEF Accept
<1>3. k \notin accepted[a] BY DEF CountedFirst
<1>4. ~UsesLeft(w) /\ ~TakesLeft(w) BY DEF UsesLeft, TakesLeft
<1>5. CASE PaidOn[a] = k
  <2>1. a \notin Chargeable /\ Chargeable' = Chargeable \cup {a}
    BY <1>0, <1>2, <1>3, <1>5 DEF Chargeable
  <2>2. /\ w \notin ToUse /\ ToUse' = ToUse \cup {w}
        /\ w \notin ToTake /\ ToTake' = ToTake \cup {w}
    BY <1>4, <1>5, LeftOverOf
  <2> QED BY <1>0, <2>1, <2>2 DEF Owed
<1>6. CASE PaidOn[a] # k
  <2>1. Chargeable' = Chargeable BY <1>0, <1>2, <1>6 DEF Chargeable
  <2>2. ToUse' = ToUse /\ ToTake' = ToTake BY <1>4, <1>6, LeftOverOf
  <2> QED BY <2>1, <2>2 DEF Unowed, Accounts
<1> QED BY <1>5, <1>6

\* A worker that goes where nothing is owed.
LEMMA GoesFree ==
  ASSUME TypeOK, NEW w \in Workers, ~UsesLeft(w), ~TakesLeft(w),
         UNCHANGED <<used, taken, accepted>>, faults' = faults \/ faults' = faults + 1,
         \/ \E p \in Pc \ {"price", "used", "taken", "window"} :
              Goto(w, p) \/ \E b \in BOOLEAN : GotoBill(w, p, b)
         \/ Done(w)
  PROVE  Unowed
<1>0. WorkOK BY DEF TypeOK
<1>1. /\ \A x \in Workers : x # w => h'[x] = h[x]
      /\ h'[w].pc \notin {"price", "used", "taken", "window"}
  <2>1. ASSUME NEW p \in Pc \ {"price", "used", "taken", "window"}, Goto(w, p)
        PROVE  /\ \A x \in Workers : x # w => h'[x] = h[x]
               /\ h'[w].pc \notin {"price", "used", "taken", "window"}
    BY <2>1, <1>0, GotoFields
  <2>2. ASSUME NEW p \in Pc \ {"price", "used", "taken", "window"}, NEW b \in BOOLEAN,
               GotoBill(w, p, b)
        PROVE  /\ \A x \in Workers : x # w => h'[x] = h[x]
               /\ h'[w].pc \notin {"price", "used", "taken", "window"}
    BY <2>2, <1>0, GotoBillFields
  <2>3. CASE Done(w) BY <2>3, <1>0, DoneMoves, IdleWork
  <2> QED BY <2>1, <2>2, <2>3
<1>2. ~UsesLeft(w)' /\ ~TakesLeft(w)' BY <1>1 DEF UsesLeft, TakesLeft
<1> QED BY <1>1, <1>2, OwesNothing

LEMMA EffectOfCallback ==
  ASSUME TypeOK, NEW w \in Workers,
         GetShow(w) \/ Lock(w) \/ Expire(w) \/ Limit(w) \/ SettleShow(w) \/ SettleClick(w)
  PROVE  Unowed
<1> USE DEF Reached, Fault, redis, ghost
<1>0. /\ ~UsesLeft(w) /\ ~TakesLeft(w) /\ UNCHANGED <<used, taken, accepted>>
      /\ faults' = faults \/ faults' = faults + 1
  <2>1. h[w].pc \in {"getshow", "lock", "expire", "limit", "settle"}
    BY DEF GetShow, Lock, Expire, Limit, SettleShow, SettleClick
  <2>2. UNCHANGED <<used, taken, accepted>>
    BY DEF GetShow, Lock, Expire, Limit, SettleShow, SettleClick
  <2>3. faults' = faults \/ faults' = faults + 1
    BY DEF GetShow, Lock, Expire, Limit, SettleShow, SettleClick
  <2> QED BY <2>1, <2>2, <2>3 DEF UsesLeft, TakesLeft
<1>1. \/ \E p \in {"lock", "expire", "count", "hit", "settle"} :
           Goto(w, p) \/ \E b \in BOOLEAN : GotoBill(w, p, b)
      \/ Done(w)
  BY DEF GetShow, Lock, Expire, Limit, SettleShow, SettleClick
<1>2. {"lock", "expire", "count", "hit", "settle"} \subseteq
        Pc \ {"price", "used", "taken", "window"}
  BY DEF Pc
<1> QED BY <1>0, <1>1, <1>2, GoesFree

LEMMA EffectOfHit ==
  ASSUME TypeOK, NEW w \in Workers, Hit(w) \/ Tag(w)
  PROVE  Unowed \/ Missed
<1>0. /\ ~UsesLeft(w) /\ ~TakesLeft(w) /\ UNCHANGED <<used, taken, accepted>>
  <2>1. h[w].pc \in {"hit", "tag"} BY DEF Hit, Tag
  <2>2. UNCHANGED <<used, taken, accepted>> BY DEF Hit, Tag, redis, ghost
  <2> QED BY <2>1, <2>2 DEF UsesLeft, TakesLeft
<1>1. \/ /\ Goto(w, "tag") \/ Goto(w, "settle") \/ Done(w)
         /\ faults' = faults \/ faults' = faults + 1
      \/ h' = [x \in Workers |-> Idle] /\ Fault
  BY DEF Hit, Tag, Reached, Fault
<1>2. CASE /\ Goto(w, "tag") \/ Goto(w, "settle") \/ Done(w)
           /\ faults' = faults \/ faults' = faults + 1
  <2>1. "tag" \in Pc \ {"price", "used", "taken", "window"}
        /\ "settle" \in Pc \ {"price", "used", "taken", "window"}
    BY DEF Pc
  <2> QED BY <1>0, <1>2, <2>1, GoesFree
<1>3. CASE h' = [x \in Workers |-> Idle] /\ Fault
  <2>1. \A x \in Workers : ~UsesLeft(x)' /\ ~TakesLeft(x)'
    BY <1>3, IdleWork DEF UsesLeft, TakesLeft
  <2> QED BY <1>0, <1>3, <2>1, OwesLess
<1> QED BY <1>1, <1>2, <1>3

LEMMA EffectOfAccount ==
  ASSUME TypeOK, NEW w \in Workers, Price(w) \/ Used(w) \/ Taken(w)
  PROVE  Effect
<1>0. WorkOK BY DEF TypeOK
<1>1. CASE Price(w)
  <2>1. CASE Reached /\ Goto(w, "used")
    <3>1. h'[w].pc = "used" /\ \A x \in Workers : x # w => h'[x] = h[x]
      BY <1>0, <2>1, GotoFields
    <3>2. UsesLeft(w) /\ TakesLeft(w) /\ UsesLeft(w)' /\ TakesLeft(w)'
      BY <1>1, <3>1 DEF Price, UsesLeft, TakesLeft
    <3>3. UNCHANGED <<used, taken, accepted, faults>>
      BY <1>1, <2>1 DEF Price, Reached, redis, ghost
    <3> QED BY <3>1, <3>2, <3>3, OwesNothing DEF Effect
  <2>2. ASSUME NEW p \in {"limit", "settle"}, Fault, Goto(w, p) PROVE Effect
    <3>1. h'[w].pc = p /\ \A x \in Workers : x # w => h'[x] = h[x]
      BY <1>0, <2>2, GotoFields
    <3>2. \A x \in Workers : (UsesLeft(x)' => UsesLeft(x)) /\ (TakesLeft(x)' => TakesLeft(x))
      BY <3>1 DEF UsesLeft, TakesLeft
    <3>3. UNCHANGED <<used, taken, accepted>> BY <1>1 DEF Price, redis, ghost
    <3> QED BY <2>2, <3>2, <3>3, OwesLess DEF Effect
  <2> QED BY <1>1, <2>1, <2>2 DEF Price
<1>2. CASE Used(w)
  <2>0. h[w].pc = "used" /\ UNCHANGED <<taken, accepted>> /\ Goto(w, "taken")
    BY <1>2 DEF Used, ghost
  <2>1. h'[w].pc = "taken" /\ \A x \in Workers : x # w => h'[x] = h[x]
    BY <1>0, <2>0, GotoFields
  <2>2. UsesLeft(w) /\ TakesLeft(w) /\ ~UsesLeft(w)' /\ TakesLeft(w)'
    BY <2>0, <2>1 DEF UsesLeft, TakesLeft
  <2>3. CASE used' = used + 1 /\ Reached
    <3>1. Chargeable' = Chargeable BY <2>0 DEF Chargeable
    <3>2. w \in ToUse /\ ToUse' = ToUse \ {w} /\ ToTake' = ToTake
      BY <2>1, <2>2, LeftOverOf
    <3> QED BY <2>0, <2>3, <3>1, <3>2 DEF Effect, PaidUsed, Reached
  <2>4. CASE used' = used /\ Fault
    <3>1. \A x \in Workers : (UsesLeft(x)' => UsesLeft(x)) /\ (TakesLeft(x)' => TakesLeft(x))
      BY <2>1, <2>2 DEF UsesLeft, TakesLeft
    <3> QED BY <2>0, <2>4, <3>1, OwesLess DEF Effect
  <2> QED BY <1>2, <2>3, <2>4 DEF Used
<1>3. CASE Taken(w)
  <2>0. h[w].pc = "taken" /\ UNCHANGED <<used, accepted>> /\ Goto(w, "limit")
    BY <1>3 DEF Taken, ghost
  <2>1. h'[w].pc = "limit" /\ \A x \in Workers : x # w => h'[x] = h[x]
    BY <1>0, <2>0, GotoFields
  <2>2. ~UsesLeft(w) /\ TakesLeft(w) /\ ~UsesLeft(w)' /\ ~TakesLeft(w)'
    BY <2>0, <2>1 DEF UsesLeft, TakesLeft
  <2>3. CASE taken' = taken + 1 /\ Reached
    <3>1. Chargeable' = Chargeable BY <2>0 DEF Chargeable
    <3>2. w \in ToTake /\ ToTake' = ToTake \ {w} /\ ToUse' = ToUse
      BY <2>1, <2>2, LeftOverOf
    <3> QED BY <2>0, <2>3, <3>1, <3>2 DEF Effect, PaidTaken, Reached
  <2>4. CASE taken' = taken /\ Fault
    <3>1. \A x \in Workers : (UsesLeft(x)' => UsesLeft(x)) /\ (TakesLeft(x)' => TakesLeft(x))
      BY <2>1, <2>2 DEF UsesLeft, TakesLeft
    <3> QED BY <2>0, <2>4, <3>1, OwesLess DEF Effect
  <2> QED BY <1>3, <2>3, <2>4 DEF Taken
<1> QED BY <1>1, <1>2, <1>3

LEMMA EffectOfWindow ==
  ASSUME TypeOK, NEW w \in Workers, OpenWindow(w)
  PROVE  Effect
<1>0. WorkOK BY DEF TypeOK
<1>1. /\ h[w].pc = "window" /\ Goto(w, AfterCount(h[w].ad, "show"))
      /\ UNCHANGED <<used, taken, accepted>> /\ (faults' = faults \/ faults' = faults + 1)
  BY DEF OpenWindow, Reached, Fault, ghost
<1>2. /\ \A x \in Workers : x # w => h'[x] = h[x]
      /\ h'[w].pc = AfterCount(h[w].ad, "show") /\ h'[w].ad = h[w].ad
  BY <1>0, <1>1, GotoFields, Zenon
<1>3. (UsesLeft(w)' <=> UsesLeft(w)) /\ (TakesLeft(w)' <=> TakesLeft(w))
  BY <1>1, <1>2 DEF UsesLeft, TakesLeft, AfterCount
<1> QED BY <1>1, <1>2, <1>3, OwesNothing DEF Effect

LEMMA EffectOfCount ==
  ASSUME TypeOK, CountedFirst, NEW w \in Workers, CountShow(w) \/ CountClick(w)
  PROVE  Effect
<1> DEFINE a == h[w].ad
           k == h[w].kind
<1>0. WorkOK /\ h[w].pc = "count" /\ UNCHANGED <<used, taken>>
  BY DEF TypeOK, CountShow, CountClick
<1>1. ASSUME NEW p, NEW b, Accept(a, k), GotoBill(w, p, b), faults' = faults,
             p \in {"window", AfterCount(a, k)}, p = "window" => k = "show"
      PROVE  Effect
  <2>1. /\ \A x \in Workers : x # w => h'[x] = h[x]
        /\ h'[w].pc = p /\ h'[w].ad = a
    BY <1>0, <1>1, GotoBillFields
  <2>2. (UsesLeft(w)' <=> PaidOn[a] = k) /\ (TakesLeft(w)' <=> PaidOn[a] = k)
    BY <1>1, <2>1 DEF UsesLeft, TakesLeft, AfterCount
  <2> QED BY <1>0, <1>1, <2>1, <2>2, AcceptedOwes DEF Effect
<1>2. ASSUME Done(w), accepted' = accepted, faults' = faults \/ faults' = faults + 1
      PROVE  Effect
  <2>1. ~UsesLeft(w) /\ ~TakesLeft(w) BY <1>0 DEF UsesLeft, TakesLeft
  <2> QED BY <1>0, <1>2, <2>1, GoesFree DEF Effect
<1>3. CASE CountShow(w)
  <2> DEFINE n == shownum[UserOf[h[w].ad]].n + 1
             q == IF n = 1 THEN "window" ELSE AfterCount(a, "show")
             c == n <= ShowBill
  <2>1. k = "show" BY <1>3 DEF CountShow
  <2>2. \/ Accept(a, k) /\ GotoBill(w, q, c) /\ faults' = faults
        \/ Done(w) /\ accepted' = accepted /\ (faults' = faults \/ faults' = faults + 1)
    BY <1>3, <2>1 DEF CountShow, Reached, Fault
  <2>3. q \in {"window", AfterCount(a, k)} BY <2>1
  <2> HIDE DEF n, q, c
  <2> QED BY <1>1, <1>2, <2>1, <2>2, <2>3
<1>4. CASE CountClick(w)
  <2> DEFINE n == clicknum[UserOf[h[w].ad]] + 1
             q == AfterCount(a, "click")
             c == h[w].bill /\ n <= ClickBill
  <2>1. k = "click" BY <1>4 DEF CountClick
  <2>2. \/ Accept(a, k) /\ GotoBill(w, q, c) /\ faults' = faults
        \/ Done(w) /\ accepted' = accepted /\ (faults' = faults \/ faults' = faults + 1)
    BY <1>4, <2>1 DEF CountClick, Reached, Fault
  <2>3. q = AfterCount(a, k) /\ q # "window" BY <2>1 DEF AfterCount
  <2> HIDE DEF n, q, c
  <2> QED BY <1>1, <1>2, <2>1, <2>2, <2>3
<1> QED BY <1>3, <1>4

LEMMA EffectOutside ==
  ASSUME TypeOK,
         \/ \E a \in Ads : Serve(a) \/ ReplicateSession(a) \/ ReplicateMark(a)
         \/ \E w \in Workers, a \in Ads, k \in Kinds : Begin(w, a, k)
         \/ Tick \/ Crash \/ UNCHANGED vars
  PROVE  Effect
<1>1. ASSUME UNCHANGED <<used, taken, accepted, faults, h>> PROVE Effect
  BY <1>1 DEF Effect, Unowed, Accounts, Chargeable, ToUse, ToTake, At
<1>2. ASSUME NEW a \in Ads, Serve(a) \/ ReplicateSession(a) \/ ReplicateMark(a)
      PROVE  Effect
  BY <1>1, <1>2 DEF Serve, ReplicateSession, ReplicateMark, redis, ghost
<1>3. ASSUME NEW w \in Workers, NEW a \in Ads, NEW k \in Kinds, Begin(w, a, k)
      PROVE  Effect
  <2>1. UNCHANGED <<used, taken, accepted, faults>> BY <1>3 DEF Begin, redis, ghost
  <2>2. /\ h[w].pc = "idle" /\ h'[w].pc \in {"lock", "getshow"}
        /\ \A x \in Workers : x # w => h'[x] = h[x]
    BY <1>3 DEF Begin, TypeOK, WorkOK
  <2>3. ~UsesLeft(w) /\ ~TakesLeft(w) /\ ~UsesLeft(w)' /\ ~TakesLeft(w)'
    BY <2>2 DEF UsesLeft, TakesLeft
  <2> QED BY <2>1, <2>2, <2>3, OwesNothing DEF Effect
<1>4. CASE Tick \/ UNCHANGED vars
  BY <1>1, <1>4 DEF Tick, vars, redis, ghost
<1>5. CASE Crash
  <2>1. \A x \in Workers : ~UsesLeft(x)' /\ ~TakesLeft(x)'
    BY <1>5, IdleWork DEF Crash, UsesLeft, TakesLeft
  <2> QED BY <1>5, <2>1, OwesLess DEF Crash, redis, ghost, Effect
<1> QED BY <1>2, <1>3, <1>4, <1>5

\* Every step charges what it should, or loses it with a fault.
LEMMA EffectStep == TypeOK /\ CountedFirst /\ [Next]_vars => Effect
<1> SUFFICES ASSUME TypeOK, CountedFirst, [Next]_vars PROVE Effect OBVIOUS
<1>1. ASSUME NEW w \in Workers, Step(w) PROVE Effect
  BY <1>1, EffectOfCallback, EffectOfHit, EffectOfAccount, EffectOfWindow, EffectOfCount
     DEF Step, Effect
<1> QED BY <1>1, EffectOutside DEF Next

\* An account with n in it and the callbacks of S owed to it, against what is
\* due for the ads of D after f faults.
Balanced(n, S, D, f) ==
  /\ n + Cardinality(S) <= Cardinality(D)
  /\ Cardinality(D) <= n + Cardinality(S) + f * Cardinality(Workers)

LEMMA Counts ==
  ASSUME NEW S \in SUBSET Workers
  PROVE  /\ IsFiniteSet(S) /\ Cardinality(S) \in Nat /\ Cardinality(Workers) \in Nat
         /\ Cardinality(S) <= Cardinality(Workers)
BY WorkerAssumption, FS_Subset, FS_CardinalityType

LEMMA BalancedFaults ==
  ASSUME NEW n \in Nat, NEW S \in SUBSET Workers, NEW D, IsFiniteSet(D), NEW f \in Nat,
         Balanced(n, S, D, f)
  PROVE  Balanced(n, S, D, f + 1)
<1>1. PICK m \in Nat : m = Cardinality(Workers) BY Counts
<1>2. (f + 1) * m = f * m + m /\ f * m \in Nat BY <1>1
<1>3. Cardinality(S) \in Nat /\ Cardinality(D) \in Nat BY Counts, FS_CardinalityType
<1>4. PICK g \in Nat : g = f * m BY <1>2
<1> QED BY <1>1, <1>2, <1>3, <1>4 DEF Balanced

\* Callbacks that are dropped with a fault.
LEMMA BalancedMissed ==
  ASSUME NEW n \in Nat, NEW S \in SUBSET Workers, NEW D, IsFiniteSet(D), NEW f \in Nat,
         Balanced(n, S, D, f), NEW T \in SUBSET S
  PROVE  Balanced(n, T, D, f + 1)
<1>1. PICK m \in Nat : m = Cardinality(Workers) BY Counts
<1>2. (f + 1) * m = f * m + m /\ f * m \in Nat BY <1>1
<1>3. PICK s \in Nat, d \in Nat : s = Cardinality(S) /\ d = Cardinality(D)
  BY Counts, FS_CardinalityType
<1>4. PICK t \in Nat : t = Cardinality(T) BY Counts
<1>5. t <= s /\ s <= m BY <1>1, <1>3, <1>4, Counts, FS_Subset
<1>6. PICK g \in Nat : g = f * m BY <1>2
<1>7. n + s <= d /\ d <= n + s + g BY <1>1, <1>3, <1>6 DEF Balanced
<1>8. n + t <= d /\ d <= n + t + (g + m) BY <1>5, <1>7
<1> QED BY <1>1, <1>2, <1>3, <1>4, <1>6, <1>8 DEF Balanced

\* One more callback is owed for one more ad.
LEMMA BalancedOwed ==
  ASSUME NEW n \in Nat, NEW S \in SUBSET Workers, NEW D, IsFiniteSet(D), NEW f \in Nat,
         Balanced(n, S, D, f), NEW w \in Workers, w \notin S, NEW a, a \notin D
  PROVE  IsFiniteSet(D \cup {a}) /\ Balanced(n, S \cup {w}, D \cup {a}, f)
<1>1. IsFiniteSet(S) /\ Cardinality(S) \in Nat /\ Cardinality(D) \in Nat
  BY Counts, FS_CardinalityType
<1>2. Cardinality(S \cup {w}) = Cardinality(S) + 1 BY <1>1, FS_AddElement
<1>3. IsFiniteSet(D \cup {a}) /\ Cardinality(D \cup {a}) = Cardinality(D) + 1
  BY FS_AddElement
<1>4. PICK g \in Nat : g = f * Cardinality(Workers)
  <2>1. PICK m \in Nat : m = Cardinality(Workers) BY Counts
  <2>2. f * m \in Nat BY <2>1
  <2> QED BY <2>1, <2>2
<1> QED BY <1>1, <1>2, <1>3, <1>4 DEF Balanced

\* What was owed is paid.
LEMMA BalancedPaid ==
  ASSUME NEW n \in Nat, NEW S \in SUBSET Workers, NEW D, IsFiniteSet(D), NEW f \in Nat,
         Balanced(n, S, D, f), NEW w \in S
  PROVE  Balanced(n + 1, S \ {w}, D, f)
<1>1. IsFiniteSet(S) /\ Cardinality(S) \in Nat /\ Cardinality(D) \in Nat
  BY Counts, FS_CardinalityType
<1>2. Cardinality(S \ {w}) = Cardinality(S) - 1 BY <1>1, FS_RemoveElement
<1>4. PICK g \in Nat : g = f * Cardinality(Workers)
  <2>1. PICK m \in Nat : m = Cardinality(Workers) BY Counts
  <2>2. f * m \in Nat BY <2>1
  <2> QED BY <2>1, <2>2
<1> QED BY <1>1, <1>2, <1>4 DEF Balanced

\* Both accounts.
Charged ==
  /\ IsFiniteSet(Chargeable)
  /\ Balanced(used, ToUse, Chargeable, faults)
  /\ Balanced(taken, ToTake, Chargeable, faults)

LEMMA ChargedEffect ==
  ASSUME TypeOK, Charged, Effect
  PROVE  Charged'
<1>0. /\ used \in Nat /\ taken \in Nat /\ faults \in Nat
      /\ ToUse \in SUBSET Workers /\ ToTake \in SUBSET Workers
      /\ IsFiniteSet(Chargeable)
      /\ Balanced(used, ToUse, Chargeable, faults)
      /\ Balanced(taken, ToTake, Chargeable, faults)
  BY FaultAssumption DEF TypeOK, RedisOK, GhostOK, ToUse, ToTake, At, Charged
<1> DEFINE After(n, S, m, T) ==
      /\ IsFiniteSet(Chargeable') /\ Balanced(n, S, Chargeable', faults')
      /\ Balanced(m, T, Chargeable', faults')
<1>1. SUFFICES After(used', ToUse', taken', ToTake') BY DEF Charged, Balanced
<1>2. CASE Unowed
  BY <1>0, <1>2, BalancedFaults DEF Unowed, Accounts
<1>3. CASE Owed
  <2>1. PICK w \in Workers, a \in Ads :
          /\ a \notin Chargeable /\ Chargeable' = Chargeable \cup {a}
          /\ w \notin ToUse /\ ToUse' = ToUse \cup {w}
          /\ w \notin ToTake /\ ToTake' = ToTake \cup {w}
          /\ UNCHANGED <<used, taken, faults>>
    BY <1>3 DEF Owed
  <2> QED BY <1>0, <2>1, BalancedOwed
<1>4. CASE PaidUsed
  BY <1>0, <1>4, BalancedPaid DEF PaidUsed
<1>5. CASE PaidTaken
  BY <1>0, <1>5, BalancedPaid DEF PaidTaken
<1>6. CASE Missed
  BY <1>0, <1>6, BalancedMissed DEF Missed, Accounts
<1> QED BY <1>2, <1>3, <1>4, <1>5, <1>6 DEF Effect

ChargeInv == OnceInv /\ CountedFirst /\ Charged

LEMMA ChargeInit == Init => ChargeInv
<1> SUFFICES ASSUME Init PROVE ChargeInv OBVIOUS
<1>1. Chargeable = {} /\ ToUse = {} /\ ToTake = {} /\ used = 0 /\ taken = 0 /\ faults = 0
  BY IdleWork, PaidAssumption DEF Init, Chargeable, ToUse, ToTake, At
<1>2. Charged
  <2>1. PICK m \in Nat : m = Cardinality(Workers) BY Counts
  <2>2. 0 * m = 0 BY <2>1
  <2> QED BY <1>1, <2>1, <2>2, FS_EmptySet DEF Charged, Balanced
<1> QED BY <1>2, OnceInit, FirstInit DEF ChargeInv

LEMMA FirstStep ==
  ASSUME OnceInv, CountedFirst, [Next]_vars
  PROVE  CountedFirst'
<1>0. TypeOK /\ WorkOK BY DEF OnceInv, TypeOK
<1>1. ASSUME NEW w \in Workers, CountShow(w) \/ CountClick(w) PROVE CountedFirst'
  <2>1. h[w].pc = "count" /\ UNCHANGED counted BY <1>1 DEF CountShow, CountClick
  <2>2. ASSUME NEW p, NEW b, Accept(h[w].ad, h[w].kind), GotoBill(w, p, b), p # "count"
        PROVE  CountedFirst'
    BY <2>1, <2>2, <1>0, GotoBillFields, FirstAccept
  <2>3. ASSUME Done(w), accepted' = accepted PROVE CountedFirst'
    BY <2>1, <2>3, <1>0, DoneMoves, IdleWork, FirstFrame
  <2>4. CASE CountShow(w)
    <3> DEFINE n == shownum[UserOf[h[w].ad]].n + 1
               q == IF n = 1 THEN "window" ELSE AfterCount(h[w].ad, "show")
               c == n <= ShowBill
    <3>1. \/ Accept(h[w].ad, h[w].kind) /\ GotoBill(w, q, c)
          \/ Done(w) /\ accepted' = accepted
      BY <2>4 DEF CountShow
    <3>2. q # "count" BY DEF AfterCount
    <3> HIDE DEF q, c
    <3> QED BY <3>1, <3>2, <2>2, <2>3
  <2>5. CASE CountClick(w)
    <3> DEFINE n == clicknum[UserOf[h[w].ad]] + 1
               q == AfterCount(h[w].ad, "click")
               c == h[w].bill /\ n <= ClickBill
    <3>1. \/ Accept(h[w].ad, h[w].kind) /\ GotoBill(w, q, c)
          \/ Done(w) /\ accepted' = accepted
      BY <2>5 DEF CountClick
    <3>2. q # "count" BY DEF AfterCount
    <3> HIDE DEF q, c
    <3> QED BY <3>1, <3>2, <2>2, <2>3
  <2> QED BY <1>1, <2>4, <2>5
<1>2. ASSUME NEW w \in Workers, Step(w), ~Expire(w), ~CountShow(w), ~CountClick(w)
      PROVE  CountedFirst'
  <2>1. UNCHANGED <<counted, accepted>>
    BY <1>2 DEF Step, GetShow, Lock, OpenWindow, Price, Used, Taken, Limit, Hit, Tag,
       SettleShow, SettleClick, ghost
  <2> DEFINE Free == {"lock", "expire", "price", "used", "taken", "limit", "hit", "tag", "settle"}
  <2>2. \/ \E p \in Free : Goto(w, p) \/ \E b : GotoBill(w, p, b)
        \/ Done(w) \/ h' = [x \in Workers |-> Idle]
    BY <1>2 DEF Step, GetShow, Lock, OpenWindow, AfterCount, Price, Used, Taken, Limit, Hit,
       Tag, SettleShow, SettleClick
  <2>3. ASSUME NEW p \in Free, Goto(w, p) PROVE CountedFirst'
    BY <2>1, <2>3, <1>0, GotoFields, FirstFrame
  <2>4. ASSUME NEW p \in Free, NEW b, GotoBill(w, p, b) PROVE CountedFirst'
    BY <2>1, <2>4, <1>0, GotoBillFields, FirstFrame
  <2>5. CASE Done(w) BY <2>1, <2>5, <1>0, DoneMoves, IdleWork, FirstFrame
  <2>6. CASE h' = [x \in Workers |-> Idle] BY <2>1, <2>6, IdleWork, FirstFrame
  <2> QED BY <2>2, <2>3, <2>4, <2>5, <2>6
<1>3. ASSUME NEW w \in Workers, Step(w) PROVE CountedFirst'
  BY <1>1, <1>2, <1>3, FirstExpire
<1> QED BY <1>0, <1>3, FirstOutside DEF Next

LEMMA ChargeStep == ChargeInv /\ [Next]_vars => ChargeInv'
<1> SUFFICES ASSUME ChargeInv, [Next]_vars PROVE ChargeInv' OBVIOUS
<1>1. TypeOK BY DEF ChargeInv, OnceInv
<1>2. Effect BY <1>1, EffectStep DEF ChargeInv
<1>3. Charged' BY <1>1, <1>2, ChargedEffect DEF ChargeInv
<1>4. CountedFirst' BY FirstStep DEF ChargeInv
<1>5. OnceInv' BY OnceStep DEF ChargeInv
<1> QED BY <1>3, <1>4, <1>5 DEF ChargeInv

\* The order is charged once for each ad it pays for that was accepted, on both
\* of its accounts: up to the callbacks under way, and to what the lost commands
\* and the crashes took away, each at most one callback of every worker.
THEOREM ChargesHold == Spec => []ChargedExactly
<1>1. ChargeInv => ChargedExactly
  <2> SUFFICES ASSUME ChargeInv PROVE ChargedExactly OBVIOUS
  <2>1. /\ IsFiniteSet(Chargeable) /\ used \in Nat /\ taken \in Nat /\ faults \in Nat
        /\ ToUse \in SUBSET Workers /\ ToTake \in SUBSET Workers
    BY FaultAssumption
       DEF ChargeInv, OnceInv, TypeOK, RedisOK, GhostOK, Charged, ToUse, ToTake, At
  <2>2. PICK d \in Nat, u \in Nat, t \in Nat :
          d = Cardinality(Chargeable) /\ u = Cardinality(ToUse) /\ t = Cardinality(ToTake)
    BY <2>1, Counts, FS_CardinalityType
  <2>3. PICK g \in Nat : g = faults * Cardinality(Workers)
    <3>1. PICK m \in Nat : m = Cardinality(Workers) BY Counts
    <3>2. faults * m \in Nat BY <2>1, <3>1
    <3> QED BY <3>1, <3>2
  <2>4. used + u <= d /\ d <= used + u + g /\ taken + t <= d /\ d <= taken + t + g
    BY <2>2, <2>3 DEF ChargeInv, Charged, Balanced
  <2>5. d - g <= used + u /\ d - g <= taken + t BY <2>1, <2>4
  <2> QED BY <2>2, <2>3, <2>4, <2>5 DEF ChargedExactly
<1> QED BY <1>1, ChargeInit, ChargeStep, PTL DEF Spec
=============================================================================
