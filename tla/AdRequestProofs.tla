--------------------------- MODULE AdRequestProofs ---------------------------
(***************************************************************************)
(* Proofs about AdRequest, for any sets of ads, contents of Redis, size of *)
(* the pools, numbers of ads wanted and number of losses.                  *)
(*                                                                         *)
(* Each property is an invariant together with what the stages before it   *)
(* must keep.  OnlyEligible, the one that is hard to see in the code, goes *)
(* by Filtered: get_ad passes over a filter whose reply did not come, but  *)
(* then the connection is no longer "up", and stays so until get_adbody    *)
(* finds no bodies; so all that has to be kept is that what is left of the *)
(* ads has passed every filter while the connection is "up".               *)
(***************************************************************************)
EXTENDS AdRequest, FiniteSetTheorems, SequenceTheorems, TLAPS

----------------------------------------------------------------------------
(* The stages of a request *)

Searching == {"apps", "localapp", "types", "intersect"}
Narrowed == {"near", "region", "choose"}
Inner == {"filters", "bodies"} \cup Searching \cup Narrowed
Serving == {"store", "answer"}

SlaveStates == {"up", "broken", "down", "stuck", "refused"}
MasterStates == {"up", "down", "refused"}

\* An ad that is in all the maps has passed every filter so far.
MapsFiltered == \A a \in Ads : (\A m \in maps : a \in m) => a \in eligible

Filtered ==
  /\ pc \in Searching /\ slave = "up" => got = Replies /\ MapsFiltered
  /\ pc \in Narrowed /\ slave = "up" => choice \subseteq eligible
  /\ pc = "bodies" /\ slave = "up" => Range(aids) \subseteq eligible
  /\ pc = "store" => Range(aids) \subseteq eligible
  /\ pc \notin Serving => answer = <<>>
  /\ Range(answer) \subseteq eligible

\* Where the connection may be down, and what it means that it is not up.
Connected ==
  /\ pc = "filters" => slave = "up"
  /\ pc \in {"apps", "localapp"} => slave # "down"
  /\ pc \in Inner /\ slave # "up" => lost
  /\ pc = "aborted" => lost

\* How many tables a search has taken where, and that maps holds all of them.
PoolInv ==
  /\ tables <= 4
  /\ pc = "intersect" => tables <= 3
  /\ pc \in {"apps", "localapp", "types"} => tables <= 2
  /\ pc \in Searching \cup Narrowed => dirty \subseteq held
  /\ pc \in Begun \cup {"idle", "bodies"} \cup Serving => nodes = 0 /\ tables = 0 /\ dirty = {}

\* What the worker read of the last ad is that ad, if the slave had heard of it.
LastRead ==
  /\ prev = 0 \/ prev = last
  /\ pc \in (Inner \ {"filters", "apps"}) => got >= AppId
  /\ pc \in Inner /\ pc # "filters" /\ fresh /\ prev # 0 /\ got >= LastRequest => seen = prev

----------------------------------------------------------------------------
(* Facts about the operators of the model *)

\* init_map takes what it is given, as far as the nodes of the pool go.
LEMMA Loads ==
  ASSUME NEW s \in SUBSET Ads, NEW used \in 0 .. Nodes, NEW t \in Load(s, used)
  PROVE  /\ t \in SUBSET s /\ t \in SUBSET Ads
         /\ Cardinality(t) \in Nat
         /\ used + Cardinality(t) \in 0 .. Nodes
<1>1. IsFiniteSet(s) BY FS_Subset, AdsAssumption
<1>2. Cardinality(s) \in Nat BY <1>1, FS_CardinalityType
<1> QED BY <1>2, NodesAssumption DEF Load

\* What get_ad puts on the list of ads.
LEMMA Rows ==
  ASSUME NEW s \in SUBSET Ads, NEW n \in Nat, NEW q \in Injection(1 .. n, s)
  PROVE  q \in Seq(Ads) /\ Range(q) \subseteq s
<1>1. q \in [1 .. n -> s] BY DEF Injection
<1>2. q \in [1 .. n -> Ads] BY <1>1
<1> QED BY <1>1, <1>2 DEF Range

LEMMA RangeEmpty == Range(<<>>) = {}
BY DEF Range

LEMMA RangeTail ==
  ASSUME NEW q \in Seq(Ads), q # <<>>
  PROVE  /\ Tail(q) \in Seq(Ads) /\ Range(Tail(q)) \subseteq Range(q)
         /\ Head(q) \in Ads /\ Head(q) \in Range(q)
<1>1. /\ Tail(q) \in Seq(Ads) /\ Head(q) \in Ads
      /\ Len(Tail(q)) = Len(q) - 1
      /\ \A i \in 1 .. Len(Tail(q)) : Tail(q)[i] = q[i + 1]
  BY HeadTailProperties
<1>2. Len(q) \in Nat /\ Len(q) > 0 BY EmptySeq
<1>3. DOMAIN q = 1 .. Len(q) /\ DOMAIN Tail(q) = 1 .. Len(q) - 1 BY <1>1, LenProperties
<1>4. Head(q) = q[1] OBVIOUS
<1> QED BY <1>1, <1>2, <1>3, <1>4 DEF Range

LEMMA RangeAppend ==
  ASSUME NEW q \in Seq(Ads), NEW a \in Ads
  PROVE  Append(q, a) \in Seq(Ads) /\ Range(Append(q, a)) = Range(q) \cup {a}
<1>1. /\ Append(q, a) \in Seq(Ads) /\ Len(Append(q, a)) = Len(q) + 1
      /\ \A i \in 1 .. Len(q) : Append(q, a)[i] = q[i]
      /\ Append(q, a)[Len(q) + 1] = a
  BY AppendProperties
<1>2. Len(q) \in Nat /\ DOMAIN q = 1 .. Len(q) BY LenProperties
<1>3. DOMAIN Append(q, a) = 1 .. Len(q) + 1 BY <1>1, LenProperties
<1>4. ASSUME NEW x \in Range(Append(q, a)) PROVE x \in Range(q) \cup {a}
  BY <1>1, <1>2, <1>3 DEF Range
<1>5. ASSUME NEW x \in Range(q) \cup {a} PROVE x \in Range(Append(q, a))
  <2>1. CASE x = a BY <2>1, <1>1, <1>2, <1>3 DEF Range
  <2>2. CASE x \in Range(q)
    <3>1. PICK i \in 1 .. Len(q) : x = q[i] BY <2>2, <1>2 DEF Range
    <3> QED BY <3>1, <1>1, <1>2, <1>3 DEF Range
  <2> QED BY <1>5, <2>1, <2>2
<1> QED BY <1>1, <1>4, <1>5

\* A search that finds what it looks for, or not.
LEMMA NarrowType ==
  ASSUME TypeOK, NEW s \in SUBSET Ads, Narrow(s)
  PROVE  /\ pc' \in {"intersect", "answer"} /\ maps' \in SUBSET (SUBSET Ads)
         /\ nodes' \in 0 .. Nodes /\ choice' \in SUBSET Ads
<1>1. CASE s = {} BY <1>1, NodesAssumption DEF TypeOK, Narrow, NoAd, PoolReset, Goto
<1>2. CASE s # {}
  <2>1. PICK t \in Load(s, nodes) : maps' = maps \cup {t} /\ nodes' = nodes + Cardinality(t)
    BY <1>2 DEF Narrow
  <2>2. nodes \in 0 .. Nodes /\ maps \in SUBSET (SUBSET Ads) /\ choice \in SUBSET Ads BY DEF TypeOK
  <2>3. t \in SUBSET Ads /\ nodes + Cardinality(t) \in 0 .. Nodes BY <2>2, Loads
  <2>4. pc' = "intersect" /\ choice' = choice BY <1>2 DEF Narrow, Goto
  <2> QED BY <2>1, <2>2, <2>3, <2>4
<1> QED BY <1>1, <1>2

LEMMA ReplyType ==
  ASSUME TypeOK, Got \/ NotGot \/ Arrives \/ Missing
  PROVE  slave' \in SlaveStates /\ faults' \in 0 .. MaxFaults /\ lost' \in BOOLEAN
<1>1. slave \in SlaveStates /\ faults \in 0 .. MaxFaults BY DEF TypeOK, SlaveStates
<1>2. slave' \in SlaveStates /\ faults' \in 0 .. MaxFaults
  BY <1>1, FaultsAssumption DEF Got, NotGot, Arrives, Missing, Silent, AfterLoss, Lose, SlaveStates
<1>3. lost' = TRUE \/ lost' = lost BY DEF Got, NotGot, Arrives, Missing, Lose
<1>4. lost' \in BOOLEAN BY <1>3, Zenon DEF TypeOK
<1> QED BY <1>2, <1>4

----------------------------------------------------------------------------
(* The type invariant *)

LEMMA InitType == Init => TypeOK
<1>1. <<>> \in Seq(Ads) BY EmptySeq
<1> SUFFICES ASSUME Init PROVE TypeOK OBVIOUS
<1>2. /\ pc \in Places /\ want \in Wants \cup {0} /\ slave \in SlaveStates
      /\ master \in MasterStates /\ got \in 0 .. Replies /\ maps \in SUBSET (SUBSET Ads)
      /\ nodes \in 0 .. Nodes /\ choice \in SUBSET Ads /\ PoolTypeOK
      /\ eligible \in SUBSET Ads /\ faults \in 0 .. MaxFaults
  BY NodesAssumption, FaultsAssumption DEF Init, Places, Replies, SlaveStates, MasterStates, PoolTypeOK
<1>3. /\ aids \in Seq(Ads) /\ answer \in Seq(Ads) /\ last \in Ads \cup {0} /\ seen \in Ads \cup {0}
      /\ lastSlave \in Ads \cup {0} /\ prev \in Ads \cup {0}
  BY <1>1 DEF Init
<1>4. fresh \in BOOLEAN /\ debug \in BOOLEAN /\ lost \in BOOLEAN
  BY Zenon DEF Init
<1> QED BY <1>2, <1>3, <1>4 DEF TypeOK, SlaveStates, MasterStates

\* What a step does with the pool of tables.
LEMMA PoolStep ==
  ASSUME [Next]_vars
  PROVE  UNCHANGED pool \/ PoolReset \/ \E n \in 0 .. 2 : Take(n)
<1> USE DEF search, Goto
<1> DEFINE Goal == UNCHANGED pool \/ PoolReset \/ \E n \in 0 .. 2 : Take(n)
<1>1. ASSUME NEW s, Narrow(s) PROVE Goal
  <2>1. PoolReset \/ Take(1) BY <1>1 DEF Narrow, NoAd
  <2> QED BY <2>1
<1>2. CASE Filters
  <2>1. PICK n \in 0 .. Replies :
          NoAd \/ Take(IF n >= PrivateAds THEN 2 ELSE IF n >= Sinter THEN 1 ELSE 0)
    BY <1>2 DEF Filters
  <2>2. NoAd \/ Take(0) \/ Take(1) \/ Take(2) BY <2>1
  <2> QED BY <2>2 DEF NoAd
<1>3. CASE Apps BY <1>1, <1>3 DEF Apps
<1>4. CASE LocalApp BY <1>1, <1>4 DEF LocalApp
<1>5. CASE Types BY <1>1, <1>5 DEF Types, NoAd
<1>6. CASE Intersect
  <2>1. PoolReset \/ Take(1) BY <1>6 DEF Intersect, NoAd, Replace
  <2> QED BY <2>1
<1>7. CASE Choose BY <1>7 DEF Choose
<1>8. CASE Malformed \/ Request \/ GetApp \/ GetPrice \/ AppendToNull
  BY <1>8 DEF Malformed, Request, GetApp, GetPrice, AppendToNull
<1>9. CASE Debug \/ Near \/ Region BY <1>9 DEF Debug, Near, Region
<1>10. CASE Bodies \/ NoBody \/ Store \/ Stored \/ Answer
  BY <1>10 DEF Bodies, NoBody, Store, Stored, Answer
<1>11. CASE Replicate \/ Expire BY <1>11 DEF Replicate, Expire
<1>12. CASE UNCHANGED vars BY <1>12 DEF vars
<1> QED
  BY <1>2, <1>3, <1>4, <1>5, <1>6, <1>7, <1>8, <1>9, <1>10, <1>11, <1>12 DEF Next, Worker

LEMMA NextPoolType == PoolTypeOK /\ [Next]_vars => PoolTypeOK'
<1> SUFFICES ASSUME PoolTypeOK, [Next]_vars PROVE PoolTypeOK' OBVIOUS
<1>1. CASE UNCHANGED pool BY <1>1 DEF pool, PoolTypeOK
<1>2. CASE PoolReset BY <1>2 DEF PoolReset, PoolTypeOK
<1>3. ASSUME NEW n \in 0 .. 2, Take(n) PROVE PoolTypeOK' BY <1>3 DEF Take, PoolTypeOK
<1> QED BY <1>1, <1>2, <1>3, PoolStep

LEMMA NextType == TypeOK /\ [Next]_vars => TypeOK'
<1> SUFFICES ASSUME TypeOK, [Next]_vars PROVE TypeOK' OBVIOUS
<1> USE DEF Goto, search, marks, output, Replies, SlaveStates, MasterStates
<1>0. PoolTypeOK' BY NextPoolType DEF TypeOK
<1> USE <1>0
<1>1. CASE Request BY <1>1 DEF Request, TypeOK, Places, Begun
<1>2. CASE GetApp BY <1>2, ReplyType DEF GetApp, TypeOK, Places, Begun
<1>3. CASE GetPrice BY <1>3, ReplyType DEF GetPrice, TypeOK, Places, Begun
<1>4. CASE Filters
  <2>1. PICK n \in 0 .. Replies, d \in Contents, p \in Contents :
          /\ IF n = Replies THEN Arrives ELSE Missing
          /\ got' = n
          /\ seen' = IF n >= LastRequest THEN lastSlave ELSE 0
          /\ debug' \in IF n = Replies THEN BOOLEAN ELSE {FALSE}
          /\ eligible' = d \cap p
          /\ \/ NoAd
             \/ \E t \in Load(d, 0) : \E u \in Load(p, Cardinality(t)) :
                  /\ maps' = IF n >= PrivateAds THEN {t, u}
                             ELSE IF n >= Sinter THEN {t} ELSE {}
                  /\ nodes' = IF n >= PrivateAds THEN Cardinality(t) + Cardinality(u)
                              ELSE IF n >= Sinter THEN Cardinality(t) ELSE 0
                  /\ pc' = "apps" /\ UNCHANGED choice
    BY <1>4 DEF Filters
  <2>2. pc' \in Places /\ maps' \in SUBSET (SUBSET Ads) /\ nodes' \in 0 .. Nodes
        /\ choice' \in SUBSET Ads
    <3>1. CASE NoAd BY <2>1, <3>1, NodesAssumption DEF NoAd, PoolReset, TypeOK, Places
    <3>2. CASE ~NoAd
      <4>1. PICK t \in Load(d, 0) : \E u \in Load(p, Cardinality(t)) :
                  /\ maps' = IF n >= PrivateAds THEN {t, u}
                             ELSE IF n >= Sinter THEN {t} ELSE {}
                  /\ nodes' = IF n >= PrivateAds THEN Cardinality(t) + Cardinality(u)
                              ELSE IF n >= Sinter THEN Cardinality(t) ELSE 0
                  /\ pc' = "apps" /\ UNCHANGED choice
        BY <2>1, <3>2
      <4>2. t \in SUBSET Ads /\ Cardinality(t) \in 0 .. Nodes
        BY Loads, ContentsAssumption, NodesAssumption
      <4>3. PICK u \in Load(p, Cardinality(t)) :
                  /\ maps' = IF n >= PrivateAds THEN {t, u}
                             ELSE IF n >= Sinter THEN {t} ELSE {}
                  /\ nodes' = IF n >= PrivateAds THEN Cardinality(t) + Cardinality(u)
                              ELSE IF n >= Sinter THEN Cardinality(t) ELSE 0
                  /\ pc' = "apps" /\ UNCHANGED choice
        BY <4>1
      <4>4. u \in SUBSET Ads /\ Cardinality(t) + Cardinality(u) \in 0 .. Nodes
        BY <4>2, Loads, ContentsAssumption
      <4>5. choice' \in SUBSET Ads BY <4>3 DEF TypeOK
      <4>6. maps' \in SUBSET (SUBSET Ads) BY <4>2, <4>3, <4>4
      <4>7. nodes' \in 0 .. Nodes BY <4>2, <4>3, <4>4, NodesAssumption
      <4> QED BY <4>3, <4>5, <4>6, <4>7 DEF Places
    <3> QED BY <3>1, <3>2
  <2>3. slave' \in SlaveStates /\ faults' \in 0 .. MaxFaults /\ lost' \in BOOLEAN
    BY <2>1, ReplyType
  <2>4. got' \in 0 .. Replies /\ seen' \in Ads \cup {0} /\ debug' \in BOOLEAN
        /\ eligible' \in SUBSET Ads
    BY <2>1, ContentsAssumption DEF TypeOK
  <2> QED BY <1>4, <2>2, <2>3, <2>4 DEF Filters, TypeOK
<1>5. CASE Apps
  <2>1. pc' \in Places /\ maps' \in SUBSET (SUBSET Ads) /\ nodes' \in 0 .. Nodes
        /\ choice' \in SUBSET Ads /\ eligible' \in SUBSET Ads
    <3>1. CASE pc' = "localapp" /\ UNCHANGED <<maps, nodes, choice, eligible>>
      BY <3>1 DEF TypeOK, Places
    <3>2. ASSUME NEW s \in Contents, eligible' = eligible \cap s,
                 Narrow(IF got >= AppTypes THEN s ELSE {})
          PROVE  pc' \in Places /\ maps' \in SUBSET (SUBSET Ads) /\ nodes' \in 0 .. Nodes
                 /\ choice' \in SUBSET Ads /\ eligible' \in SUBSET Ads
      <4> DEFINE e == IF got >= AppTypes THEN s ELSE {}
      <4>1. e \in SUBSET Ads BY ContentsAssumption
      <4> HIDE DEF e
      <4>2. Narrow(e) BY <3>2 DEF e
      <4> QED BY <3>2, <4>1, <4>2, NarrowType DEF TypeOK, Places
    <3> QED BY <1>5, <3>1, <3>2 DEF Apps
  <2> QED BY <1>5, <2>1 DEF Apps, TypeOK
<1>6. CASE LocalApp
  <2>1. pc' \in Places /\ maps' \in SUBSET (SUBSET Ads) /\ nodes' \in 0 .. Nodes
        /\ choice' \in SUBSET Ads /\ eligible' \in SUBSET Ads
    <3>1. CASE pc' = "types" /\ UNCHANGED <<maps, nodes, choice, eligible>>
      BY <3>1 DEF TypeOK, Places
    <3>2. ASSUME NEW s \in Contents, eligible' = eligible \cap s, Narrow(s)
          PROVE  pc' \in Places /\ maps' \in SUBSET (SUBSET Ads) /\ nodes' \in 0 .. Nodes
                 /\ choice' \in SUBSET Ads /\ eligible' \in SUBSET Ads
      BY <3>2, NarrowType, ContentsAssumption DEF TypeOK, Places
    <3> QED BY <1>6, <3>1, <3>2 DEF LocalApp
  <2>2. slave' \in SlaveStates /\ faults' \in 0 .. MaxFaults /\ lost' \in BOOLEAN
    BY <1>6, ReplyType DEF LocalApp
  <2> QED BY <1>6, <2>1, <2>2 DEF LocalApp, TypeOK
<1>7. CASE Types
  <2>1. PICK s \in Contents : /\ eligible' = eligible \cap s
                              /\ \/ Arrives /\ Narrow(s)
                                 \/ Missing /\ NoAd
    BY <1>7 DEF Types
  <2>2. pc' \in Places /\ maps' \in SUBSET (SUBSET Ads) /\ nodes' \in 0 .. Nodes
        /\ choice' \in SUBSET Ads
    <3>1. CASE Narrow(s) BY <3>1, NarrowType, ContentsAssumption DEF Places
    <3>2. CASE NoAd BY <3>2, NodesAssumption DEF NoAd, PoolReset, TypeOK, Places
    <3> QED BY <2>1, <3>1, <3>2
  <2>3. slave' \in SlaveStates /\ faults' \in 0 .. MaxFaults /\ lost' \in BOOLEAN
    BY <2>1, ReplyType
  <2> QED BY <1>7, <2>1, <2>2, <2>3 DEF Types, TypeOK
<1>8. CASE AppendToNull BY <1>8 DEF AppendToNull, Abort, TypeOK, Places
<1>9. CASE Intersect
  <2>1. PICK s \in Contents :
          /\ eligible' = eligible \ s
          /\ \/ NoAd
             \/ /\ choice' = InAll \ (IF got >= LimitTags THEN s ELSE {})
                /\ maps' = {} /\ pc' = "near" /\ UNCHANGED nodes
    BY <1>9 DEF Intersect
  <2>2. InAll \in SUBSET Ads BY DEF InAll, TypeOK
  <2> QED BY <1>9, <2>1, <2>2, NodesAssumption DEF Intersect, NoAd, PoolReset, TypeOK, Places
<1>10. CASE Debug BY <1>10 DEF Debug, TypeOK, Places
<1>11. CASE Near
  <2>1. \/ pc' = "region" /\ UNCHANGED <<slave, faults, lost, nodes, choice, eligible>>
        \/ /\ Arrives
           /\ \E s \in Contents : \E t \in Load(s \cap choice, nodes) :
                /\ nodes' = nodes + Cardinality(t)
                /\ IF t = {} THEN pc' = "region" /\ UNCHANGED <<choice, eligible>>
                   ELSE choice' = t /\ eligible' = eligible \cap s /\ pc' = "choose"
        \/ Missing /\ pc' = "region" /\ UNCHANGED <<nodes, choice, eligible>>
    BY <1>11 DEF Near
  <2>2. slave' \in SlaveStates /\ faults' \in 0 .. MaxFaults /\ lost' \in BOOLEAN
    BY <2>1, ReplyType DEF TypeOK
  <2>3. pc' \in Places /\ nodes' \in 0 .. Nodes /\ choice' \in SUBSET Ads /\ eligible' \in SUBSET Ads
    <3>1. ASSUME NEW s \in Contents, NEW t \in Load(s \cap choice, nodes),
                 nodes' = nodes + Cardinality(t),
                 IF t = {} THEN pc' = "region" /\ UNCHANGED <<choice, eligible>>
                 ELSE choice' = t /\ eligible' = eligible \cap s /\ pc' = "choose"
          PROVE  pc' \in Places /\ nodes' \in 0 .. Nodes /\ choice' \in SUBSET Ads
                 /\ eligible' \in SUBSET Ads
      <4>1. s \cap choice \in SUBSET Ads /\ nodes \in 0 .. Nodes BY ContentsAssumption DEF TypeOK
      <4>2. t \in SUBSET Ads /\ nodes + Cardinality(t) \in 0 .. Nodes BY <4>1, Loads
      <4> QED BY <3>1, <4>2 DEF TypeOK, Places
    <3> QED BY <2>1, <3>1 DEF TypeOK, Places
  <2> QED BY <1>11, <2>2, <2>3 DEF Near, TypeOK
<1>12. CASE Region
  <2>1. PICK s \in Contents, known \in BOOLEAN :
          /\ eligible' = IF known \/ s # {} THEN eligible \cap s ELSE eligible
          /\ \/ /\ Arrives
                /\ \/ \E t \in Load(s, nodes) :
                         choice' = choice \cap t /\ nodes' = nodes + Cardinality(t)
                   \/ UNCHANGED <<choice, nodes>>
             \/ Missing /\ UNCHANGED <<choice, nodes>>
    BY <1>12 DEF Region
  <2>2. slave' \in SlaveStates /\ faults' \in 0 .. MaxFaults /\ lost' \in BOOLEAN
    BY <2>1, ReplyType
  <2>3. nodes' \in 0 .. Nodes /\ choice' \in SUBSET Ads /\ eligible' \in SUBSET Ads
    <3>1. ASSUME NEW t \in Load(s, nodes), choice' = choice \cap t,
                 nodes' = nodes + Cardinality(t)
          PROVE  nodes' \in 0 .. Nodes /\ choice' \in SUBSET Ads
      <4>1. s \in SUBSET Ads /\ nodes \in 0 .. Nodes BY ContentsAssumption DEF TypeOK
      <4> QED BY <3>1, <4>1, Loads DEF TypeOK
    <3> QED BY <2>1, <3>1 DEF TypeOK
  <2> QED BY <1>12, <2>2, <2>3 DEF Region, TypeOK, Places
<1>13. CASE Choose
  <2>1. aids' \in Seq(Ads) /\ pc' \in Places
    <3>1. CASE choice = {} BY <1>13, <3>1 DEF Choose, TypeOK, Places
    <3>2. CASE choice # {}
      <4>1. choice \in SUBSET Ads /\ choice \ {seen} \in SUBSET Ads /\ want \in Nat
        BY WantsAssumption DEF TypeOK
      <4>2. Cardinality(choice) \in Nat BY <4>1, AdsAssumption, FS_Subset, FS_CardinalityType
      <4>3. \/ aids' \in Injection(1 .. Cardinality(choice), choice)
            \/ aids' \in Injection(1 .. want, choice \ {seen})
        BY <1>13, <3>2 DEF Choose
      <4> QED BY <1>13, <3>2, <4>1, <4>2, <4>3, Rows DEF Choose, Places
    <3> QED BY <3>1, <3>2
  <2> QED BY <1>13, <2>1, NodesAssumption DEF Choose, PoolReset, TypeOK
<1>14. CASE Bodies
  <2>1. slave' \in SlaveStates /\ faults' \in 0 .. MaxFaults /\ lost' \in BOOLEAN
    BY <1>14, ReplyType DEF Bodies
  <2> QED BY <1>14, <2>1 DEF Bodies, TypeOK, Places
<1>15. CASE NoBody
  <2>1. aids' \in Seq(Ads) BY <1>15, RangeTail, EmptySeq DEF NoBody, TypeOK
  <2> QED BY <1>15, <2>1 DEF NoBody, TypeOK
<1>16. CASE Store
  <2>1. Head(aids) \in Ads /\ Tail(aids) \in Seq(Ads) BY <1>16, RangeTail DEF Store, TypeOK
  <2>2. Append(answer, Head(aids)) \in Seq(Ads) BY <2>1, RangeAppend DEF TypeOK
  <2>3. aids' \in Seq(Ads) /\ answer' \in Seq(Ads) BY <1>16, <2>1, <2>2 DEF Store
  <2>4. /\ last' \in Ads \cup {0} /\ prev' \in Ads \cup {0}
        /\ master' \in MasterStates
    BY <1>16, <2>1 DEF Store, NoteLast, NotNoted, TypeOK
  <2>8. faults' = faults \/ (faults < MaxFaults /\ faults' = faults + 1) BY <1>16 DEF Store, Lose
  <2>9. faults \in 0 .. MaxFaults BY DEF TypeOK
  <2>5. faults' \in 0 .. MaxFaults BY <2>8, <2>9, FaultsAssumption
  <2>6. lost' = TRUE \/ lost' = lost BY <1>16 DEF Store, Lose
  <2>7. lost' \in BOOLEAN BY <2>6, Zenon DEF TypeOK
  <2> QED BY <1>16, <2>3, <2>4, <2>5, <2>7 DEF Store, TypeOK
<1>17. CASE Stored BY <1>17 DEF Stored, TypeOK, Places
<1>18. CASE Answer
  <2>1. <<>> \in Seq(Ads) BY EmptySeq
  <2>2. /\ pc' \in Places /\ want' \in Wants \cup {0} /\ slave' \in SlaveStates
        /\ master' \in MasterStates /\ got' \in 0 .. Replies /\ maps' \in SUBSET (SUBSET Ads)
        /\ nodes' \in 0 .. Nodes /\ choice' \in SUBSET Ads
        /\ eligible' \in SUBSET Ads /\ faults' \in 0 .. MaxFaults
    BY <1>18 DEF Answer, TypeOK, Places
  <2>3. /\ aids' \in Seq(Ads) /\ answer' \in Seq(Ads) /\ last' \in Ads \cup {0}
        /\ seen' \in Ads \cup {0} /\ lastSlave' \in Ads \cup {0} /\ prev' \in Ads \cup {0}
    BY <1>18, <2>1 DEF Answer, TypeOK
  <2>4. fresh' \in BOOLEAN /\ debug' \in BOOLEAN /\ lost' \in BOOLEAN
    BY <1>18, Zenon DEF Answer
  <2> QED BY <2>2, <2>3, <2>4 DEF TypeOK
<1>19. CASE Replicate BY <1>19 DEF Replicate, TypeOK
<1>20. CASE Expire BY <1>20 DEF Expire, TypeOK
<1>21. CASE UNCHANGED vars BY <1>21 DEF vars, TypeOK
<1>22. CASE Malformed BY <1>22 DEF Malformed, TypeOK, Places
<1> QED
  BY <1>1, <1>2, <1>3, <1>4, <1>5, <1>6, <1>7, <1>8, <1>9, <1>10, <1>11, <1>12, <1>13, <1>14,
     <1>15, <1>16, <1>17, <1>18, <1>19, <1>20, <1>21, <1>22 DEF Next, Worker

\* The type invariant; among it, that a search never takes more nodes than the
\* pool has.
THEOREM TypeCorrect == Spec => []TypeOK
<1> QED BY InitType, NextType, PTL DEF Spec

----------------------------------------------------------------------------
(* What is served has passed the filters; a connection is lost by a loss *)

LEMMA NarrowFiltered ==
  ASSUME TypeOK, NEW s \in SUBSET Ads, Narrow(s), MapsFiltered, eligible' = eligible \cap s
  PROVE  pc' = "answer" \/ (pc' = "intersect" /\ MapsFiltered')
<1>1. CASE s = {} BY <1>1 DEF Narrow, NoAd, Goto
<1>2. CASE s # {}
  <2>1. PICK t \in Load(s, nodes) : maps' = maps \cup {t} /\ pc' = "intersect"
    BY <1>2 DEF Narrow, Goto
  <2>2. t \subseteq s BY <2>1 DEF Load
  <2>3. ASSUME NEW a \in Ads, \A m \in maps' : a \in m PROVE a \in eligible'
    <3>1. a \in t /\ \A m \in maps : a \in m BY <2>1, <2>3
    <3>2. a \in eligible BY <3>1 DEF MapsFiltered
    <3> QED BY <2>2, <3>1, <3>2
  <2> QED BY <2>1, <2>3 DEF MapsFiltered
<1> QED BY <1>1, <1>2

LEMMA NarrowPlace ==
  ASSUME NEW s, Narrow(s)
  PROVE  pc' = "answer" \/ (pc' = "intersect" /\ s # {})
BY DEF Narrow, NoAd, Goto

LEMMA InitConnected == Init => Connected
BY DEF Init, Connected, Inner, Searching, Narrowed

LEMMA NextConnected == Connected /\ [Next]_vars => Connected'
<1> SUFFICES ASSUME Connected, [Next]_vars PROVE Connected' OBVIOUS
<1> USE DEF Goto, search, marks, output, Inner, Searching, Narrowed
<1>1. CASE Request BY <1>1 DEF Request, Connected
<1>2. CASE GetApp BY <1>2 DEF GetApp, Connected
<1>3. CASE GetPrice BY <1>3 DEF GetPrice, Connected, Got, NotGot
<1>4. CASE Filters
  <2>1. pc = "filters" /\ pc' \in {"apps", "answer"} /\ (Arrives \/ Missing)
    BY <1>4 DEF Filters, NoAd
  <2> QED BY <2>1 DEF Connected, Arrives, Missing, Lose, AfterLoss
<1>5. CASE Apps
  <2>1. pc' \in {"localapp", "intersect", "answer"}
    BY <1>5, NarrowPlace DEF Apps
  <2> QED BY <1>5, <2>1 DEF Apps, Connected
<1>6. CASE LocalApp
  <2>1. pc = "localapp" /\ pc' \in {"types", "intersect", "answer"} /\ (Got \/ NotGot)
    BY <1>6, NarrowPlace DEF LocalApp
  <2> QED BY <2>1 DEF Connected, Got, NotGot, Lose
<1>7. CASE Types
  <2>1. pc = "types" /\ pc' \in {"intersect", "answer"} /\ (Arrives \/ Missing)
    BY <1>7, NarrowPlace DEF Types, NoAd
  <2> QED BY <2>1 DEF Connected, Arrives, Missing, Lose
<1>8. CASE AppendToNull BY <1>8 DEF AppendToNull, Abort, Connected
<1>9. CASE Intersect
  <2>1. pc' \in {"near", "answer"} BY <1>9 DEF Intersect, NoAd
  <2> QED BY <1>9, <2>1 DEF Intersect, Connected
<1>10. CASE Debug BY <1>10 DEF Debug, Connected
<1>11. CASE Near
  <2>1. /\ pc = "near" /\ pc' \in {"region", "choose"}
        /\ Arrives \/ Missing \/ UNCHANGED <<slave, lost>>
    BY <1>11 DEF Near
  <2> QED BY <2>1 DEF Connected, Arrives, Missing, Lose
<1>12. CASE Region
  <2>1. pc = "region" /\ pc' = "choose" /\ (Arrives \/ Missing) BY <1>12 DEF Region
  <2> QED BY <2>1 DEF Connected, Arrives, Missing, Lose
<1>13. CASE Choose
  <2>1. pc' \in {"bodies", "answer"} BY <1>13 DEF Choose
  <2> QED BY <1>13, <2>1 DEF Choose, Connected
<1>14. CASE Bodies BY <1>14 DEF Bodies, Connected, Arrives, Missing, Lose
<1>15. CASE NoBody BY <1>15 DEF NoBody, Connected
<1>16. CASE Store BY <1>16 DEF Store, Connected
<1>17. CASE Stored BY <1>17 DEF Stored, Connected
<1>18. CASE Answer BY <1>18 DEF Answer, Connected
<1>19. CASE Replicate BY <1>19 DEF Replicate, Connected
<1>20. CASE Expire BY <1>20 DEF Expire, Connected
<1>21. CASE UNCHANGED vars BY <1>21 DEF vars, Connected
<1>22. CASE Malformed BY <1>22 DEF Malformed, Connected
<1> QED
  BY <1>1, <1>2, <1>3, <1>4, <1>5, <1>6, <1>7, <1>8, <1>9, <1>10, <1>11, <1>12, <1>13, <1>14,
     <1>15, <1>16, <1>17, <1>18, <1>19, <1>20, <1>21, <1>22 DEF Next, Worker

\* The process ends for want of a reply only if one was lost in this request.
THEOREM AbortsNeedLoss == Spec => []AbortNeedsLoss
<1>1. Connected => AbortNeedsLoss BY DEF Connected, AbortNeedsLoss
<1> QED BY <1>1, InitConnected, NextConnected, PTL DEF Spec

LEMMA InitFiltered == Init => Filtered
BY RangeEmpty DEF Init, Filtered, Searching, Narrowed, Serving

LEMMA NextFiltered == TypeOK /\ Connected /\ Filtered /\ [Next]_vars => Filtered'
<1> SUFFICES ASSUME TypeOK, Connected, Filtered, [Next]_vars PROVE Filtered' OBVIOUS
<1> USE DEF Goto, search, marks, output, Searching, Narrowed, Serving
<1> DEFINE Quiet == pc \notin Serving /\ answer = <<>> /\ UNCHANGED answer
<1>0. ASSUME Quiet, pc' # "store" PROVE (pc' \notin Serving => answer' = <<>>) /\ Range(answer') \subseteq eligible'
  BY <1>0, RangeEmpty
<1>1. CASE Request BY <1>1 DEF Request, Filtered
<1>2. CASE GetApp BY <1>2 DEF GetApp, Filtered
<1>3. CASE GetPrice BY <1>3 DEF GetPrice, Filtered
<1>4. CASE Filters
  <2>1. Quiet /\ pc' \in {"apps", "answer"} BY <1>4 DEF Filters, NoAd, Filtered
  <2>2. ASSUME pc' = "apps", slave' = "up" PROVE got' = Replies /\ MapsFiltered'
    <3>1. PICK n \in 0 .. Replies, d \in Contents, p \in Contents :
            /\ IF n = Replies THEN Arrives ELSE Missing
            /\ got' = n /\ eligible' = d \cap p
            /\ \E t \in Load(d, 0) : \E u \in Load(p, Cardinality(t)) :
                 maps' = IF n >= PrivateAds THEN {t, u}
                         ELSE IF n >= Sinter THEN {t} ELSE {}
      BY <1>4, <2>2 DEF Filters, NoAd
    <3>2. n = Replies BY <2>2, <3>1 DEF Missing, Silent, AfterLoss
    <3>3. PICK t \in Load(d, 0) : \E u \in Load(p, Cardinality(t)) : maps' = {t, u}
      BY <3>1, <3>2 DEF Replies, PrivateAds
    <3>4. PICK u \in Load(p, Cardinality(t)) : maps' = {t, u} BY <3>3
    <3>5. t \subseteq d /\ u \subseteq p BY <3>3, <3>4 DEF Load
    <3> QED BY <3>1, <3>2, <3>4, <3>5 DEF MapsFiltered
  <2> QED BY <1>0, <2>1, <2>2 DEF Filtered
<1>5. CASE Apps
  <2>1. Quiet /\ UNCHANGED <<slave, got>> /\ pc' \in {"localapp", "intersect", "answer"}
    BY <1>5, NarrowPlace DEF Apps, Filtered
  <2>2. ASSUME pc' # "answer", slave' = "up" PROVE got' = Replies /\ MapsFiltered'
    <3>1. got = Replies /\ MapsFiltered /\ slave = "up" BY <1>5, <2>1, <2>2 DEF Apps, Filtered
    <3>2. CASE UNCHANGED <<maps, eligible>> BY <2>1, <3>1, <3>2 DEF MapsFiltered
    <3>3. ASSUME NEW s \in Contents, eligible' = eligible \cap s, Narrow(s) PROVE MapsFiltered'
      BY <2>2, <3>1, <3>3, NarrowFiltered, ContentsAssumption
    <3> QED BY <1>5, <2>1, <3>1, <3>2, <3>3 DEF Apps, Replies, AppTypes
  <2> QED BY <1>0, <2>1, <2>2 DEF Filtered
<1>6. CASE LocalApp
  <2>1. Quiet /\ UNCHANGED got /\ pc' \in {"types", "intersect", "answer"}
    BY <1>6, NarrowPlace DEF LocalApp, Filtered
  <2>2. ASSUME pc' # "answer", slave' = "up" PROVE got' = Replies /\ MapsFiltered'
    <3>1. slave = "up" /\ got = Replies /\ MapsFiltered
      BY <1>6, <2>2 DEF LocalApp, Got, NotGot, Connected, Filtered, TypeOK
    <3>2. CASE UNCHANGED <<maps, eligible>> BY <2>1, <3>1, <3>2 DEF MapsFiltered
    <3>3. ASSUME NEW s \in Contents, eligible' = eligible \cap s, Narrow(s) PROVE MapsFiltered'
      BY <2>2, <3>1, <3>3, NarrowFiltered, ContentsAssumption
    <3> QED BY <1>6, <2>1, <3>1, <3>2, <3>3 DEF LocalApp
  <2> QED BY <1>0, <2>1, <2>2 DEF Filtered
<1>7. CASE Types
  <2>1. Quiet /\ UNCHANGED got /\ pc' \in {"intersect", "answer"}
    BY <1>7, NarrowPlace DEF Types, NoAd, Filtered
  <2>2. ASSUME pc' # "answer", slave' = "up" PROVE got' = Replies /\ MapsFiltered'
    <3>1. PICK s \in Contents : eligible' = eligible \cap s /\ Arrives /\ Narrow(s)
      BY <1>7, <2>2 DEF Types, NoAd
    <3>2. got = Replies /\ MapsFiltered BY <1>7, <3>1 DEF Types, Arrives, Filtered
    <3> QED BY <2>1, <2>2, <3>1, <3>2, NarrowFiltered, ContentsAssumption
  <2> QED BY <1>0, <2>1, <2>2 DEF Filtered
<1>8. CASE AppendToNull BY <1>8 DEF AppendToNull, Abort, Filtered
<1>9. CASE Intersect
  <2>1. Quiet /\ UNCHANGED slave /\ pc' \in {"near", "answer"} BY <1>9 DEF Intersect, NoAd, Filtered
  <2>2. ASSUME pc' = "near", slave' = "up" PROVE choice' \subseteq eligible'
    <3>1. got = Replies /\ MapsFiltered BY <1>9, <2>1, <2>2 DEF Intersect, Filtered
    <3>2. InAll \subseteq eligible BY <3>1 DEF InAll, MapsFiltered, TypeOK
    <3>3. PICK s \in Contents : eligible' = eligible \ s /\ choice' = InAll \ s
      BY <1>9, <2>2, <3>1 DEF Intersect, NoAd, Replies, LimitTags
    <3> QED BY <3>2, <3>3
  <2> QED BY <1>0, <2>1, <2>2 DEF Filtered
<1>10. CASE Debug
  <2>1. pc = "near" /\ pc' = "choose" /\ UNCHANGED <<slave, choice, eligible, answer>> BY <1>10 DEF Debug
  <2> QED BY <2>1 DEF Filtered
<1>11. CASE Near
  <2>1. Quiet /\ pc' \in {"region", "choose"} BY <1>11 DEF Near, Filtered
  <2>2. ASSUME slave' = "up" PROVE choice' \subseteq eligible'
    <3>1. slave = "up" BY <1>11, <2>2 DEF Near, Arrives, Missing, AfterLoss
    <3>2. choice \subseteq eligible BY <1>11, <3>1 DEF Near, Filtered
    <3>3. ASSUME NEW s \in Contents, NEW t \in Load(s \cap choice, nodes),
                 IF t = {} THEN UNCHANGED <<choice, eligible>>
                 ELSE choice' = t /\ eligible' = eligible \cap s
          PROVE  choice' \subseteq eligible'
      <4>1. t \subseteq s \cap choice BY DEF Load
      <4> QED BY <3>2, <3>3, <4>1
    <3>4. \/ UNCHANGED <<choice, eligible>>
          \/ \E s \in Contents : \E t \in Load(s \cap choice, nodes) :
               IF t = {} THEN UNCHANGED <<choice, eligible>>
               ELSE choice' = t /\ eligible' = eligible \cap s
      BY <1>11 DEF Near
    <3> QED BY <3>2, <3>3, <3>4
  <2> QED BY <1>0, <2>1, <2>2 DEF Filtered
<1>12. CASE Region
  <2>1. Quiet /\ pc' = "choose" BY <1>12 DEF Region, Filtered
  <2>2. ASSUME slave' = "up" PROVE choice' \subseteq eligible'
    <3>1. PICK s \in Contents, known \in BOOLEAN :
            /\ eligible' = IF known \/ s # {} THEN eligible \cap s ELSE eligible
            /\ Arrives
            /\ IF known \/ s # {}
               THEN \E t \in Load(s, nodes) :
                      choice' = choice \cap t /\ nodes' = nodes + Cardinality(t)
               ELSE UNCHANGED <<choice, nodes>>
      BY <1>12, <2>2 DEF Region, Missing, Silent, AfterLoss
    <3>2. choice \subseteq eligible BY <1>12, <3>1 DEF Region, Arrives, Filtered
    <3>3. CASE known \/ s # {}
      <4>1. PICK t \in Load(s, nodes) : choice' = choice \cap t BY <3>1, <3>3
      <4>2. t \subseteq s BY <4>1 DEF Load
      <4> QED BY <3>1, <3>2, <3>3, <4>1, <4>2
    <3>4. CASE ~(known \/ s # {}) BY <3>1, <3>2, <3>4
    <3> QED BY <3>3, <3>4
  <2> QED BY <1>0, <2>1, <2>2 DEF Filtered
<1>13. CASE Choose
  <2>1. Quiet /\ pc' \in {"bodies", "answer"} /\ UNCHANGED <<slave, eligible>>
    BY <1>13 DEF Choose, Filtered
  <2>2. ASSUME pc' = "bodies", slave' = "up" PROVE Range(aids') \subseteq eligible'
    <3>1. choice \subseteq eligible BY <1>13, <2>1, <2>2 DEF Choose, Filtered
    <3>2. Range(aids') \subseteq choice
      <4>1. choice \in SUBSET Ads /\ choice \ {seen} \in SUBSET Ads /\ want \in Nat
        BY WantsAssumption DEF TypeOK
      <4>2. Cardinality(choice) \in Nat BY <4>1, AdsAssumption, FS_Subset, FS_CardinalityType
      <4>3. \/ aids' \in Injection(1 .. Cardinality(choice), choice)
            \/ aids' \in Injection(1 .. want, choice \ {seen})
        BY <1>13, <2>2 DEF Choose
      <4> QED BY <4>1, <4>2, <4>3, Rows
    <3> QED BY <2>1, <3>1, <3>2
  <2> QED BY <1>0, <2>1, <2>2 DEF Filtered
<1>14. CASE Bodies
  <2>1. Quiet /\ pc' \in {"answer", "aborted", "store"} /\ UNCHANGED <<aids, eligible>>
    BY <1>14 DEF Bodies, Filtered
  <2>2. ASSUME pc' = "store" PROVE Range(aids') \subseteq eligible'
    <3>1. slave = "up" BY <1>14, <2>2 DEF Bodies, Arrives
    <3> QED BY <1>14, <2>1, <3>1 DEF Bodies, Filtered
  <2> QED BY <2>1, <2>2, RangeEmpty DEF Filtered
<1>15. CASE NoBody
  <2>1. Range(aids') \subseteq Range(aids)
    BY <1>15, RangeTail, RangeEmpty DEF NoBody, TypeOK
  <2> QED BY <1>15, <2>1 DEF NoBody, Filtered
<1>16. CASE Store
  <2>1. pc = "store" /\ pc' = "store" /\ aids # <<>> /\ aids' = Tail(aids) /\ UNCHANGED eligible
        /\ answer' = Append(answer, Head(aids))
    BY <1>16 DEF Store
  <2>2. Range(aids') \subseteq Range(aids) /\ Head(aids) \in Range(aids) /\ Head(aids) \in Ads
    BY <2>1, RangeTail DEF TypeOK
  <2>3. Range(answer') = Range(answer) \cup {Head(aids)} BY <2>1, <2>2, RangeAppend DEF TypeOK
  <2> QED BY <2>1, <2>2, <2>3 DEF Filtered
<1>17. CASE Stored BY <1>17 DEF Stored, Filtered
<1>18. CASE Answer BY <1>18, RangeEmpty DEF Answer, Filtered
<1>19. CASE Replicate BY <1>19 DEF Replicate, Filtered, MapsFiltered
<1>20. CASE Expire BY <1>20 DEF Expire, Filtered, MapsFiltered
<1>21. CASE UNCHANGED vars BY <1>21 DEF vars, Filtered, MapsFiltered
<1>22. CASE Malformed BY <1>22 DEF Malformed, Filtered
<1> QED
  BY <1>1, <1>2, <1>3, <1>4, <1>5, <1>6, <1>7, <1>8, <1>9, <1>10, <1>11, <1>12, <1>13, <1>14,
     <1>15, <1>16, <1>17, <1>18, <1>19, <1>20, <1>21, <1>22 DEF Next, Worker

\* An ad in an answer is one that no filter of Redis excludes, whatever is lost.
THEOREM ServesOnlyEligible == Spec => []OnlyEligible
<1>1. Filtered => OnlyEligible BY DEF Filtered, OnlyEligible, Range
<1> QED
  BY <1>1, InitType, NextType, InitConnected, NextConnected, InitFiltered, NextFiltered, PTL DEF Spec

----------------------------------------------------------------------------
(* The pools of nodes and of tables *)

LEMMA InitPool == Init => PoolInv
BY DEF Init, PoolInv, Searching, Narrowed

LEMMA Emptied ==
  ASSUME PoolReset, dirty \subseteq held
  PROVE  nodes' = 0 /\ tables' = 0 /\ dirty' = {}
BY DEF PoolReset

LEMMA Taken ==
  ASSUME NEW n \in Nat, Take(n), PoolTypeOK
  PROVE  tables' = tables + n /\ (dirty \subseteq held => dirty' \subseteq held')
BY DEF Take

\* A search that may take one table more.
LEMMA NarrowPool ==
  ASSUME NEW s, Narrow(s), PoolTypeOK, tables <= 2, dirty \subseteq held
  PROVE  PoolInv'
<1>1. CASE s = {}
  <2>1. PoolReset /\ pc' = "answer" BY <1>1 DEF Narrow, NoAd, Goto
  <2> QED BY <2>1, Emptied DEF PoolInv, Searching, Narrowed
<1>2. CASE s # {}
  <2>1. Take(1) /\ pc' = "intersect" BY <1>2 DEF Narrow, Goto
  <2>2. tables' = tables + 1 /\ dirty' \subseteq held' BY <2>1, Taken
  <2> QED BY <2>1, <2>2 DEF PoolInv, PoolTypeOK, Begun, Serving
<1> QED BY <1>1, <1>2

LEMMA NextPool == PoolTypeOK /\ PoolInv /\ [Next]_vars => PoolInv'
<1> SUFFICES ASSUME PoolTypeOK, PoolInv, [Next]_vars PROVE PoolInv' OBVIOUS
<1> USE DEF Goto, search, pool, marks, output, Searching, Narrowed, Serving, Begun
<1>1. CASE Request BY <1>1 DEF Request, PoolInv
<1>2. CASE GetApp BY <1>2 DEF GetApp, PoolInv
<1>3. CASE GetPrice BY <1>3 DEF GetPrice, PoolInv
<1>4. CASE Filters
  <2>1. PICK n \in 0 .. Replies :
          \/ NoAd
          \/ pc' = "apps" /\ Take(IF n >= PrivateAds THEN 2 ELSE IF n >= Sinter THEN 1 ELSE 0)
    BY <1>4 DEF Filters
  <2>2. tables = 0 /\ dirty = {} BY <1>4 DEF Filters, PoolInv
  <2>3. CASE NoAd
    <3>1. pc' = "answer" /\ nodes' = 0 /\ tables' = 0 /\ dirty' = {} BY <2>2, <2>3, Emptied DEF NoAd
    <3> QED BY <3>1 DEF PoolInv
  <2>4. ASSUME NEW k \in 0 .. 2, Take(k), pc' = "apps" PROVE PoolInv'
    <3>1. tables' = k /\ dirty' \subseteq held' BY <2>2, <2>4, Taken
    <3> QED BY <2>4, <3>1 DEF PoolInv
  <2>5. NoAd \/ (pc' = "apps" /\ (Take(0) \/ Take(1) \/ Take(2))) BY <2>1
  <2> QED BY <2>3, <2>4, <2>5
<1>5. CASE Apps
  <2>1. tables <= 2 /\ dirty \subseteq held BY <1>5 DEF Apps, PoolInv
  <2>2. \/ pc' = "localapp" /\ UNCHANGED <<nodes, pool>>
        \/ \E s : Narrow(s)
    BY <1>5 DEF Apps
  <2> QED BY <2>1, <2>2, NarrowPool DEF PoolInv
<1>6. CASE LocalApp
  <2>1. tables <= 2 /\ dirty \subseteq held BY <1>6 DEF LocalApp, PoolInv
  <2>2. \/ pc' = "types" /\ UNCHANGED <<nodes, pool>>
        \/ \E s : Narrow(s)
    BY <1>6 DEF LocalApp
  <2> QED BY <2>1, <2>2, NarrowPool DEF PoolInv
<1>7. CASE Types
  <2>1. tables <= 2 /\ dirty \subseteq held BY <1>7 DEF Types, PoolInv
  <2>2. NoAd \/ \E s : Narrow(s) BY <1>7 DEF Types
  <2>3. CASE NoAd BY <2>1, <2>3, Emptied DEF NoAd, PoolInv
  <2> QED BY <2>1, <2>2, <2>3, NarrowPool
<1>8. CASE AppendToNull BY <1>8 DEF AppendToNull, Abort, PoolInv
<1>9. CASE Intersect
  <2>1. tables <= 3 /\ dirty \subseteq held BY <1>9 DEF Intersect, PoolInv
  <2>2. NoAd \/ (pc' = "near" /\ Take(1)) BY <1>9 DEF Intersect, Replace
  <2>3. CASE NoAd BY <2>1, <2>3, Emptied DEF NoAd, PoolInv
  <2>4. CASE pc' = "near" /\ Take(1)
    <3>1. tables' = tables + 1 /\ dirty' \subseteq held' BY <2>1, <2>4, Taken
    <3> QED BY <2>1, <2>4, <3>1 DEF PoolInv, PoolTypeOK
  <2> QED BY <2>2, <2>3, <2>4
<1>10. CASE Debug BY <1>10 DEF Debug, PoolInv
<1>11. CASE Near
  <2>1. pc = "near" /\ pc' \in {"region", "choose"} /\ UNCHANGED pool BY <1>11 DEF Near
  <2> QED BY <2>1 DEF PoolInv
<1>12. CASE Region
  <2>1. pc = "region" /\ pc' = "choose" /\ UNCHANGED pool BY <1>12 DEF Region
  <2> QED BY <2>1 DEF PoolInv
<1>13. CASE Choose
  <2>1. dirty \subseteq held BY <1>13 DEF Choose, PoolInv
  <2>2. pc' \in {"answer", "bodies"} /\ PoolReset BY <1>13 DEF Choose
  <2> QED BY <2>1, <2>2, Emptied DEF PoolInv
<1>14. CASE Bodies BY <1>14 DEF Bodies, PoolInv
<1>15. CASE NoBody BY <1>15 DEF NoBody, PoolInv
<1>16. CASE Store BY <1>16 DEF Store, PoolInv
<1>17. CASE Stored BY <1>17 DEF Stored, PoolInv
<1>18. CASE Answer BY <1>18 DEF Answer, PoolInv
<1>19. CASE Replicate BY <1>19 DEF Replicate, PoolInv
<1>20. CASE Expire BY <1>20 DEF Expire, PoolInv
<1>21. CASE UNCHANGED vars BY <1>21 DEF vars, PoolInv
<1>22. CASE Malformed BY <1>22 DEF Malformed, PoolInv
<1> QED
  BY <1>1, <1>2, <1>3, <1>4, <1>5, <1>6, <1>7, <1>8, <1>9, <1>10, <1>11, <1>12, <1>13, <1>14,
     <1>15, <1>16, <1>17, <1>18, <1>19, <1>20, <1>21, <1>22 DEF Next, Worker

\* Every search begins with both pools whole and all tables cleared, by whichever
\* break the one before left get_ad, and none asks for a table too many.
THEOREM PoolIsWhole == Spec => []PoolWhole
<1>1. TypeOK => PoolTypeOK BY DEF TypeOK
<1>2. PoolTypeOK /\ PoolInv => PoolWhole
  BY TablesAssumption DEF PoolTypeOK, PoolInv, PoolWhole
<1> QED BY <1>1, <1>2, InitType, NextType, InitPool, NextPool, PTL DEF Spec

----------------------------------------------------------------------------
(* The ad shown last *)

\* The list of ads leaves out the ad shown last, if more than enough are left.
LastLeftOut ==
  pc = "bodies" /\ Cardinality(choice) > want => Range(aids) \subseteq choice \ {seen}

LEMMA InitLast == Init => LastRead /\ LastLeftOut
BY DEF Init, LastRead, LastLeftOut, Inner, Searching, Narrowed

LEMMA NextLastLeftOut == TypeOK /\ LastLeftOut /\ [Next]_vars => LastLeftOut'
<1> SUFFICES ASSUME TypeOK, LastLeftOut, [Next]_vars, pc' = "bodies", Cardinality(choice)' > want'
             PROVE  Range(aids') \subseteq choice' \ {seen'}
  BY DEF LastLeftOut
<1>1. CASE Choose
  <2>1. choice' = choice /\ want' = want /\ seen' = seen BY <1>1 DEF Choose
  <2>2. choice \in SUBSET Ads /\ choice \ {seen} \in SUBSET Ads /\ want \in Nat
    BY WantsAssumption DEF TypeOK
  <2>3. Cardinality(choice) \in Nat BY <2>2, AdsAssumption, FS_Subset, FS_CardinalityType
  <2>4. ~(want >= Cardinality(choice)) BY <2>1, <2>2, <2>3
  <2>5. aids' \in Injection(1 .. want, choice \ {seen}) BY <1>1, <2>4 DEF Choose, Goto
  <2> QED BY <2>1, <2>2, <2>5, Rows
<1>2. CASE ~Choose
  <2>1. pc = "bodies" /\ UNCHANGED <<choice, want, aids, seen>>
    BY <1>2 DEF Next, Worker, Malformed, Request, GetApp, GetPrice, Filters, Apps, LocalApp, Types, AppendToNull,
       Intersect, Debug, Near, Region, Bodies, NoBody, Store, Stored, Answer, Replicate, Expire, vars,
       search, output, Goto, NoAd, Narrow, Abort
  <2> QED BY <2>1 DEF LastLeftOut
<1> QED BY <1>1, <1>2

LEMMA NextLastRead == TypeOK /\ LastRead /\ [Next]_vars => LastRead'
<1> SUFFICES ASSUME TypeOK, LastRead, [Next]_vars PROVE LastRead' OBVIOUS
<1> USE DEF Goto, search, marks, output, Inner, Searching, Narrowed
<1> DEFINE Same == UNCHANGED <<got, seen, marks>>
<1>0. ASSUME Same, pc \in Inner, pc # "filters",
             pc' \in Inner \ {"filters", "apps"} => got >= AppId, pc' # "filters"
      PROVE  LastRead'
  BY <1>0 DEF LastRead
<1>1. CASE Request BY <1>1 DEF Request, LastRead
<1>2. CASE GetApp BY <1>2 DEF GetApp, LastRead
<1>3. CASE GetPrice BY <1>3 DEF GetPrice, LastRead
<1>4. CASE Filters
  <2>1. pc' \in {"apps", "answer"} BY <1>4 DEF Filters, NoAd
  <2>2. /\ seen' = IF got' >= LastRequest THEN lastSlave ELSE 0
        /\ fresh' = (lastSlave = last) /\ UNCHANGED <<last, prev>>
    BY <1>4 DEF Filters
  <2> QED BY <2>1, <2>2 DEF LastRead
<1>5. CASE Apps
  <2>1. Same /\ pc = "apps" BY <1>5 DEF Apps
  <2>2. got \in 0 .. Replies BY DEF TypeOK
  <2>3. pc' = "answer" \/ (pc' = "localapp" /\ got >= AppId) \/ (pc' = "intersect" /\ got >= AppTypes)
    BY <1>5, NarrowPlace DEF Apps
  <2> QED BY <1>0, <2>1, <2>2, <2>3 DEF AppId, AppTypes, Replies
<1>6. CASE LocalApp
  <2>1. Same /\ pc = "localapp" /\ pc' \in {"types", "intersect", "answer"}
    BY <1>6, NarrowPlace DEF LocalApp
  <2> QED BY <1>0, <2>1 DEF LastRead
<1>7. CASE Types
  <2>1. Same /\ pc = "types" /\ pc' \in {"intersect", "answer"}
    BY <1>7, NarrowPlace DEF Types, NoAd
  <2> QED BY <1>0, <2>1 DEF LastRead
<1>8. CASE AppendToNull BY <1>8 DEF AppendToNull, Abort, LastRead
<1>9. CASE Intersect
  <2>1. Same /\ pc = "intersect" /\ pc' \in {"near", "answer"} BY <1>9 DEF Intersect, NoAd
  <2> QED BY <1>0, <2>1 DEF LastRead
<1>10. CASE Debug
  <2>1. Same /\ pc = "near" /\ pc' = "choose" BY <1>10 DEF Debug
  <2> QED BY <1>0, <2>1 DEF LastRead
<1>11. CASE Near
  <2>1. Same /\ pc = "near" /\ pc' \in {"region", "choose"} BY <1>11 DEF Near
  <2> QED BY <1>0, <2>1 DEF LastRead
<1>12. CASE Region
  <2>1. Same /\ pc = "region" /\ pc' = "choose" BY <1>12 DEF Region
  <2> QED BY <1>0, <2>1 DEF LastRead
<1>13. CASE Choose
  <2>1. Same /\ pc = "choose" /\ pc' \in {"bodies", "answer"} BY <1>13 DEF Choose
  <2> QED BY <1>0, <2>1 DEF LastRead
<1>14. CASE Bodies
  <2>1. Same /\ pc = "bodies" /\ pc' \in {"answer", "aborted", "store"} BY <1>14 DEF Bodies
  <2> QED BY <1>0, <2>1 DEF LastRead
<1>15. CASE NoBody BY <1>15 DEF NoBody, LastRead
<1>16. CASE Store
  <2>1. pc' = "store" BY <1>16 DEF Store
  <2>2. prev' = 0 \/ prev' = last'
    BY <1>16 DEF Store, NoteLast, NotNoted, LastRead
  <2> QED BY <2>1, <2>2 DEF LastRead
<1>17. CASE Stored BY <1>17 DEF Stored, LastRead
<1>18. CASE Answer BY <1>18 DEF Answer, LastRead
<1>19. CASE Replicate BY <1>19 DEF Replicate, LastRead
<1>20. CASE Expire BY <1>20 DEF Expire, LastRead
<1>21. CASE UNCHANGED vars BY <1>21 DEF vars, LastRead
<1>22. CASE Malformed BY <1>22 DEF Malformed, LastRead
<1> QED
  BY <1>1, <1>2, <1>3, <1>4, <1>5, <1>6, <1>7, <1>8, <1>9, <1>10, <1>11, <1>12, <1>13, <1>14,
     <1>15, <1>16, <1>17, <1>18, <1>19, <1>20, <1>21, <1>22 DEF Next, Worker

\* A user who was shown an ad is shown others next, if there are enough and the
\* slave had heard of it.
THEOREM NeverTwiceInARow == Spec => []NotTwiceInARow
<1>1. TypeOK /\ LastRead /\ LastLeftOut => NotTwiceInARow
  <2> SUFFICES ASSUME TypeOK, LastRead, LastLeftOut, pc = "bodies", prev # 0, fresh,
                      Cardinality(choice) > want
               PROVE  prev \notin Range(aids)
    BY DEF NotTwiceInARow
  <2>1. got >= AppId BY DEF LastRead, Inner
  <2>2. got >= LastRequest BY <2>1 DEF AppId, LastRequest, TypeOK, Replies
  <2>3. seen = prev BY <2>2 DEF LastRead, Inner
  <2> QED BY <2>3 DEF LastLeftOut
<1> QED
  BY <1>1, InitType, NextType, InitLast, NextLastRead, NextLastLeftOut, PTL DEF Spec
=============================================================================
