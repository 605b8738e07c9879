----------------------------- MODULE CycleQueue -----------------------------
(***************************************************************************)
(* The cyclic queue of src/ngix_module/AIS/cyclequeue.c: a ring of nodes   *)
(* cut out of buckets.  When the ring is full a push splices a new bucket  *)
(* of the same size behind the tail (eg_cq_inc); when the newest bucket    *)
(* looks unused a push unlinks and frees it again (eg_cq_dec).  There is   *)
(* no lock.  One thread pushes and one thread pops, and in three places of *)
(* the server these are different threads (the dispatcher and a worker; a  *)
(* worker and the log thread), in one place the same (a connection pool).  *)
(*                                                                         *)
(* Every access to memory the other thread writes is a step of its own.    *)
(* The steps of a thread that touch only its own data are folded into it.  *)
(* The buffer of a node and the pointer to it that push stores in val are  *)
(* one: val[n] is what the pusher wrote into eg_cq_get_cur_buf.            *)
(*                                                                         *)
(* The operators named Slip... are not part of the specification.  Each is *)
(* a slip a programmer could make in the definition that follows it; with  *)
(* the slip in its place one of the properties below is violated.          *)
(***************************************************************************)
EXTENDS Integers, Sequences, FiniteSets

CONSTANTS
  Size,        \* the size passed to eg_cq_create, and of every later bucket
  MaxBuckets,  \* bound: how many buckets malloc can hand out besides the first
  Tags,        \* elements are numbered modulo Tags
  OneThread,   \* TRUE: pusher and popper are one thread, calls do not overlap
  NULL

ASSUME SizeAssumption == Size \in Nat \ {0} /\ MaxBuckets \in Nat
ASSUME TagsAssumption == Tags \in Nat /\ Tags > Size * (MaxBuckets + 1)
ASSUME ModeAssumption == OneThread \in BOOLEAN
ASSUME NullAssumption == NULL \notin 0 .. Tags - 1

Bucket == 0 .. MaxBuckets
Node   == Bucket \X (1 .. Size)      \* node k of bucket b, in address order
Elem   == 0 .. Tags - 1

VARIABLES
  head, tail,  \* cq->head and cq->tail
  next, val,   \* the fields of the nodes; freed memory keeps what it held
  btlist,      \* cq->btlist, the newest bucket first; bt_index = Len - 1
  bthead,      \* bt->head: the node a bucket was spliced behind
  ppc, cpc,    \* where the pushing and the popping thread are
  got,         \* what eg_cq_pop is about to return
  pt, ct,      \* number of the next element to push, of the next one due
  stray,       \* history: the popper has followed a pointer of freed memory
  wrapped      \* history: a push has moved the tail onto the head

queue == <<head, tail, next, val, btlist, bthead>>
history == <<stray, wrapped>>
vars  == <<queue, ppc, cpc, got, pt, ct, history>>

First(b) == <<b, 1>>
Last(b)  == <<b, Size>>
BucketOf(n) == n[1]
Newest == btlist[1]
Allocated == { btlist[i] : i \in DOMAIN btlist }
Live(n) == BucketOf(n) \in Allocated

\* eg_cq_capity: the number of nodes on the ring.
Capity == Size * Len(btlist)

\* eg_cq_initbucket: a chain of the bucket's nodes, without values; the last
\* node is left to the caller, which lets it point to `after'.
Chained(f, b, after) ==
  [ n \in Node |-> IF BucketOf(n) # b THEN f[n]
                   ELSE IF n = Last(b) THEN after ELSE <<b, n[2] + 1>> ]
Blank(f, b) == [ n \in Node |-> IF BucketOf(n) = b THEN NULL ELSE f[n] ]

Init ==
  /\ btlist = <<0>>
  /\ next = Chained([n \in Node |-> n], 0, First(0))
  /\ val = [n \in Node |-> NULL]
  /\ head = First(0) /\ tail = First(0)
  /\ bthead = [b \in Bucket |-> First(0)]
  /\ ppc = "idle" /\ cpc = "idle"
  /\ got = NULL /\ pt = 0 /\ ct = 0
  /\ stray = FALSE /\ wrapped = FALSE

----------------------------------------------------------------------------
(* The pushing thread. *)

MayStart(other) == OneThread => other = "idle"

Producer(from, to) == ppc = from /\ ppc' = to

\* The tail is the last free node if its successor is the head.
SlipNeverFull == FALSE
Full == next[tail] = head

\* eg_cq_push, its first test.
PushTest ==
  /\ MayStart(cpc)
  /\ Producer("idle", IF Full THEN "inc"
                      ELSE IF Len(btlist) > 1 THEN "probefirst" ELSE "store")
  /\ UNCHANGED <<queue, cpc, got, pt, ct, history>>

\* eg_cq_push: is the first node of the newest bucket without a value?
ProbeFirst ==
  /\ Producer("probefirst", IF val[First(Newest)] = NULL THEN "probelast" ELSE "store")
  /\ UNCHANGED <<queue, cpc, got, pt, ct, history>>

\* ... and the last one, and is the tail outside the bucket?
SlipLastAnyway == BucketOf(tail) # Newest
LastUnused == val[Last(Newest)] = NULL /\ BucketOf(tail) # Newest

ProbeLast ==
  /\ Producer("probelast", IF LastUnused THEN "dec" ELSE "store")
  /\ UNCHANGED <<queue, cpc, got, pt, ct, history>>

\* eg_cq_inc: bucket b goes between the tail and its successor.  (The slip:
\* cur->next = node comes first.)
SlipSpliceSwapped(b) == [Chained(next, b, First(b)) EXCEPT ![tail] = First(b)]
Spliced(b) == [Chained(next, b, next[tail]) EXCEPT ![tail] = First(b)]

\* bt->head = cur
SplicedBehind(b) == [bthead EXCEPT ![b] = tail]

\* The popper reads neither the successor of the tail nor btlist.
Inc(b) ==
  /\ Producer("inc", "store")
  /\ b \notin Allocated
  /\ next' = Spliced(b)
  /\ val' = Blank(val, b)
  /\ bthead' = SplicedBehind(b)
  /\ btlist' = <<b>> \o btlist
  /\ UNCHANGED <<head, tail, cpc, got, pt, ct, history>>

\* malloc failed in eg_cq_inc: eg_cq_push returns 0 and the element is refused.
IncFails ==
  /\ Producer("inc", "idle")
  /\ UNCHANGED <<queue, cpc, got, pt, ct, history>>

\* eg_cq_dec: unlink the newest bucket and free it.
SlipNotUnlinked == next
Unlinked == [next EXCEPT ![bthead[Newest]] = next[Last(Newest)]]

Dec ==
  /\ Producer("dec", "store")
  /\ next' = Unlinked
  /\ btlist' = Tail(btlist)
  /\ UNCHANGED <<head, tail, val, bthead, cpc, got, pt, ct, history>>

\* eg_cq_push: cur->val = val.
Store ==
  /\ Producer("store", "publish")
  /\ val' = [val EXCEPT ![tail] = pt]
  /\ UNCHANGED <<head, tail, next, btlist, bthead, cpc, got, pt, ct, history>>

\* eg_cq_push: cq->tail = cur->next, the step that makes the element visible.
Publish ==
  /\ Producer("publish", "idle")
  /\ tail' = next[tail]
  /\ pt' = (pt + 1) % Tags
  /\ wrapped' = (wrapped \/ next[tail] = head)
  /\ UNCHANGED <<head, next, val, btlist, bthead, cpc, got, ct, stray>>

----------------------------------------------------------------------------
(* The popping thread. *)

Consumer(from, to) == cpc \in from /\ cpc' = to

\* eg_cq_head on a queue that is not empty: the caller now works on the
\* element in place, in the buffer of the head node.
Peek ==
  /\ MayStart(ppc)
  /\ head # tail
  /\ Consumer({"idle"}, "using")
  /\ UNCHANGED <<queue, ppc, got, pt, ct, history>>

\* eg_cq_pop: val = cq->head->val.
PopTake ==
  /\ MayStart(ppc)
  /\ head # tail
  /\ Consumer({"idle", "using"}, "clear")
  /\ got' = val[head]
  /\ UNCHANGED <<queue, ppc, pt, ct, history>>

\* eg_cq_pop: cq->head->val = NULL.
SlipNotCleared == val
Cleared == [val EXCEPT ![head] = NULL]

PopClear ==
  /\ Consumer({"clear"}, "advance")
  /\ val' = Cleared
  /\ UNCHANGED <<head, tail, next, btlist, bthead, ppc, got, pt, ct, history>>

\* eg_cq_pop: cq->head = cq->head->next.  If the node has been freed since,
\* the memory may belong to anyone and hold any pointer.
PopAdvance ==
  /\ Consumer({"advance"}, "idle")
  /\ IF Live(head)
     THEN head' = next[head] /\ UNCHANGED stray
     ELSE head' \in Node /\ stray' = TRUE
  /\ ct' = (ct + 1) % Tags
  /\ got' = NULL
  /\ UNCHANGED <<tail, next, val, btlist, bthead, ppc, pt, wrapped>>

ProducerNext ==
  \/ PushTest \/ ProbeFirst \/ ProbeLast
  \/ \E b \in Bucket : Inc(b)
  \/ IncFails \/ Dec \/ Store \/ Publish

ConsumerNext == Peek \/ PopTake \/ PopClear \/ PopAdvance

Next == ProducerNext \/ ConsumerNext

Spec == Init /\ [][Next]_vars

----------------------------------------------------------------------------
\* The type invariant.
TypeOK ==
  /\ head \in Node /\ tail \in Node
  /\ next \in [Node -> Node] /\ val \in [Node -> Elem \cup {NULL}]
  /\ btlist \in Seq(Bucket) /\ btlist # <<>>
  /\ bthead \in [Bucket -> Node]
  /\ ppc \in {"idle", "inc", "probefirst", "probelast", "dec", "store", "publish"}
  /\ cpc \in {"idle", "using", "clear", "advance"}
  /\ got \in Elem \cup {NULL} /\ pt \in Elem /\ ct \in Elem
  /\ stray \in BOOLEAN /\ wrapped \in BOOLEAN

(* What the ring holds. *)

\* Walk[n][k] is the node k links after n.
Walk(n) ==
  LET w[k \in 0 .. Capity] == IF k = 0 THEN n ELSE next[w[k - 1]] IN w

\* The nodes from the head up to the tail, the tail not included.
Arc ==
  LET w == Walk(head)
      len == Cardinality({ k \in 0 .. Capity - 1 : \A j \in 0 .. k : w[j] # tail })
  IN  [ k \in 1 .. len |-> w[k - 1] ]

\* The elements that have been pushed and not yet taken out.
Contents ==
  LET due == IF cpc = "advance" THEN Tail(Arc) ELSE Arc
  IN  [ k \in DOMAIN due |-> val[due[k]] ]

----------------------------------------------------------------------------
\* The links of the ring visit every node of every allocated bucket exactly
\* once and no freed node, whatever buckets were spliced in behind or inside
\* others and taken out again (eg_cq_inc, eg_cq_dec).
RingIntact ==
  LET w == Walk(tail) IN
  /\ { w[k] : k \in 0 .. Capity - 1 } = { n \in Node : Live(n) }
  /\ w[Capity] = tail

\* Two runs of the queue are beyond repair and the invariants below stop at
\* them; PopReturnsHead and PopRemovesHead show that the code gets there: the
\* tail has wrapped onto the head, or the node a pop is about to leave is freed.
Sound == ~stray /\ ~wrapped /\ (cpc = "advance" => Live(head))

\* The elements between head and tail are exactly the accepted and not yet
\* popped ones, in the order they were pushed: none is lost when eg_cq_inc and
\* eg_cq_dec extend and cut the ring under them.
NothingLost ==
  Sound =>
     LET due == IF cpc = "advance" THEN (ct + 1) % Tags ELSE ct IN
     /\ Len(Contents) = (pt - due) % Tags
     /\ \A k \in DOMAIN Contents : Contents[k] = (due + k - 1) % Tags

\* Nodes outside the arc carry no value (apart from the one being pushed).
\* eg_cq_push may look at the two end nodes of a bucket to find out whether
\* the bucket is unused only because of this.
FreeNodesBlank ==
  Sound =>
     \A n \in Node :
        Live(n) /\ val[n] # NULL =>
           \/ \E k \in DOMAIN Arc : Arc[k] = n
           \/ n = tail /\ ppc = "publish"

\* While the caller of eg_cq_head works on the element in place, its buffer
\* is neither freed by eg_cq_dec nor handed out again by eg_cq_get_cur_buf.
BufferInUseKept ==
  (cpc \in {"using", "clear"} /\ ~stray /\ ~wrapped) =>
     Live(head) /\ head # tail /\ val[head] = ct

\* eg_cq_pop returns the head element (cyclequeue.h:86-92), the oldest one
\* that eg_cq_push accepted (cyclequeue.h:77-84).
PopReturnsHead == (cpc = "clear") => got = ct

\* eg_cq_pop removes the head element (cyclequeue.h:87): the head moves on to
\* the node that follows it on the ring.
PopRemovesHead ==
  [][(cpc = "advance" /\ cpc' = "idle") => Live(head) /\ head' = next[head]]_vars

\* Each step of either thread is a step of the abstract queue or invisible
\* in it, as long as the queue is Sound.
Abstract == INSTANCE Fifo WITH q <- Contents
FifoSteps ==
  [][Sound' => Abstract!Next \/ UNCHANGED Contents]_vars

\* A queue that is never extended (every malloc of eg_cq_inc fails) is the
\* abstract queue, without reserve, for two threads without a lock.
ImplementsFifo == Abstract!Spec
=============================================================================
