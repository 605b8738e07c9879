-------------------------- MODULE CycleQueueProofs --------------------------
(***************************************************************************)
(* Proofs about CycleQueue, for buckets of any size, any number of them,   *)
(* and the pusher and the popper in one thread or in two.                  *)
(*                                                                         *)
(* Rings of linked nodes come first, by themselves; then the types; then   *)
(* the ring as the buckets on btlist build it up level by level (RingInv); *)
(* then what its nodes hold (QueueInv); last, the abstract queue.          *)
(***************************************************************************)
EXTENDS CycleQueue, WellFoundedInduction, FiniteSetTheorems, TLAPS

----------------------------------------------------------------------------
(* Induction, in the first-order form the provers can use. *)

\* A non-empty set of naturals has a least element.
LEMMA LeastNat ==
  ASSUME NEW T, T \subseteq Nat, T # {}
  PROVE  \E x \in T : \A y \in T : x =< y
<1> DEFINE R == {ss \in Nat \X Nat : ss[1] < ss[2]}
<1>1. IsWellFoundedOn(R, Nat)
  BY NatLessThanWellFounded DEF OpToRel
<1>2. \A x, y \in Nat : x < y => <<x, y>> \in R
  OBVIOUS
<1> HIDE DEF R
<1>3. PICK x \in T : \A y \in T : ~ (<<y, x>> \in R)
  BY <1>1, WFMin
<1>4. ASSUME NEW y \in T PROVE x =< y
  <2>1. x \in Nat /\ y \in Nat /\ ~ (y < x)
    BY <1>2, <1>3
  <2> QED BY <2>1
<1> QED BY <1>4

\* A set that contains 0 and with each natural its successor contains them all.
LEMMA NatSet ==
  ASSUME NEW S, 0 \in S, \A n \in Nat : n \in S => n + 1 \in S
  PROVE  \A n \in Nat : n \in S
<1> SUFFICES ASSUME Nat \ S # {} PROVE FALSE
  OBVIOUS
<1>1. PICK x \in Nat \ S : \A y \in Nat \ S : x =< y
  BY LeastNat
<1>2. x - 1 \in Nat
  BY <1>1
<1>3. x - 1 \in S
  BY <1>1, <1>2
<1>4. (x - 1) + 1 \in S
  BY <1>2, <1>3
<1> QED BY <1>1, <1>4

----------------------------------------------------------------------------
(* Rings. *)

\* The function f lists the nodes S in the order in which the links nx visit
\* them, each once, and the last of them leads back to the first.
IsRing(nx, S, L, f) ==
  /\ L \in Nat \ {0}
  /\ f \in [0 .. L - 1 -> S]
  /\ \A i \in 0 .. L - 1 : nx[f[i]] = IF i = L - 1 THEN f[0] ELSE f[i + 1]
  /\ \A i, j \in 0 .. L - 1 : f[i] = f[j] => i = j
  /\ \A n \in S : \E i \in 0 .. L - 1 : f[i] = n

\* The same ring, listed from its node number q on.
Rotated(f, L, q) ==
  [ i \in 0 .. L - 1 |-> IF i + q < L THEN f[i + q] ELSE f[i + q - L] ]

LEMMA RotateRing ==
  ASSUME NEW nx, NEW S, NEW L, NEW f, IsRing(nx, S, L, f), NEW q \in 0 .. L - 1
  PROVE  IsRing(nx, S, L, Rotated(f, L, q)) /\ Rotated(f, L, q)[0] = f[q]
<1> DEFINE g == Rotated(f, L, q)
<1>1. \A i \in 0 .. L - 1 : g[i] = IF i + q < L THEN f[i + q] ELSE f[i + q - L]
  BY DEF Rotated
<1>7. L \in Nat \ {0}
  BY DEF IsRing
<1>2. g \in [0 .. L - 1 -> S]
  BY DEF Rotated, IsRing
<1>3. ASSUME NEW i \in 0 .. L - 1
      PROVE  nx[g[i]] = IF i = L - 1 THEN g[0] ELSE g[i + 1]
  <2> DEFINE k == IF i + q < L THEN i + q ELSE i + q - L
  <2>1. /\ k \in 0 .. L - 1 /\ g[i] = f[k]
        /\ nx[f[k]] = IF k = L - 1 THEN f[0] ELSE f[k + 1]
    BY <1>1 DEF IsRing
  <2>2. i # L - 1 => i + 1 \in 0 .. L - 1
    BY <1>7
  <2> HIDE DEF g
  <2>3. CASE i + q < L - 1
    BY <2>1, <2>2, <2>3, <1>1, <1>7
  <2>4. CASE i + q = L - 1
    BY <2>1, <2>2, <2>4, <1>1, <1>7
  <2>5. CASE i + q > L - 1
    BY <2>1, <2>2, <2>5, <1>1, <1>7
  <2> QED BY <2>3, <2>4, <2>5, <1>7
<1>4. ASSUME NEW i \in 0 .. L - 1, NEW j \in 0 .. L - 1, g[i] = g[j]
      PROVE  i = j
  <2> DEFINE k(x) == IF x + q < L THEN x + q ELSE x + q - L
  <2>1. k(i) \in 0 .. L - 1 /\ k(j) \in 0 .. L - 1
    BY <1>7
  <2>2. f[k(i)] = f[k(j)]
    BY <1>4, <1>1
  <2>3. k(i) = k(j)
    BY <2>1, <2>2 DEF IsRing
  <2> QED BY <2>3, <1>7
<1>5. ASSUME NEW n \in S PROVE \E i \in 0 .. L - 1 : g[i] = n
  <2>1. PICK i \in 0 .. L - 1 : f[i] = n
    BY DEF IsRing
  <2>2. CASE i >= q
    <3>1. i - q \in 0 .. L - 1 /\ g[i - q] = n
      BY <2>1, <2>2, <1>1 DEF IsRing
    <3> QED BY <3>1
  <2>3. CASE i < q
    <3>1. i - q + L \in 0 .. L - 1 /\ g[i - q + L] = n
      BY <2>1, <2>3, <1>1 DEF IsRing
    <3> QED BY <3>1
  <2> QED BY <2>2, <2>3 DEF IsRing
<1>6. g[0] = f[q]
  BY <1>1 DEF IsRing
<1> HIDE DEF g
<1>8. IsRing(nx, S, L, g)
  BY <1>2, <1>3, <1>4, <1>5, <1>7 DEF IsRing
<1> QED BY <1>6, <1>8 DEF g

\* Every node of a ring can be the first.
LEMMA RingFrom ==
  ASSUME NEW nx, NEW S, NEW L, NEW f, IsRing(nx, S, L, f), NEW n \in S
  PROVE  \E g : IsRing(nx, S, L, g) /\ g[0] = n
<1>1. PICK q \in 0 .. L - 1 : f[q] = n
  BY DEF IsRing
<1> QED BY <1>1, RotateRing

\* The links of a ring stay inside it.
LEMMA RingClosed ==
  ASSUME NEW nx, NEW S, NEW L, NEW f, IsRing(nx, S, L, f), NEW n \in S
  PROVE  nx[n] \in S
<1>1. PICK q \in 0 .. L - 1 : f[q] = n
  BY DEF IsRing
<1>2. nx[f[q]] = IF q = L - 1 THEN f[0] ELSE f[q + 1]
  BY DEF IsRing
<1>3. f[0] \in S /\ (q # L - 1 => f[q + 1] \in S)
  BY DEF IsRing
<1> QED BY <1>1, <1>2, <1>3

\* Only the links of its own nodes make a ring.
LEMMA RingLinks ==
  ASSUME NEW nx, NEW ny, NEW S, NEW L, NEW f, IsRing(nx, S, L, f),
         \A n \in S : ny[n] = nx[n]
  PROVE  IsRing(ny, S, L, f)
<1>1. \A i \in 0 .. L - 1 : f[i] \in S
  BY DEF IsRing
<1>2. \A i \in 0 .. L - 1 : ny[f[i]] = nx[f[i]]
  BY <1>1
<1> QED BY <1>2 DEF IsRing

\* The ring f with the chain c of K nodes spliced in behind its node number p.
Inserted(f, L, p, c, K) ==
  [ i \in 0 .. (L + K) - 1 |-> IF i =< p THEN f[i]
                             ELSE IF i =< p + K THEN c[i - p] ELSE f[i - K] ]

\* c lists the nodes C, each once.
Lists(c, K, C) ==
  /\ K \in Nat \ {0} /\ c \in [1 .. K -> C]
  /\ \A i, j \in 1 .. K : c[i] = c[j] => i = j
  /\ \A n \in C : \E i \in 1 .. K : c[i] = n

LEMMA InsertRing ==
  ASSUME NEW nx, NEW ny, NEW S, NEW L, NEW f, IsRing(nx, S, L, f),
         NEW p \in 0 .. L - 1, NEW C, C \cap S = {},
         NEW K, NEW c, Lists(c, K, C),
         \A n \in S : ny[n] = IF n = f[p] THEN c[1] ELSE nx[n],
         \A i \in 1 .. K : ny[c[i]] = IF i = K THEN nx[f[p]] ELSE c[i + 1]
  PROVE  IsRing(ny, S \cup C, L + K, Inserted(f, L, p, c, K))
<1>a. /\ K \in Nat \ {0} /\ c \in [1 .. K -> C]
      /\ \A i, j \in 1 .. K : c[i] = c[j] => i = j
      /\ \A n \in C : \E i \in 1 .. K : c[i] = n
  BY DEF Lists
<1> USE <1>a
<1> DEFINE g == Inserted(f, L, p, c, K)
           M == L + K
<1>1. L \in Nat \ {0} /\ M \in Nat \ {0}
  BY DEF IsRing
<1>2. \A i \in 0 .. M - 1 : g[i] = IF i =< p THEN f[i]
                                   ELSE IF i =< p + K THEN c[i - p] ELSE f[i - K]
  BY <1>1 DEF Inserted
<1>0. g = [i \in 0 .. M - 1 |-> g[i]]
  BY DEF Inserted
<1> HIDE DEF g
<1>3. \A i \in 0 .. L - 1 : f[i] \in S
  BY DEF IsRing
<1>4. \A i \in 0 .. M - 1 :
         /\ i =< p => i \in 0 .. L - 1
         /\ i > p /\ i =< p + K => i - p \in 1 .. K
         /\ i > p + K => i - K \in 0 .. L - 1
  BY <1>1
<1>5. g \in [0 .. M - 1 -> S \cup C]
  <2>1. ASSUME NEW i \in 0 .. M - 1 PROVE g[i] \in S \cup C
    BY <1>2, <1>3, <1>4
  <2> QED BY <2>1, <1>0
<1>6. ASSUME NEW i \in 0 .. M - 1
      PROVE  ny[g[i]] = IF i = M - 1 THEN g[0] ELSE g[i + 1]
  <2>0. g[0] = f[0] /\ (i # M - 1 => i + 1 \in 0 .. M - 1)
    <3>1. 0 \in 0 .. M - 1 /\ 0 =< p /\ (i # M - 1 => i + 1 \in 0 .. M - 1)
      BY <1>1
    <3> QED BY <3>1, <1>2
  <2>1. CASE i < p
    <3>1. /\ i \in 0 .. L - 1 /\ g[i] = f[i] /\ g[i + 1] = f[i + 1]
          /\ i # M - 1 /\ i # L - 1 /\ i # p
      BY <2>1, <1>1, <1>2
    <3>2. f[i] # f[p] /\ nx[f[i]] = f[i + 1]
      BY <3>1 DEF IsRing
    <3> QED BY <3>1, <3>2, <1>3
  <2>2. CASE i = p
    <3>0. /\ i # M - 1 /\ i + 1 \in 0 .. M - 1 /\ i =< p
          /\ ~ (i + 1 =< p) /\ i + 1 =< p + K /\ (i + 1) - p = 1
      BY <2>2, <1>1
    <3>1. g[i] = f[p] /\ g[i + 1] = c[1] /\ i # M - 1
      BY <3>0, <2>2, <1>2
    <3> QED BY <3>1, <1>3
  <2>3. CASE i > p /\ i < p + K
    <3>1. /\ i - p \in 1 .. K /\ i - p # K /\ g[i] = c[i - p]
          /\ i # M - 1 /\ g[i + 1] = c[(i - p) + 1]
      BY <2>3, <1>1, <1>2
    <3> QED BY <3>1
  <2>4. CASE i = p + K
    <3>1. /\ i > p /\ i =< p + K /\ i - p = K
          /\ i = M - 1 <=> p = L - 1
          /\ i # M - 1 => ~ (i + 1 =< p + K) /\ ~ (i + 1 =< p) /\ (i + 1) - K = p + 1
      BY <2>4, <1>1
    <3>2. g[i] = c[K] /\ (i # M - 1 => g[i + 1] = f[p + 1])
      BY <3>1, <2>0, <1>2
    <3>3. ny[c[K]] = nx[f[p]] /\ nx[f[p]] = IF p = L - 1 THEN f[0] ELSE f[p + 1]
      BY DEF IsRing
    <3> QED BY <3>1, <3>2, <3>3, <2>0
  <2>5. CASE i > p + K
    <3>0. i \in Int /\ p \in Int /\ L \in Int /\ K \in Int
      BY <1>1
    <3>1. /\ i - K \in 0 .. L - 1 /\ i - K # p /\ ~ (i =< p) /\ ~ (i =< p + K)
          /\ ~ (i + 1 =< p) /\ ~ (i + 1 =< p + K) /\ (i + 1) - K = (i - K) + 1
          /\ i = M - 1 <=> i - K = L - 1
      BY <2>5, <1>1, <3>0
    <3>2. g[i] = f[i - K] /\ (i # M - 1 => g[i + 1] = f[(i - K) + 1])
      BY <3>1, <2>0, <1>2
    <3>3. /\ f[i - K] # f[p]
          /\ nx[f[i - K]] = IF i - K = L - 1 THEN f[0] ELSE f[(i - K) + 1]
      BY <3>1 DEF IsRing
    <3> QED BY <3>1, <3>2, <3>3, <2>0, <1>3
  <2> QED BY <2>1, <2>2, <2>3, <2>4, <2>5, <1>1
<1>7. ASSUME NEW i \in 0 .. M - 1, NEW j \in 0 .. M - 1, g[i] = g[j]
      PROVE  i = j
  <2>1. \A k \in 0 .. M - 1 :
           \/ k =< p /\ g[k] = f[k] /\ g[k] \in S
           \/ k > p /\ k =< p + K /\ g[k] = c[k - p] /\ g[k] \in C
           \/ k > p + K /\ g[k] = f[k - K] /\ g[k] \in S
    BY <1>2, <1>3, <1>4
  <2>2. g[i] \notin C \/ g[i] \notin S
    OBVIOUS
  <2> HIDE DEF g, M
  <2>3. CASE g[i] \in C
    <3>1. /\ i > p /\ i =< p + K /\ g[i] = c[i - p]
          /\ j > p /\ j =< p + K /\ g[j] = c[j - p]
      BY <2>1, <2>2, <2>3, <1>7
    <3>2. i - p = j - p
      BY <3>1, <1>4, <1>7
    <3> QED BY <3>2, <1>1
  <2>4. CASE g[i] \notin C
    <3> DEFINE u(k) == IF k =< p THEN k ELSE k - K
    <3>1. /\ g[i] = f[u(i)] /\ u(i) \in 0 .. L - 1 /\ (i =< p \/ i > p + K)
          /\ g[j] = f[u(j)] /\ u(j) \in 0 .. L - 1 /\ (j =< p \/ j > p + K)
      BY <2>1, <2>4, <1>4, <1>7
    <3>2. f[u(i)] = f[u(j)]
      BY <3>1, <1>7
    <3> HIDE DEF u
    <3>3. u(i) = u(j)
      BY <3>1, <3>2 DEF IsRing
    <3> QED BY <3>1, <3>3, <1>1 DEF u
  <2> QED BY <2>3, <2>4
<1>8. ASSUME NEW n \in S \cup C PROVE \E i \in 0 .. M - 1 : g[i] = n
  <2>1. CASE n \in C
    <3>1. PICK k \in 1 .. K : c[k] = n
      BY <2>1
    <3>2. k + p \in 0 .. M - 1 /\ ~ (k + p =< p) /\ k + p =< p + K /\ (k + p) - p = k
      BY <1>1
    <3> QED BY <3>1, <3>2, <1>2
  <2>2. CASE n \in S
    <3>1. PICK k \in 0 .. L - 1 : f[k] = n
      BY <2>2 DEF IsRing
    <3>2. CASE k =< p
      <4>1. k \in 0 .. M - 1
        BY <1>1
      <4> QED BY <4>1, <3>1, <3>2, <1>2
    <3>3. CASE k > p
      <4>1. k + K \in 0 .. M - 1 /\ ~ (k + K =< p) /\ ~ (k + K =< p + K) /\ (k + K) - K = k
        BY <3>3, <1>1
      <4> QED BY <4>1, <3>1, <1>2
    <3> QED BY <3>2, <3>3, <1>1
  <2> QED BY <2>1, <2>2
<1> HIDE DEF g, M
<1>9. IsRing(ny, S \cup C, M, g)
  BY <1>1, <1>5, <1>6, <1>7, <1>8 DEF IsRing
<1> QED BY <1>9 DEF g, M

\* Two rings with the same first node agree as long as their links do.
LEMMA RingsAgree ==
  ASSUME NEW nx, NEW S, NEW L, NEW f, IsRing(nx, S, L, f),
         NEW ny, NEW T, NEW M, NEW g, IsRing(ny, T, M, g),
         f[0] = g[0], NEW p \in 0 .. L - 1,
         \A i \in 0 .. p - 1 : ny[f[i]] = nx[f[i]]
  PROVE  p < M /\ \A i \in 0 .. p : i < M /\ f[i] = g[i]
<1> DEFINE A == {i \in Nat : i =< p => i < M /\ f[i] = g[i]}
<1>1. L \in Nat /\ M \in Nat \ {0}
  BY DEF IsRing
<1>2. 0 \in A
  BY <1>1
<1>3. ASSUME NEW i \in Nat, i \in A, i + 1 =< p PROVE i + 1 < M /\ f[i + 1] = g[i + 1]
  <2>1. i \in 0 .. p - 1 /\ i \in 0 .. L - 1 /\ i # L - 1 /\ i < M /\ f[i] = g[i]
    BY <1>3, <1>1
  <2>2. nx[f[i]] = f[i + 1]
    BY <2>1 DEF IsRing
  <2>3. i + 1 \in 0 .. L - 1 /\ 0 \in 0 .. L - 1 /\ i + 1 # 0 /\ i \in 0 .. M - 1
    BY <2>1, <1>1, <1>3
  <2>4. f[i + 1] # f[0]
    BY <2>3 DEF IsRing
  <2>5. ny[g[i]] = IF i = M - 1 THEN g[0] ELSE g[i + 1]
    BY <2>3 DEF IsRing
  <2>6. i # M - 1 /\ f[i + 1] = g[i + 1]
    BY <2>1, <2>2, <2>4, <2>5
  <2> QED BY <2>6, <2>1, <1>1
<1>4. \A i \in Nat : i \in A => i + 1 \in A
  BY <1>3
<1> HIDE DEF A
<1>5. \A i \in Nat : i \in A
  BY <1>2, <1>4, NatSet
<1>6. \A i \in 0 .. p : i \in A /\ i \in Nat /\ i =< p
  BY <1>5, <1>1
<1>7. \A i \in 0 .. p : i < M /\ f[i] = g[i]
  BY <1>6 DEF A
<1> QED BY <1>7, <1>1

\* The equation of the recursive function Walk.
IsWalk(nx, L, n, w) == w = [k \in 0 .. L |-> IF k = 0 THEN n ELSE nx[w[k - 1]]]

\* Once around the ring f and back to its first node.
Around(f, L) == [k \in 0 .. L |-> IF k = L THEN f[0] ELSE f[k]]

\* Following the links of a ring from its first node leads once around it: that
\* function satisfies the equation, and no other does.
LEMMA WalkOfRing ==
  ASSUME NEW nx, NEW S, NEW L, NEW f, IsRing(nx, S, L, f)
  PROVE  /\ IsWalk(nx, L, f[0], Around(f, L))
         /\ \A u : IsWalk(nx, L, f[0], u) => u = Around(f, L)
<1> DEFINE v == Around(f, L)
<1>0. v = [k \in 0 .. L |-> IF k = L THEN f[0] ELSE f[k]]
  BY DEF Around
<1> HIDE DEF v
<1>1. L \in Nat \ {0}
  BY DEF IsRing
<1>2. ASSUME NEW k \in 0 .. L, k # 0
      PROVE  v[k] = nx[v[k - 1]] /\ k - 1 \in 0 .. L
  <2>1. k - 1 \in 0 .. L - 1 /\ k - 1 # L /\ k - 1 \in 0 .. L
    BY <1>1, <1>2
  <2>2. nx[f[k - 1]] = IF k - 1 = L - 1 THEN f[0] ELSE f[(k - 1) + 1]
    BY <2>1 DEF IsRing
  <2>3. v[k - 1] = f[k - 1]
    BY <1>0, <2>1
  <2>4. v[k] = IF k = L THEN f[0] ELSE f[k]
    BY <1>0
  <2> QED BY <2>1, <2>2, <2>3, <2>4, <1>1
<1>3. v[0] = f[0]
  BY <1>0, <1>1
<1>4. v = [k \in 0 .. L |-> IF k = 0 THEN f[0] ELSE nx[v[k - 1]]]
  <2>1. \A k \in 0 .. L : v[k] = IF k = 0 THEN f[0] ELSE nx[v[k - 1]]
    BY <1>2, <1>3
  <2>2. v = [k \in 0 .. L |-> v[k]]
    BY <1>0
  <2> QED BY <2>1, <2>2
<1>5. ASSUME NEW u, u = [k \in 0 .. L |-> IF k = 0 THEN f[0] ELSE nx[u[k - 1]]]
      PROVE  u = v
  <2>1. \A k \in 0 .. L : u[k] = IF k = 0 THEN f[0] ELSE nx[u[k - 1]]
    BY <1>5
  <2> DEFINE A == {k \in Nat : k =< L => u[k] = v[k]}
  <2>2. 0 \in A
    BY <1>3, <2>1, <1>1
  <2>3. ASSUME NEW k \in Nat, k \in A PROVE k + 1 \in A
    <3> SUFFICES ASSUME k + 1 =< L PROVE u[k + 1] = v[k + 1]
      OBVIOUS
    <3>1. k + 1 \in 0 .. L /\ k + 1 # 0 /\ (k + 1) - 1 = k /\ u[k] = v[k]
      BY <2>3, <1>1
    <3> QED BY <3>1, <1>2, <2>1
  <2> HIDE DEF A
  <2>4. \A k \in Nat : k \in A
    BY <2>2, <2>3, NatSet
  <2>5. \A k \in 0 .. L : u[k] = v[k]
    BY <2>4, <1>1 DEF A
  <2>6. u = [k \in 0 .. L |-> u[k]] /\ v = [k \in 0 .. L |-> v[k]]
    BY <1>0, <1>5
  <2> QED BY <2>5, <2>6
<1> QED BY <1>4, <1>5 DEF IsWalk, v

----------------------------------------------------------------------------
(* Sequences and arithmetic. *)

LEMMA PushFront ==
  ASSUME NEW S, NEW s \in Seq(S), NEW e \in S
  PROVE  /\ <<e>> \o s \in Seq(S) /\ <<e>> \o s # <<>>
         /\ Len(<<e>> \o s) = Len(s) + 1
         /\ (<<e>> \o s)[1] = e
         /\ \A i \in 1 .. Len(s) : (<<e>> \o s)[i + 1] = s[i]
  OBVIOUS

LEMMA DropFront ==
  ASSUME NEW S, NEW s \in Seq(S), Len(s) > 1
  PROVE  /\ Tail(s) \in Seq(S) /\ Tail(s) # <<>>
         /\ Len(Tail(s)) = Len(s) - 1
         /\ \A i \in 1 .. Len(s) - 1 : Tail(s)[i] = s[i + 1]
<1>1. s # <<>> /\ Len(s) \in Nat
  OBVIOUS
<1>2. Tail(s) \in Seq(S) /\ Len(Tail(s)) = Len(s) - 1
  BY <1>1
<1>3. Tail(s) # <<>>
  <2>1. Len(<<>>) = 0
    OBVIOUS
  <2>2. Len(Tail(s)) # 0
    BY <1>2
  <2> QED BY <2>1, <2>2
<1>4. \A i \in 1 .. Len(s) - 1 : Tail(s)[i] = s[i + 1]
  BY <1>1, <1>2
<1> QED BY <1>2, <1>3, <1>4

LEMMA FrontOf ==
  ASSUME NEW S, NEW s \in Seq(S), s # <<>>
  PROVE  Len(s) \in Nat \ {0} /\ s[1] \in S /\ \A i \in 1 .. Len(s) : s[i] \in S
  OBVIOUS

\* The number of nodes on m buckets.
LEMMA NodesOf ==
  ASSUME NEW m \in Nat \ {0}
  PROVE  Size * m \in Nat \ {0} /\ Size * (m + 1) = Size * m + Size /\ Size * m >= Size
<1>1. Size \in Nat \ {0}
  BY SizeAssumption
<1>2. Size * (m + 1) = Size * m + Size
  BY <1>1
<1>3. Size * m >= Size
  <2> DEFINE A == {k \in Nat : Size * (k + 1) >= Size}
  <2>1. 0 \in A
    BY <1>1
  <2>2. ASSUME NEW k \in Nat, k \in A PROVE k + 1 \in A
    <3>1. Size * ((k + 1) + 1) = Size * (k + 1) + Size
      BY <1>1
    <3>2. Size * (k + 1) \in Int /\ Size * (k + 1) >= Size
      BY <1>1, <2>2
    <3> QED BY <3>1, <3>2, <1>1
  <2> HIDE DEF A
  <2>3. m - 1 \in A
    BY <2>1, <2>2, NatSet
  <2> QED BY <2>3 DEF A
<1>4. Size * m \in Int
  BY <1>1
<1> QED BY <1>1, <1>2, <1>3, <1>4

----------------------------------------------------------------------------
(* Types, and what the producer knows between its tests and its cut. *)

\* eg_cq_dec is reached only with a bucket to spare whose end nodes are blank
\* and with the tail outside it.
Probed ==
  /\ ppc \in {"probefirst", "probelast", "dec"} => Len(btlist) > 1
  /\ ppc \in {"probelast", "dec"} => val[First(Newest)] = NULL
  /\ ppc = "dec" => val[Last(Newest)] = NULL /\ BucketOf(tail) # Newest

Typed == TypeOK /\ Probed

LEMMA BucketNodes ==
  ASSUME NEW b \in Bucket
  PROVE  First(b) \in Node /\ Last(b) \in Node
  BY SizeAssumption DEF First, Last, Node

LEMMA LinksType ==
  ASSUME NEW f \in [Node -> Node], NEW b \in Bucket, NEW n \in Node
  PROVE  Chained(f, b, n) \in [Node -> Node]
<1>1. ASSUME NEW m \in Node, BucketOf(m) = b, m # Last(b)
      PROVE  <<b, m[2] + 1>> \in Node
  BY <1>1, SizeAssumption DEF Node, BucketOf, Last
<1>2. ASSUME NEW m \in Node PROVE Chained(f, b, n)[m] \in Node
  BY <1>1, <1>2 DEF Chained
<1> QED BY <1>2 DEF Chained

LEMMA InitTyped == Init => Typed
<1> SUFFICES ASSUME Init PROVE Typed
  OBVIOUS
<1> USE DEF Init
<1>1. 0 \in Bucket /\ 0 \in Elem
  BY SizeAssumption, TagsAssumption, NodesOf DEF Bucket, Elem
<1>2. First(0) \in Node
  BY <1>1, BucketNodes
<1>3. next \in [Node -> Node]
  BY <1>1, <1>2, LinksType
<1>4. btlist \in Seq(Bucket) /\ btlist # <<>>
  BY <1>1
<1> QED BY <1>1, <1>2, <1>3, <1>4 DEF Typed, TypeOK, Probed

LEMMA TypedStep == Typed /\ [Next]_vars => Typed'
<1> SUFFICES ASSUME Typed, [Next]_vars PROVE Typed'
  OBVIOUS
<1>0. TypeOK /\ Probed
  BY DEF Typed
<1>1. Newest \in Bucket /\ First(Newest) \in Node /\ Last(Newest) \in Node
  BY <1>0, FrontOf, BucketNodes DEF TypeOK, Newest
<1>2. \A k \in Elem : (k + 1) % Tags \in Elem
  BY TagsAssumption DEF Elem
<1>3. CASE PushTest \/ ProbeFirst \/ ProbeLast \/ IncFails
  BY <1>0, <1>3 DEF Typed, TypeOK, Probed, PushTest, ProbeFirst, ProbeLast,
       IncFails, Producer, queue, history, LastUnused, Newest
<1>4. ASSUME NEW b \in Bucket, Inc(b) PROVE Typed'
  <2>1. next[tail] \in Node /\ First(b) \in Node
    BY <1>0, BucketNodes DEF TypeOK
  <2>2. next' \in [Node -> Node]
    BY <2>1, <1>0, <1>4, LinksType DEF TypeOK, Inc, Spliced
  <2>3. val' \in [Node -> Elem \cup {NULL}]
    BY <1>0, <1>4 DEF TypeOK, Inc, Blank
  <2>4. bthead' \in [Bucket -> Node]
    BY <1>0, <1>4 DEF TypeOK, Inc, SplicedBehind
  <2>5. btlist' \in Seq(Bucket) /\ btlist' # <<>>
    BY <1>0, <1>4, PushFront DEF TypeOK, Inc
  <2> QED BY <2>2, <2>3, <2>4, <2>5, <1>0, <1>4
        DEF Typed, TypeOK, Probed, Inc, Producer, history
<1>5. CASE Dec
  <2>1. Len(btlist) > 1
    BY <1>0, <1>5 DEF Probed, Dec, Producer
  <2>2. btlist' \in Seq(Bucket) /\ btlist' # <<>>
    BY <2>1, <1>0, <1>5, DropFront DEF TypeOK, Dec
  <2>3. next' \in [Node -> Node]
    BY <1>0, <1>1, <1>5 DEF TypeOK, Dec, Unlinked
  <2> QED BY <2>2, <2>3, <1>0, <1>5 DEF Typed, TypeOK, Probed, Dec, Producer, history
<1>6. CASE Store
  BY <1>0, <1>6 DEF Typed, TypeOK, Probed, Store, Producer, history
<1>7. CASE Publish
  BY <1>0, <1>2, <1>7 DEF Typed, TypeOK, Probed, Publish, Producer
<1>8. CASE Peek \/ PopTake
  BY <1>0, <1>8 DEF Typed, TypeOK, Probed, Peek, PopTake, Consumer, queue, history, Newest
<1>9. CASE PopClear
  BY <1>0, <1>1, <1>9 DEF Typed, TypeOK, Probed, PopClear, Cleared, Consumer, history, Newest
<1>10. CASE PopAdvance
  BY <1>0, <1>2, <1>10 DEF Typed, TypeOK, Probed, PopAdvance, Consumer, Newest
<1>11. CASE UNCHANGED vars
  BY <1>0, <1>11 DEF Typed, TypeOK, Probed, vars, queue, history, Newest
<1> QED BY <1>3, <1>4, <1>5, <1>6, <1>7, <1>8, <1>9, <1>10, <1>11
      DEF Next, ProducerNext, ConsumerNext

\* Every variable keeps its type.
THEOREM TypeCorrect == Spec => []TypeOK
<1>1. Typed => TypeOK
  BY DEF Typed
<1> QED BY InitTyped, TypedStep, <1>1, PTL DEF Spec

----------------------------------------------------------------------------
(* The ring: what eg_cq_inc splices in, eg_cq_dec cuts out again. *)

Height == Len(btlist)

\* The j-th of the buckets that are still allocated, the oldest first.
At(j) == btlist[Height + 1 - j]

\* The nodes of the oldest j buckets.
Level(j) == { n \in Node : \E i \in 1 .. j : At(i) = BucketOf(n) }

\* The links N[j + 1] are the links N[j] with bucket b, the next on the
\* stack, spliced in behind bthead[b].
SplicedIn(N, j, b) ==
  /\ bthead[b] \in Level(j)
  /\ N[j + 1][bthead[b]] = First(b)
  /\ N[j][bthead[b]] = N[j + 1][Last(b)]
  /\ \A n \in Level(j) : n # bthead[b] => N[j + 1][n] = N[j][n]
  /\ \A i \in 1 .. Size : i # Size => N[j + 1][<<b, i>>] = <<b, i + 1>>

\* N[j] are the links at the time the j-th bucket was the newest one: a ring
\* of the oldest j buckets each.
Linked(N) ==
  /\ \A j \in 1 .. Height : \E f : IsRing(N[j], Level(j), Size * j, f)
  /\ \A j \in 1 .. Height - 1 : SplicedIn(N, j, At(j + 1))
  /\ \A n \in Level(Height) : next[n] = N[Height][n]

RingInv ==
  /\ \A i, j \in 1 .. Height : At(i) = At(j) => i = j
  /\ \E N : Linked(N)
  /\ Live(tail)

LEMMA Heights ==
  ASSUME TypeOK
  PROVE  /\ Height \in Nat \ {0}
         /\ \A j \in 1 .. Height : At(j) \in Bucket
         /\ At(Height) = Newest /\ Newest \in Bucket
  BY FrontOf DEF TypeOK, Height, At, Newest

\* The highest level is the whole ring.
LEMMA TopLevel == TypeOK => Level(Height) = { n \in Node : Live(n) }
<1> SUFFICES ASSUME TypeOK PROVE Level(Height) = { n \in Node : Live(n) }
  OBVIOUS
<1>1. Height \in Nat /\ DOMAIN btlist = 1 .. Height
  BY DEF TypeOK, Height
<1>2. ASSUME NEW n \in Node, n \in Level(Height) PROVE Live(n)
  <2>1. PICK i \in 1 .. Height : btlist[Height + 1 - i] = BucketOf(n)
    BY <1>2 DEF Level, At
  <2>2. Height + 1 - i \in DOMAIN btlist
    BY <1>1
  <2> QED BY <2>1, <2>2 DEF Live, Allocated
<1>3. ASSUME NEW n \in Node, Live(n) PROVE n \in Level(Height)
  <2>1. PICK i \in DOMAIN btlist : btlist[i] = BucketOf(n)
    BY <1>3 DEF Live, Allocated
  <2>2. Height + 1 - i \in 1 .. Height /\ Height + 1 - (Height + 1 - i) = i
    BY <1>1
  <2>3. At(Height + 1 - i) = BucketOf(n)
    BY <2>1, <2>2 DEF At
  <2> QED BY <2>2, <2>3 DEF Level
<1> QED BY <1>2, <1>3 DEF Level

LEMMA TopLevelNext == (TypeOK => Level(Height) = { n \in Node : Live(n) })'
  BY TopLevel, PTL

\* The ring in use.
LEMMA RingInUse ==
  ASSUME TypeOK, RingInv
  PROVE  \E f : IsRing(next, { n \in Node : Live(n) }, Capity, f)
<1>1. PICK N : Linked(N)
  BY DEF RingInv
<1>2. PICK f : IsRing(N[Height], Level(Height), Size * Height, f)
  BY <1>1, Heights DEF Linked
<1>3. \A n \in Level(Height) : next[n] = N[Height][n]
  BY <1>1 DEF Linked
<1>4. IsRing(next, Level(Height), Size * Height, f)
  BY <1>2, <1>3, RingLinks
<1> QED BY <1>4, TopLevel DEF Capity, Height

LEMMA RingInUseNext ==
  ASSUME TypeOK', RingInv'
  PROVE  \E f : IsRing(next', { n \in Node : Live(n)' }, Capity', f)
<1>1. (TypeOK /\ RingInv => \E f : IsRing(next, { n \in Node : Live(n) }, Capity, f))'
  BY RingInUse, PTL
<1> QED BY <1>1

\* The nodes of a bucket, in the order of their links.
Chain(b) == [ k \in 1 .. Size |-> <<b, k>> ]
NodesIn(b) == { n \in Node : BucketOf(n) = b }

LEMMA ChainNodes ==
  ASSUME NEW b \in Bucket
  PROVE  /\ Lists(Chain(b), Size, NodesIn(b))
         /\ Chain(b) \in [1 .. Size -> NodesIn(b)]
         /\ \A i, j \in 1 .. Size : Chain(b)[i] = Chain(b)[j] => i = j
         /\ \A n \in NodesIn(b) : \E i \in 1 .. Size : Chain(b)[i] = n
         /\ Chain(b)[1] = First(b) /\ Chain(b)[Size] = Last(b)
<1>1. /\ Chain(b) \in [1 .. Size -> NodesIn(b)]
      /\ \A i, j \in 1 .. Size : Chain(b)[i] = Chain(b)[j] => i = j
      /\ \A n \in NodesIn(b) : \E i \in 1 .. Size : Chain(b)[i] = n
      /\ Chain(b)[1] = First(b) /\ Chain(b)[Size] = Last(b)
  BY SizeAssumption DEF Chain, NodesIn, Node, BucketOf, First, Last
<1> QED BY <1>1, SizeAssumption DEF Lists

LEMMA ChainLinks ==
  ASSUME NEW f \in [Node -> Node], NEW b \in Bucket, NEW n \in Node
  PROVE  /\ \A i \in 1 .. Size : Chained(f, b, n)[Chain(b)[i]]
                                   = IF i = Size THEN n ELSE Chain(b)[i + 1]
         /\ \A m \in Node : BucketOf(m) # b => Chained(f, b, n)[m] = f[m]
<1>1. \A m \in Node : BucketOf(m) # b => Chained(f, b, n)[m] = f[m]
  BY DEF Chained
<1>2. ASSUME NEW i \in 1 .. Size
      PROVE  Chained(f, b, n)[Chain(b)[i]] = IF i = Size THEN n ELSE Chain(b)[i + 1]
  <2>1. Chain(b)[i] = <<b, i>> /\ <<b, i>> \in Node /\ BucketOf(<<b, i>>) = b
    BY DEF Chain, Node, BucketOf
  <2>2. <<b, i>> = Last(b) <=> i = Size
    BY DEF Last
  <2>3. Chained(f, b, n)[<<b, i>>] = IF i = Size THEN n ELSE <<b, i + 1>>
    BY <2>1, <2>2 DEF Chained
  <2>4. i # Size => Chain(b)[i + 1] = <<b, i + 1>>
    BY SizeAssumption DEF Chain
  <2> QED BY <2>1, <2>3, <2>4
<1> QED BY <1>1, <1>2

LEMMA InitRing == Init => RingInv
<1> SUFFICES ASSUME Init PROVE RingInv
  OBVIOUS
<1>1. 0 \in Bucket /\ First(0) \in Node /\ Size \in Nat \ {0}
  BY BucketNodes, SizeAssumption DEF Bucket
<1>2. Height = 1 /\ At(1) = 0
  BY DEF Init, Height, At
<1>3. Level(1) = NodesIn(0)
  BY <1>2 DEF Level, NodesIn
<1>4. \A i \in 1 .. Size : next[Chain(0)[i]] = IF i = Size THEN First(0) ELSE Chain(0)[i + 1]
  BY <1>1, ChainLinks DEF Init
<1> DEFINE f == [i \in 0 .. Size - 1 |-> Chain(0)[i + 1]]
<1>5. IsRing(next, NodesIn(0), Size, f)
  <2>1. \A i \in 0 .. Size - 1 : i + 1 \in 1 .. Size /\ f[i] = Chain(0)[i + 1]
    BY <1>1
  <2>2. f \in [0 .. Size - 1 -> NodesIn(0)]
    BY <1>1, ChainNodes
  <2>3. f[0] = First(0)
    BY <2>1, <1>1, ChainNodes
  <2> HIDE DEF f
  <2>4. \A i \in 0 .. Size - 1 : next[f[i]] = IF i = Size - 1 THEN f[0] ELSE f[i + 1]
    BY <2>1, <2>3, <1>1, <1>4
  <2>5. \A i, j \in 0 .. Size - 1 : f[i] = f[j] => i = j
    <3>1. \A i, j \in 1 .. Size : Chain(0)[i] = Chain(0)[j] => i = j
      BY <1>1, ChainNodes
    <3> QED BY <2>1, <3>1, <1>1
  <2>6. ASSUME NEW n \in NodesIn(0) PROVE \E i \in 0 .. Size - 1 : f[i] = n
    <3>1. PICK i \in 1 .. Size : Chain(0)[i] = n
      BY <1>1, ChainNodes
    <3>2. i - 1 \in 0 .. Size - 1 /\ (i - 1) + 1 = i
      BY <1>1
    <3> QED BY <2>1, <3>1, <3>2
  <2> QED BY <2>2, <2>4, <2>5, <2>6, <1>1 DEF IsRing
<1> HIDE DEF f
<1> DEFINE N == [j \in 1 .. 1 |-> next]
<1>6. N[1] = next /\ Size * 1 = Size
  BY <1>1
<1> HIDE DEF N
<1>7. Linked(N)
  BY <1>2, <1>3, <1>5, <1>6 DEF Linked
<1>8. Live(tail)
  BY DEF Init, Live, Allocated, First, BucketOf
<1>9. \A i, j \in 1 .. Height : At(i) = At(j) => i = j
  BY <1>2
<1> QED BY <1>7, <1>8, <1>9 DEF RingInv

\* Where a bucket comes on the stack, and which links a step of it changes.
LEMMA IncStack ==
  ASSUME TypeOK, NEW b \in Bucket, Inc(b), NEW h, h = Height
  PROVE  /\ Height' = h + 1 /\ At(h + 1)' = b
         /\ \A j \in 1 .. h : At(j)' = At(j)
         /\ \A j \in 1 .. h : Level(j)' = Level(j)
         /\ Level(h + 1)' = Level(h) \cup NodesIn(b)
<1>1. h \in Nat \ {0}
  BY Heights
<1>2. /\ Height' = h + 1 /\ btlist'[1] = b
      /\ \A i \in 1 .. h : btlist'[i + 1] = btlist[i]
  BY PushFront DEF TypeOK, Inc, Height
<1>3. At(h + 1)' = b
  BY <1>1, <1>2 DEF At
<1>4. ASSUME NEW j \in 1 .. h PROVE At(j)' = At(j)
  <2>1. At(j)' = btlist'[(h + 1 - j) + 1] /\ h + 1 - j \in 1 .. h
    BY <1>1, <1>2 DEF At
  <2> QED BY <2>1, <1>2 DEF At
<1>5. ASSUME NEW j \in 1 .. h PROVE Level(j)' = Level(j)
  <2>1. \A i \in 1 .. j : At(i)' = At(i)
    BY <1>1, <1>4
  <2> QED BY <2>1 DEF Level
<1>6. Level(h + 1)' = Level(h) \cup NodesIn(b)
  <2>1. \A i \in 1 .. h + 1 : i \in 1 .. h \/ i = h + 1
    BY <1>1
  <2>2. \A i \in 1 .. h : i \in 1 .. h + 1
    BY <1>1
  <2>3. h + 1 \in 1 .. h + 1
    BY <1>1
  <2>4. ASSUME NEW n \in Node
        PROVE (\E i \in 1 .. h + 1 : At(i)' = BucketOf(n))
                <=> (\E i \in 1 .. h : At(i) = BucketOf(n)) \/ BucketOf(n) = b
    BY <2>1, <2>2, <2>3, <1>3, <1>4
  <2> QED BY <2>4 DEF Level, NodesIn
<1> QED BY <1>2, <1>3, <1>4, <1>5, <1>6

LEMMA DecStack ==
  ASSUME TypeOK, Height > 1, Dec, NEW h, h = Height
  PROVE  /\ Height' = h - 1
         /\ \A j \in 1 .. h - 1 : At(j)' = At(j)
         /\ \A j \in 1 .. h - 1 : Level(j)' = Level(j)
<1>1. h \in Nat \ {0}
  BY Heights
<1>2. /\ Height' = h - 1
      /\ \A i \in 1 .. h - 1 : btlist'[i] = btlist[i + 1]
  BY DropFront DEF TypeOK, Dec, Height
<1>3. ASSUME NEW j \in 1 .. h - 1 PROVE At(j)' = At(j)
  <2>1. At(j)' = btlist'[h - j] /\ h - j \in 1 .. h - 1 /\ h + 1 - j = (h - j) + 1
    BY <1>1, <1>2 DEF At
  <2> QED BY <2>1, <1>2 DEF At
<1>4. ASSUME NEW j \in 1 .. h - 1 PROVE Level(j)' = Level(j)
  <2>1. \A i \in 1 .. j : At(i)' = At(i)
    BY <1>1, <1>3
  <2> QED BY <2>1 DEF Level
<1> QED BY <1>2, <1>3, <1>4

\* The levels of the stack are nested, and a bucket is on none below its own.
LEMMA LevelsNested ==
  ASSUME TypeOK, \A i, j \in 1 .. Height : At(i) = At(j) => i = j,
         NEW j \in 1 .. Height
  PROVE  /\ Level(j) \subseteq Level(Height)
         /\ NodesIn(At(j)) \subseteq Level(j)
         /\ \A i \in 1 .. j - 1 : Level(i) \cap NodesIn(At(j)) = {}
         /\ j > 1 => Level(j) = Level(j - 1) \cup NodesIn(At(j))
<1>1. Height \in Nat
  BY Heights
<1>2. Level(j) \subseteq Level(Height)
  BY <1>1 DEF Level
<1>3. NodesIn(At(j)) \subseteq Level(j)
  BY <1>1 DEF Level, NodesIn
<1>4. ASSUME NEW i \in 1 .. j - 1, NEW n \in Level(i), n \in NodesIn(At(j)) PROVE FALSE
  <2>1. PICK k \in 1 .. i : At(k) = BucketOf(n)
    BY DEF Level
  <2>2. k \in 1 .. Height /\ k # j
    BY <1>1
  <2> QED BY <2>1, <2>2, <1>4 DEF NodesIn
<1>5. ASSUME j > 1 PROVE Level(j) = Level(j - 1) \cup NodesIn(At(j))
  <2>1. \A i \in 1 .. j : i \in 1 .. j - 1 \/ i = j
    BY <1>1
  <2>2. /\ j \in 1 .. j
        /\ \A i \in 1 .. j - 1 : i \in 1 .. j
    BY <1>1
  <2> QED BY <2>1, <2>2 DEF Level, NodesIn
<1> QED BY <1>2, <1>3, <1>4, <1>5

\* What eg_cq_inc makes of the links nx when t is the tail.
SplicedAt(nx, b, t) == [Chained(nx, b, nx[t]) EXCEPT ![t] = First(b)]

\* The links eg_cq_inc leaves alone and the ones it sets.
LEMMA SpliceLinks ==
  ASSUME NEW nx \in [Node -> Node], NEW b \in Bucket, NEW t \in Node, BucketOf(t) # b
  PROVE  /\ SplicedAt(nx, b, t)[t] = First(b)
         /\ SplicedAt(nx, b, t)[Last(b)] = nx[t]
         /\ \A n \in Node : BucketOf(n) # b /\ n # t => SplicedAt(nx, b, t)[n] = nx[n]
         /\ \A i \in 1 .. Size : SplicedAt(nx, b, t)[Chain(b)[i]]
                                   = IF i = Size THEN nx[t] ELSE Chain(b)[i + 1]
<1> DEFINE ch == Chained(nx, b, nx[t])
<1>1. nx[t] \in Node
  OBVIOUS
<1>2. ch \in [Node -> Node]
  BY <1>1, LinksType
<1>3. Size \in Nat \ {0}
  BY SizeAssumption
<1>4. /\ \A i \in 1 .. Size : ch[Chain(b)[i]]
                               = IF i = Size THEN nx[t] ELSE Chain(b)[i + 1]
      /\ \A m \in Node : BucketOf(m) # b => ch[m] = nx[m]
  BY <1>1, ChainLinks
<1> HIDE DEF ch
<1>5. /\ SplicedAt(nx, b, t)[t] = First(b)
      /\ \A m \in Node : m # t => SplicedAt(nx, b, t)[m] = ch[m]
  BY <1>1, <1>2 DEF ch, SplicedAt
<1>6. ASSUME NEW i \in 1 .. Size
      PROVE  Chain(b)[i] \in Node /\ Chain(b)[i] # t
  <2>1. Chain(b)[i] \in NodesIn(b)
    BY ChainNodes
  <2> QED BY <2>1 DEF NodesIn
<1>7. \A i \in 1 .. Size : SplicedAt(nx, b, t)[Chain(b)[i]]
                             = IF i = Size THEN nx[t] ELSE Chain(b)[i + 1]
  BY <1>4, <1>5, <1>6
<1>8. Chain(b)[Size] = Last(b)
  BY ChainNodes
<1>9. SplicedAt(nx, b, t)[Last(b)] = nx[t]
  BY <1>3, <1>7, <1>8
<1> QED BY <1>4, <1>5, <1>7, <1>9

\* A ring with a new bucket spliced in behind its node number p.
LEMMA SpliceRing ==
  ASSUME NEW b \in Bucket, NEW nx \in [Node -> Node], NEW S, S \subseteq Node,
         \A n \in S : BucketOf(n) # b,
         NEW L, NEW f, IsRing(nx, S, L, f), NEW p \in 0 .. L - 1
  PROVE  IsRing(SplicedAt(nx, b, f[p]), S \cup NodesIn(b), L + Size,
                Inserted(f, L, p, Chain(b), Size))
<1> DEFINE ny == SplicedAt(nx, b, f[p])
<1>1. f[p] \in S /\ f[p] \in Node /\ BucketOf(f[p]) # b
  BY DEF IsRing
<1>2. /\ ny[f[p]] = First(b)
      /\ \A n \in Node : BucketOf(n) # b /\ n # f[p] => ny[n] = nx[n]
      /\ \A i \in 1 .. Size : ny[Chain(b)[i]]
                                = IF i = Size THEN nx[f[p]] ELSE Chain(b)[i + 1]
  BY <1>1, SpliceLinks
<1> HIDE DEF ny
<1>3. Lists(Chain(b), Size, NodesIn(b)) /\ Chain(b)[1] = First(b)
  BY ChainNodes
<1>4. \A n \in S : ny[n] = IF n = f[p] THEN Chain(b)[1] ELSE nx[n]
  BY <1>2, <1>3
<1>5. NodesIn(b) \cap S = {}
  BY DEF NodesIn
<1>6. IsRing(ny, S \cup NodesIn(b), L + Size, Inserted(f, L, p, Chain(b), Size))
  BY <1>2, <1>3, <1>4, <1>5, InsertRing
<1> QED BY <1>6 DEF ny

LEMMA IncRing ==
  ASSUME TypeOK, RingInv, NEW b \in Bucket, Inc(b)
  PROVE  RingInv'
<1>1. PICK h \in Nat \ {0} : h = Height
  BY Heights
<1>2. PICK N : Linked(N)
  BY DEF RingInv
<1>3. \A i, j \in 1 .. h : At(i) = At(j) => i = j
  BY <1>1 DEF RingInv
<1>4. /\ Height' = h + 1 /\ At(h + 1)' = b
      /\ \A j \in 1 .. h : At(j)' = At(j)
      /\ \A j \in 1 .. h : Level(j)' = Level(j)
      /\ Level(h + 1)' = Level(h) \cup NodesIn(b)
  BY <1>1, IncStack
<1>5. Level(h) = {n \in Node : Live(n)}
  BY <1>1, TopLevel
<1>6. b \notin Allocated /\ NodesIn(b) \cap Level(h) = {} /\ tail \in Level(h)
  BY <1>5 DEF Inc, NodesIn, Live, RingInv, TypeOK
<1>7. \A j \in 1 .. h : At(j) # b
  <2>1. ASSUME NEW j \in 1 .. h PROVE At(j) \in Allocated
    <3>1. Height + 1 - j \in DOMAIN btlist
      BY <1>1 DEF Height, TypeOK
    <3> QED BY <3>1 DEF At, Allocated
  <2> QED BY <2>1, <1>6
<1>8. PICK f : IsRing(N[h], Level(h), Size * h, f)
  BY <1>1, <1>2 DEF Linked
<1>9. \A n \in Level(h) : next[n] = N[h][n]
  BY <1>1, <1>2 DEF Linked
<1>10. IsRing(next, Level(h), Size * h, f)
  BY <1>8, <1>9, RingLinks
<1>11. PICK p \in 0 .. Size * h - 1 : f[p] = tail
  BY <1>6, <1>10 DEF IsRing
<1>12. next' = SplicedAt(next, b, f[p])
  BY <1>11 DEF Inc, Spliced, SplicedAt
<1>13. Level(h) \subseteq Node /\ next \in [Node -> Node]
  BY DEF Level, TypeOK
<1>14. IsRing(next', Level(h) \cup NodesIn(b), Size * h + Size,
              Inserted(f, Size * h, p, Chain(b), Size))
  <2> DEFINE S == Level(h)
             L == Size * h
  <2>1. /\ IsRing(next, S, L, f) /\ p \in 0 .. L - 1
        /\ S \subseteq Node /\ \A n \in S : BucketOf(n) # b
    BY <1>6, <1>10, <1>11, <1>13 DEF NodesIn
  <2> HIDE DEF S, L
  <2>2. IsRing(SplicedAt(next, b, f[p]), S \cup NodesIn(b), L + Size,
               Inserted(f, L, p, Chain(b), Size))
    BY <2>1, <1>13, SpliceRing
  <2> QED BY <2>2, <1>12 DEF S, L
<1>15. /\ next'[tail] = First(b) /\ next'[Last(b)] = next[tail]
       /\ \A n \in Level(h) : n # tail => next'[n] = next[n]
       /\ \A i \in 1 .. Size : i # Size => next'[<<b, i>>] = <<b, i + 1>>
  <2>1. \A n \in Level(h) : n \in Node /\ BucketOf(n) # b
    BY <1>6, <1>13 DEF NodesIn
  <2>2. /\ next'[tail] = First(b) /\ next'[Last(b)] = next[tail]
        /\ \A n \in Level(h) : n # tail => next'[n] = next[n]
        /\ \A i \in 1 .. Size : i # Size => next'[Chain(b)[i]] = Chain(b)[i + 1]
    BY <2>1, <1>6, <1>11, <1>12, <1>13, SpliceLinks
  <2>3. \A i \in 1 .. Size : Chain(b)[i] = <<b, i>> /\ (i # Size => i + 1 \in 1 .. Size)
    BY SizeAssumption DEF Chain
  <2> QED BY <2>2, <2>3
<1>16. \E g : IsRing(next', Level(h + 1)', Size * (h + 1), g)
  BY <1>4, <1>14, NodesOf
<1>17. PICK M : M[h + 1] = next' /\ \A j \in 1 .. h : M[j] = N[j]
  <2> DEFINE M == [j \in 1 .. h + 1 |-> IF j = h + 1 THEN next' ELSE N[j]]
  <2>1. M[h + 1] = next' /\ \A j \in 1 .. h : M[j] = N[j]
    BY <1>1
  <2> QED BY <2>1
<1>18. bthead'[b] = tail /\ \A c \in Bucket : c # b => bthead'[c] = bthead[c]
  BY DEF Inc, SplicedBehind, TypeOK
<1>19. ASSUME NEW j \in 1 .. h + 1 PROVE \E g : IsRing(M[j], Level(j)', Size * j, g)
  <2>1. CASE j = h + 1
    BY <2>1, <1>16, <1>17
  <2>2. CASE j # h + 1
    <3>1. j \in 1 .. h
      BY <2>2, <1>1
    <3>2. \E g : IsRing(N[j], Level(j), Size * j, g)
      BY <3>1, <1>1, <1>2 DEF Linked
    <3> QED BY <3>1, <3>2, <1>4, <1>17
  <2> QED BY <2>1, <2>2
<1>20. ASSUME NEW j \in 1 .. h PROVE SplicedIn(M, j, At(j + 1))'
  <2>1. Level(j)' = Level(j) /\ M[j] = N[j]
    BY <1>4, <1>17
  <2>2. CASE j = h
    <3>1. bthead'[b] \in Level(j)'
      BY <2>1, <2>2, <1>6, <1>18
    <3>2. M[j + 1][bthead'[b]] = First(b)
      BY <2>2, <1>15, <1>17, <1>18
    <3>3. M[j][bthead'[b]] = M[j + 1][Last(b)]
      BY <2>1, <2>2, <1>6, <1>9, <1>15, <1>17, <1>18
    <3>4. \A n \in Level(j)' : n # bthead'[b] => M[j + 1][n] = M[j][n]
      BY <2>1, <2>2, <1>9, <1>15, <1>17, <1>18
    <3>5. At(j + 1)' = b /\ First(b)' = First(b) /\ Last(b)' = Last(b)
      BY <2>2, <1>4 DEF First, Last
    <3>6. \A i \in 1 .. Size : i # Size => M[j + 1][<<b, i>>] = <<b, i + 1>>
      BY <2>2, <1>15, <1>17
    <3> QED BY <3>1, <3>2, <3>3, <3>4, <3>5, <3>6 DEF SplicedIn
  <2>3. CASE j # h
    <3>1. j + 1 \in 1 .. h /\ j \in 1 .. h - 1
      BY <2>3, <1>1
    <3>2. SplicedIn(N, j, At(j + 1))
      BY <3>1, <1>1, <1>2 DEF Linked
    <3>3. At(j + 1)' = At(j + 1) /\ At(j + 1) # b /\ M[j + 1] = N[j + 1]
      BY <3>1, <1>4, <1>7, <1>17
    <3>4. bthead'[At(j + 1)] = bthead[At(j + 1)]
      BY <3>1, <3>3, <1>1, <1>18, Heights
    <3> QED BY <2>1, <3>2, <3>3, <3>4 DEF SplicedIn, First, Last
  <2> QED BY <2>2, <2>3
<1>21. Linked(M)'
  <2>1. Height' - 1 = h
    BY <1>1, <1>4
  <2> QED BY <2>1, <1>4, <1>17, <1>19, <1>20 DEF Linked
<1>22. ASSUME NEW i \in 1 .. h + 1, NEW j \in 1 .. h + 1, At(i)' = At(j)' PROVE i = j
  <2>1. (i \in 1 .. h \/ i = h + 1) /\ (j \in 1 .. h \/ j = h + 1)
    BY <1>1
  <2> QED BY <2>1, <1>3, <1>4, <1>7, <1>22
<1>23. Live(tail)'
  <2>1. Allocated \subseteq Allocated'
    <3>1. ASSUME NEW i \in DOMAIN btlist PROVE btlist[i] \in Allocated'
      <4>1. i \in 1 .. Len(btlist) /\ Len(btlist) \in Nat
        BY DEF TypeOK
      <4>2. btlist'[i + 1] = btlist[i] /\ Len(btlist') = Len(btlist) + 1 /\ btlist' \in Seq(Bucket)
        BY <4>1, PushFront DEF Inc, TypeOK
      <4>3. i + 1 \in DOMAIN btlist'
        BY <4>1, <4>2
      <4> QED BY <4>2, <4>3 DEF Allocated
    <3> QED BY <3>1 DEF Allocated
  <2> QED BY <2>1 DEF Inc, Live, RingInv
<1> QED BY <1>4, <1>21, <1>22, <1>23 DEF RingInv

LEMMA DecRing ==
  ASSUME TypeOK, Probed, RingInv, Dec
  PROVE  /\ RingInv'
         /\ \A n \in Node : Live(n)' <=> Live(n) /\ BucketOf(n) # Newest
<1>1. PICK h \in Nat \ {0} : h = Height
  BY Heights
<1>2. PICK N : Linked(N)
  BY DEF RingInv
<1>3. \A i, j \in 1 .. h : At(i) = At(j) => i = j
  BY <1>1 DEF RingInv
<1>4. h > 1 /\ BucketOf(tail) # Newest
  BY <1>1 DEF Dec, Producer, Probed, Height
<1>5. /\ Height' = h - 1
      /\ \A j \in 1 .. h - 1 : At(j)' = At(j)
      /\ \A j \in 1 .. h - 1 : Level(j)' = Level(j)
  BY <1>1, <1>4, DecStack
<1>6. At(h) = Newest /\ Newest \in Bucket
  BY <1>1, Heights
<1>7. h - 1 \in 1 .. h - 1 /\ h \in 1 .. h /\ h - 1 \in 1 .. h /\ (h - 1) + 1 = h
  BY <1>4
<1>8. /\ Level(h) = Level(h - 1) \cup NodesIn(Newest)
      /\ Level(h - 1) \cap NodesIn(Newest) = {}
  BY <1>1, <1>3, <1>4, <1>6, <1>7, LevelsNested
<1>9. SplicedIn(N, h - 1, Newest)
  BY <1>1, <1>2, <1>6, <1>7 DEF Linked
<1>10. \A n \in Level(h) : next[n] = N[h][n]
  BY <1>1, <1>2 DEF Linked
<1>11. Last(Newest) \in NodesIn(Newest)
  BY <1>6, BucketNodes DEF NodesIn, Last, BucketOf
<1>12. \A n \in Level(h - 1) : next'[n] = N[h - 1][n]
  <2> DEFINE x == bthead[Newest]
  <2>1. /\ x \in Level(h - 1) /\ N[h - 1][x] = N[h][Last(Newest)]
        /\ \A n \in Level(h - 1) : n # x => N[h][n] = N[h - 1][n]
    BY <1>7, <1>9 DEF SplicedIn
  <2>2. x \in Node
    BY <1>6 DEF TypeOK
  <2> HIDE DEF x
  <2>3. /\ next'[x] = next[Last(Newest)]
        /\ \A n \in Node : n # x => next'[n] = next[n]
    BY <2>2 DEF Dec, Unlinked, TypeOK, x
  <2>4. \A n \in Level(h - 1) : n \in Node /\ n \in Level(h)
    BY <1>8 DEF Level
  <2>5. next[Last(Newest)] = N[h][Last(Newest)]
    BY <1>8, <1>10, <1>11
  <2> QED BY <2>1, <2>3, <2>4, <2>5, <1>10
<1>13. Linked(N)'
  <2>1. ASSUME NEW j \in 1 .. h - 1 PROVE \E f : IsRing(N[j], Level(j)', Size * j, f)
    <3>1. j \in 1 .. h
      BY <1>4
    <3> QED BY <3>1, <1>1, <1>2, <1>5 DEF Linked
  <2>2. ASSUME NEW j \in 1 .. (h - 1) - 1 PROVE SplicedIn(N, j, At(j + 1))'
    <3>1. j \in 1 .. h - 1 /\ j + 1 \in 1 .. h - 1
      BY <1>4
    <3>2. SplicedIn(N, j, At(j + 1))
      BY <3>1, <1>1, <1>2 DEF Linked
    <3>3. At(j + 1)' = At(j + 1) /\ Level(j)' = Level(j) /\ bthead' = bthead
      BY <3>1, <1>5 DEF Dec
    <3> QED BY <3>2, <3>3 DEF SplicedIn, First, Last
  <2>3. \A n \in Level(h - 1)' : next'[n] = N[h - 1][n]
    BY <1>5, <1>7, <1>12
  <2> QED BY <2>1, <2>2, <2>3, <1>5 DEF Linked
<1>14. \A i, j \in 1 .. Height' : At(i)' = At(j)' => i = j
  <2>1. \A i \in 1 .. h - 1 : i \in 1 .. h
    BY <1>4
  <2> QED BY <2>1, <1>3, <1>5
<1>15. TypeOK'
  BY TypedStep DEF Typed, Next, ProducerNext
<1>16. ASSUME NEW n \in Node PROVE Live(n)' <=> Live(n) /\ BucketOf(n) # Newest
  <2>1. Live(n) <=> n \in Level(h)
    BY <1>1, TopLevel
  <2>2. Live(n)' <=> n \in Level(Height)'
    BY <1>15, TopLevelNext
  <2>3. Level(Height)' = Level(h - 1)
    BY <1>5, <1>7 DEF Level
  <2> QED BY <2>1, <2>2, <2>3, <1>8 DEF NodesIn
<1>17. Live(tail)'
  BY <1>4, <1>16 DEF RingInv, TypeOK, Dec, Live
<1> QED BY <1>13, <1>14, <1>16, <1>17 DEF RingInv

\* The ring as such changes only with the links and the buckets.
LEMMA RingFrame ==
  ASSUME RingInv, UNCHANGED <<btlist, next, bthead>>
  PROVE  /\ (\A i, j \in 1 .. Height : At(i) = At(j) => i = j)'
         /\ (\E N : Linked(N))'
<1>1. Height' = Height
  BY DEF Height
<1>2. ASSUME NEW j PROVE At(j)' = At(j)
  BY <1>1 DEF At
<1>3. ASSUME NEW j PROVE Level(j)' = Level(j)
  BY <1>2 DEF Level
<1>4. PICK N : Linked(N)
  BY DEF RingInv
<1>5. \A j \in 1 .. Height' : \E f : IsRing(N[j], Level(j)', Size * j, f)
  BY <1>1, <1>3, <1>4 DEF Linked
<1>6. ASSUME NEW j \in 1 .. Height' - 1 PROVE SplicedIn(N, j, At(j + 1))'
  <2>1. SplicedIn(N, j, At(j + 1))
    BY <1>1, <1>4 DEF Linked
  <2> QED BY <2>1, <1>2, <1>3 DEF SplicedIn, First, Last
<1>7. \A n \in Level(Height)' : next'[n] = N[Height'][n]
  <2>1. Level(Height)' = Level(Height)
    BY <1>1, <1>2 DEF Level
  <2> QED BY <2>1, <1>1, <1>4 DEF Linked
<1>8. Linked(N)'
  BY <1>5, <1>6, <1>7 DEF Linked
<1>9. (\A i, j \in 1 .. Height : At(i) = At(j) => i = j)'
  BY <1>1, <1>2 DEF RingInv
<1> QED BY <1>8, <1>9

LEMMA RingStep == Typed /\ RingInv /\ [Next]_vars => RingInv'
<1> SUFFICES ASSUME Typed, RingInv, [Next]_vars PROVE RingInv'
  OBVIOUS
<1>0. TypeOK /\ Probed
  BY DEF Typed
<1>1. ASSUME UNCHANGED <<btlist, next, bthead>>, Live(tail)' PROVE RingInv'
  BY <1>1, RingFrame DEF RingInv
<1>2. ASSUME NEW b \in Bucket, Inc(b) PROVE RingInv'
  BY <1>0, <1>2, IncRing
<1>3. CASE Dec
  BY <1>0, <1>3, DecRing
<1>4. CASE Publish
  <2>1. PICK f : IsRing(next, { n \in Node : Live(n) }, Capity, f)
    BY <1>0, RingInUse
  <2>2. tail \in { n \in Node : Live(n) }
    BY <1>0 DEF RingInv, TypeOK
  <2>3. next[tail] \in { n \in Node : Live(n) }
    BY <2>1, <2>2, RingClosed
  <2>4. Live(tail)'
    BY <2>3, <1>4 DEF Publish, Live, Allocated
  <2> QED BY <2>4, <1>1, <1>4 DEF Publish
<1>5. CASE PushTest \/ ProbeFirst \/ ProbeLast \/ IncFails \/ Store
  BY <1>1, <1>5 DEF PushTest, ProbeFirst, ProbeLast, IncFails, Store, queue,
       RingInv, Live, Allocated
<1>6. CASE ConsumerNext
  BY <1>1, <1>6 DEF ConsumerNext, Peek, PopTake, PopClear, PopAdvance, queue,
       RingInv, Live, Allocated
<1>7. CASE UNCHANGED vars
  BY <1>1, <1>7 DEF vars, queue, RingInv, Live, Allocated
<1> QED BY <1>2, <1>3, <1>4, <1>5, <1>6, <1>7 DEF Next, ProducerNext

\* The function Walk(n) of a ring, in closed form.
LEMMA WalkInUse ==
  ASSUME NEW S, NEW f, IsRing(next, S, Capity, f), NEW n, f[0] = n
  PROVE  Walk(n) = Around(f, Capity)
<1>1. Walk(n) = CHOOSE w : IsWalk(next, Capity, n, w)
  BY DEF Walk, IsWalk
<1>2. /\ IsWalk(next, Capity, n, Around(f, Capity))
      /\ \A u : IsWalk(next, Capity, n, u) => u = Around(f, Capity)
  BY WalkOfRing
<1> QED BY <1>1, <1>2

LEMMA RingInvIntact == TypeOK /\ RingInv => RingIntact
<1> SUFFICES ASSUME TypeOK, RingInv PROVE RingIntact
  OBVIOUS
<1> DEFINE S == { n \in Node : Live(n) }
<1>1. tail \in S
  BY DEF RingInv, TypeOK
<1>a. PICK g : IsRing(next, S, Capity, g)
  BY RingInUse
<1> HIDE DEF S
<1>2. PICK f : IsRing(next, S, Capity, f) /\ f[0] = tail
  BY <1>1, <1>a, RingFrom
<1>3. Walk(tail) = Around(f, Capity)
  BY <1>2, WalkInUse
<1>4. Capity \in Nat \ {0}
  BY <1>2 DEF IsRing
<1>5. /\ \A k \in 0 .. Capity - 1 : Walk(tail)[k] = f[k]
      /\ Walk(tail)[Capity] = tail
  BY <1>2, <1>3, <1>4 DEF Around
<1>6. { f[k] : k \in 0 .. Capity - 1 } = S
  BY <1>2 DEF IsRing
<1>7. { Walk(tail)[k] : k \in 0 .. Capity - 1 } = S
  BY <1>5, <1>6
<1> QED BY <1>5, <1>7 DEF RingIntact, S

\* However eg_cq_inc and eg_cq_dec extend and cut the ring, its links visit
\* every allocated node exactly once and no freed one.
THEOREM RingAlwaysIntact == Spec => []RingIntact
<1>1. Typed => TypeOK
  BY DEF Typed
<1> QED BY <1>1, InitTyped, TypedStep, InitRing, RingStep, RingInvIntact, PTL DEF Spec

----------------------------------------------------------------------------
(* Counting modulo Tags. *)

\* The number of elements that were pushed and whose pop is not yet complete.
Held == IF ct =< pt THEN pt - ct ELSE (pt - ct) + Tags

\* The number of the k-th element after element x.
Plus(x, k) == IF x + k < Tags THEN x + k ELSE (x + k) - Tags

LEMMA TagsPositive == Tags \in Nat \ {0}
<1>1. MaxBuckets + 1 \in Nat \ {0}
  BY SizeAssumption
<1>2. Size * (MaxBuckets + 1) \in Nat
  BY <1>1, NodesOf
<1> QED BY <1>2, TagsAssumption

LEMMA PlusMod ==
  ASSUME NEW x \in Elem, NEW k \in Elem
  PROVE  Plus(x, k) = (x + k) % Tags /\ Plus(x, k) \in Elem
  BY TagsPositive DEF Plus, Elem

LEMMA MinusMod ==
  ASSUME NEW x \in Elem, NEW y \in Elem
  PROVE  (y - x) % Tags = IF x =< y THEN y - x ELSE (y - x) + Tags
  BY TagsPositive DEF Elem

LEMMA NextMod ==
  ASSUME NEW x \in Elem
  PROVE  (x + 1) % Tags = (IF x + 1 = Tags THEN 0 ELSE x + 1) /\ (x + 1) % Tags \in Elem
  BY TagsPositive DEF Elem

LEMMA HeldRange ==
  ASSUME TypeOK
  PROVE  Held \in 0 .. Tags - 1 /\ Plus(ct, Held) = pt
  BY TagsPositive DEF TypeOK, Held, Plus, Elem

\* A push that is complete and a pop that is.
LEMMA HeldPushed ==
  ASSUME NEW p \in Elem, NEW c \in Elem, NEW q \in Elem, q = (p + 1) % Tags,
         NEW h, h = IF c =< p THEN p - c ELSE (p - c) + Tags, h + 1 < Tags
  PROVE  (IF c =< q THEN q - c ELSE (q - c) + Tags) = h + 1
<1>1. q = IF p + 1 = Tags THEN 0 ELSE p + 1
  BY NextMod
<1> QED BY <1>1, TagsPositive DEF Elem

LEMMA HeldPopped ==
  ASSUME NEW p \in Elem, NEW c \in Elem, NEW d \in Elem, d = (c + 1) % Tags,
         NEW h, h = IF c =< p THEN p - c ELSE (p - c) + Tags, h > 0
  PROVE  (IF d =< p THEN p - d ELSE (p - d) + Tags) = h - 1
<1>1. d = IF c + 1 = Tags THEN 0 ELSE c + 1
  BY NextMod
<1> QED BY <1>1, TagsPositive DEF Elem

LEMMA PlusNext ==
  ASSUME NEW c \in Elem, NEW d \in Elem, d = (c + 1) % Tags, NEW k \in Elem, k + 1 < Tags
  PROVE  Plus(d, k) = Plus(c, k + 1)
<1>1. d = IF c + 1 = Tags THEN 0 ELSE c + 1
  BY NextMod
<1> QED BY <1>1, TagsPositive DEF Elem, Plus

\* No bucket is on btlist twice.
LEMMA HeightBound ==
  ASSUME TypeOK, RingInv
  PROVE  Height =< MaxBuckets + 1
<1>1. Height \in Nat \ {0} /\ \A j \in 1 .. Height : At(j) \in Bucket
  BY Heights
<1> SUFFICES ASSUME Height > MaxBuckets + 1 PROVE FALSE
  BY <1>1, SizeAssumption
<1>2. MaxBuckets \in Int /\ Height \in Int /\ 0 =< MaxBuckets /\ 1 =< Height
  BY <1>1, SizeAssumption
<1>3. IsFiniteSet(1 .. Height) /\ Cardinality(1 .. Height) = Height
  BY <1>2, FS_Interval
<1>4. IsFiniteSet(Bucket) /\ Cardinality(Bucket) = MaxBuckets + 1
  BY <1>2, FS_Interval DEF Bucket
<1> DEFINE D == 1 .. Height
           g == [j \in D |-> At(j)]
<1>5. g \in [D -> Bucket] /\ \A j \in D : g[j] = At(j)
  BY <1>1
<1>6. IsFiniteSet(D) /\ Cardinality(Bucket) < Cardinality(D)
  BY <1>2, <1>3, <1>4
<1> HIDE DEF D, g
<1>7. PICK x \in D, y \in D : x # y /\ g[x] = g[y]
  BY <1>4, <1>5, <1>6, FS_PigeonHole
<1>8. x # y /\ At(x) = At(y) /\ x \in 1 .. Height /\ y \in 1 .. Height
  BY <1>5, <1>7 DEF D
<1> QED BY <1>8 DEF RingInv

\* There are enough numbers for the elements a ring can hold.
LEMMA CapityBound ==
  ASSUME TypeOK, RingInv
  PROVE  Capity \in Nat \ {0} /\ Capity < Tags
<1>1. Height \in Nat \ {0}
  BY Heights
<1>2. Height =< MaxBuckets + 1
  BY HeightBound
<1>3. PICK d \in Nat : MaxBuckets + 1 = Height + d
  <2>1. (MaxBuckets + 1) - Height \in Nat
    BY <1>1, <1>2, SizeAssumption
  <2>2. MaxBuckets + 1 = Height + ((MaxBuckets + 1) - Height)
    BY <1>1, SizeAssumption
  <2> QED BY <2>1, <2>2
<1>4. Size * (Height + d) = Size * Height + Size * d
  BY <1>1, SizeAssumption
<1>5. Size * d >= 0
  BY NodesOf, SizeAssumption
<1>6. Size * Height \in Nat \ {0} /\ Size * d \in Int
  BY <1>1, NodesOf, SizeAssumption
<1>7. Size * Height < Tags
  BY <1>3, <1>4, <1>5, <1>6, TagsAssumption
<1> QED BY <1>6, <1>7 DEF Capity, Height

----------------------------------------------------------------------------
(* What the ring holds while it is sound. *)

LiveNodes == { n \in Node : Live(n) }

\* The elements are in the nodes f[0], f[1] ... in the order they were pushed.
Numbered(f) ==
  \A k \in 0 .. Held - 1 : k > 0 \/ cpc # "advance" => val[f[k]] = Plus(ct, k)

\* Every other node is blank but for the one a push is about to publish.
RestBlank(f) ==
  \A n \in LiveNodes : val[n] # NULL =>
     (\E k \in 0 .. Held - 1 : f[k] = n) \/ (n = tail /\ ppc = "publish")

\* f lists the ring from the head on: first the elements in the queue, then
\* the tail, then blank nodes.
Holds(f) ==
  /\ IsRing(next, LiveNodes, Capity, f) /\ f[0] = head
  /\ Held < Capity /\ f[Held] = tail
  /\ Numbered(f) /\ RestBlank(f)
  /\ cpc = "advance" => val[head] = NULL
  /\ cpc # "idle" => Held > 0
  /\ ppc = "publish" => val[tail] = pt

\* A push that found the queue full has the head before it, on the ring.
FullHead == ppc = "inc" /\ ~stray /\ ~wrapped => Live(head)

QueueInv == FullHead /\ (Sound => \E f : Holds(f))

LEMMA InitQueue == Init => QueueInv
<1> SUFFICES ASSUME Init PROVE QueueInv
  OBVIOUS
<1>1. TypeOK /\ RingInv
  BY InitTyped, InitRing DEF Typed
<1>2. PICK g : IsRing(next, LiveNodes, Capity, g)
  BY <1>1, RingInUse DEF LiveNodes
<1>3. head \in LiveNodes /\ head = tail
  BY <1>1 DEF RingInv, LiveNodes, TypeOK, Init
<1>4. PICK f : IsRing(next, LiveNodes, Capity, f) /\ f[0] = head
  BY <1>2, <1>3, RingFrom
<1>5. Held = 0 /\ Capity \in Nat \ {0}
  BY <1>4 DEF Init, Held, IsRing
<1>6. Holds(f)
  <2>1. \A n \in LiveNodes : val[n] = NULL
    BY DEF Init, LiveNodes
  <2>2. cpc = "idle" /\ ppc = "idle"
    BY DEF Init
  <2> QED BY <2>1, <2>2, <1>3, <1>4, <1>5 DEF Holds, Numbered, RestBlank
<1> QED BY <1>6 DEF QueueInv, FullHead, Init

\* A queue that is sound was so before the step.
LEMMA SoundBefore ==
  ASSUME Typed, RingInv, FullHead, [Next]_vars, Sound'
  PROVE  Sound
<1>0. TypeOK /\ Probed
  BY DEF Typed
<1>1. ~stray /\ ~wrapped
  BY <1>0 DEF Next, ProducerNext, ConsumerNext, PushTest, ProbeFirst, ProbeLast, Inc,
       IncFails, Dec, Store, Publish, Peek, PopTake, PopClear, PopAdvance,
       Sound, history, vars, TypeOK
<1>2. ASSUME cpc = "advance" PROVE Live(head)
  <2>1. ASSUME UNCHANGED <<head, cpc, btlist>> PROVE Live(head)
    BY <2>1, <1>2 DEF Sound, Live, Allocated
  <2>2. CASE PushTest \/ ProbeFirst \/ ProbeLast \/ IncFails \/ Store \/ Publish \/ UNCHANGED vars
    BY <2>1, <2>2 DEF PushTest, ProbeFirst, ProbeLast, IncFails, Store, Publish, queue, vars
  <2>3. ASSUME NEW b \in Bucket, Inc(b) PROVE Live(head)
    BY <2>3, <1>1 DEF Inc, Producer, FullHead
  <2>4. CASE Dec
    <3>1. \A n \in Node : Live(n)' <=> Live(n) /\ BucketOf(n) # Newest
      BY <1>0, <2>4, DecRing
    <3>2. Live(head)' <=> head \in Node /\ Live(head) /\ BucketOf(head) # Newest
      BY <3>1, <2>4, <1>0 DEF Dec, TypeOK, Live
    <3> QED BY <3>2, <2>4, <1>2 DEF Sound, Dec
  <2>5. CASE ConsumerNext
    BY <2>5, <1>2 DEF ConsumerNext, Peek, PopTake, PopClear, PopAdvance, Consumer, Sound
  <2> QED BY <2>2, <2>3, <2>4, <2>5 DEF Next, ProducerNext
<1> QED BY <1>1, <1>2 DEF Sound

LEMMA FullHeadStep == Typed /\ RingInv /\ FullHead /\ [Next]_vars => FullHead'
<1> SUFFICES ASSUME Typed, RingInv, FullHead, [Next]_vars, ppc' = "inc", ~stray', ~wrapped'
             PROVE  Live(head)'
  BY DEF FullHead
<1>0. TypeOK
  BY DEF Typed
<1>1. PICK f : IsRing(next, LiveNodes, Capity, f)
  BY <1>0, RingInUse DEF LiveNodes
<1>2. ASSUME NEW n \in LiveNodes PROVE next[n] \in LiveNodes
  BY <1>1, RingClosed
<1>3. CASE PushTest
  <2>1. next[tail] = head /\ UNCHANGED <<head, btlist>>
    BY <1>3 DEF PushTest, Producer, Full, queue
  <2>2. tail \in LiveNodes
    BY <1>0 DEF RingInv, LiveNodes, TypeOK
  <2>3. Live(head)
    BY <2>1, <2>2, <1>2 DEF LiveNodes
  <2> QED BY <2>1, <2>3 DEF Live, Allocated
<1>4. CASE ProbeFirst \/ ProbeLast \/ IncFails \/ Dec \/ Store \/ Publish
           \/ \E b \in Bucket : Inc(b)
  BY <1>4 DEF ProbeFirst, ProbeLast, IncFails, Dec, Store, Publish, Inc, Producer
<1>5. CASE Peek \/ PopTake \/ PopClear \/ UNCHANGED vars
  <2>1. UNCHANGED <<head, btlist, ppc, stray, wrapped>>
    BY <1>5 DEF Peek, PopTake, PopClear, vars, queue, history
  <2> QED BY <2>1 DEF FullHead, Live, Allocated
<1>6. CASE PopAdvance
  <2>1. ppc = "inc" /\ ~stray /\ ~wrapped
    BY <1>0, <1>6 DEF PopAdvance, TypeOK
  <2>2. Live(head) /\ head' = next[head] /\ btlist' = btlist
    BY <2>1, <1>6 DEF PopAdvance, FullHead
  <2>3. head \in LiveNodes
    BY <1>0, <2>2 DEF LiveNodes, TypeOK
  <2>4. Live(next[head])
    BY <2>3, <1>2 DEF LiveNodes
  <2> QED BY <2>2, <2>4 DEF Live, Allocated
<1> QED BY <1>3, <1>4, <1>5, <1>6 DEF Next, ProducerNext, ConsumerNext

LEMMA HoldsFacts ==
  ASSUME TypeOK, RingInv, NEW f, Holds(f)
  PROVE  /\ Capity \in Nat \ {0} /\ Capity < Tags /\ Held \in 0 .. Capity - 1
         /\ \A i \in 0 .. Capity - 1 : f[i] \in LiveNodes /\ f[i] \in Node
         /\ \A i, j \in 0 .. Capity - 1 : f[i] = f[j] => i = j
         /\ f[0] = head /\ f[Held] = tail
<1>1. Capity \in Nat \ {0} /\ Capity < Tags
  BY CapityBound
<1>2. Held \in 0 .. Capity - 1
  BY <1>1, HeldRange DEF Holds, Numbered, RestBlank
<1>3. \A i \in 0 .. Capity - 1 : f[i] \in LiveNodes
  BY DEF Holds, Numbered, RestBlank, IsRing
<1>4. \A n \in LiveNodes : n \in Node
  BY DEF LiveNodes
<1> QED BY <1>1, <1>2, <1>3, <1>4 DEF Holds, Numbered, RestBlank, IsRing

\* The ring and its length change with the links and the buckets alone.
LEMMA SameRing ==
  ASSUME UNCHANGED <<next, btlist>>
  PROVE  LiveNodes' = LiveNodes /\ Capity' = Capity
  BY DEF LiveNodes, Live, Allocated, Capity

LEMMA HoldsProbe ==
  ASSUME NEW f, Holds(f), PushTest \/ ProbeFirst \/ ProbeLast \/ IncFails
  PROVE  Holds(f)'
<1>1. /\ UNCHANGED <<next, btlist, head, tail, val, cpc, pt, ct>>
      /\ ppc # "publish" /\ ppc' # "publish"
  BY DEF PushTest, ProbeFirst, ProbeLast, IncFails, Producer, queue
<1>2. LiveNodes' = LiveNodes /\ Capity' = Capity /\ Held' = Held
  BY <1>1, SameRing DEF Held
<1>3. \A k : Plus(ct, k)' = Plus(ct, k)
  BY <1>1 DEF Plus
<1> QED BY <1>1, <1>2, <1>3 DEF Holds, Numbered, RestBlank

LEMMA HoldsStore ==
  ASSUME TypeOK, RingInv, NEW f, Holds(f), Store
  PROVE  Holds(f)'
<1>1. /\ UNCHANGED <<next, btlist, head, tail, cpc, pt, ct>>
      /\ ppc' = "publish" /\ ppc # "publish" /\ val' = [val EXCEPT ![tail] = pt]
  BY DEF Store, Producer
<1>2. LiveNodes' = LiveNodes /\ Capity' = Capity /\ Held' = Held
  BY <1>1, SameRing DEF Held
<1>3. \A k : Plus(ct, k)' = Plus(ct, k)
  BY <1>1 DEF Plus
<1>4. /\ Capity \in Nat \ {0} /\ Held \in 0 .. Capity - 1
      /\ \A i \in 0 .. Capity - 1 : f[i] \in Node
      /\ \A i, j \in 0 .. Capity - 1 : f[i] = f[j] => i = j
      /\ f[0] = head /\ f[Held] = tail
  BY HoldsFacts
<1>5. /\ val'[tail] = pt
      /\ \A n \in Node : n # tail => val'[n] = val[n]
  BY <1>1 DEF TypeOK
<1>6. \A k \in 0 .. Held - 1 : f[k] # tail /\ f[k] \in Node
  BY <1>4
<1>7. \A k \in 0 .. Held - 1 : k > 0 \/ cpc # "advance" => val'[f[k]] = Plus(ct, k)
  BY <1>5, <1>6 DEF Holds, Numbered, RestBlank
<1>8. cpc = "advance" => val'[head] = NULL
  <2>1. cpc = "advance" => head # tail
    BY <1>4 DEF Holds, Numbered, RestBlank
  <2> QED BY <2>1, <1>5 DEF Holds, Numbered, RestBlank, TypeOK
<1>9. ASSUME NEW n \in LiveNodes, val'[n] # NULL
      PROVE  (\E k \in 0 .. Held - 1 : f[k] = n) \/ n = tail
  BY <1>5, <1>9 DEF Holds, Numbered, RestBlank, LiveNodes
<1> QED BY <1>1, <1>2, <1>3, <1>5, <1>7, <1>8, <1>9 DEF Holds, Numbered, RestBlank

LEMMA HoldsPublish ==
  ASSUME TypeOK, RingInv, NEW f, Holds(f), Publish, Sound'
  PROVE  Holds(f)'
<1>1. /\ UNCHANGED <<next, btlist, head, val, cpc, ct>>
      /\ ppc' = "idle" /\ ppc = "publish" /\ tail' = next[tail]
      /\ pt' = (pt + 1) % Tags /\ next[tail] # head
  BY DEF Publish, Producer, Sound
<1>2. LiveNodes' = LiveNodes /\ Capity' = Capity
  BY <1>1, SameRing
<1>3. \A k : Plus(ct, k)' = Plus(ct, k)
  BY <1>1 DEF Plus
<1>4. /\ Capity \in Nat \ {0} /\ Capity < Tags /\ Held \in 0 .. Capity - 1
      /\ \A i \in 0 .. Capity - 1 : f[i] \in Node
      /\ \A i, j \in 0 .. Capity - 1 : f[i] = f[j] => i = j
      /\ f[0] = head /\ f[Held] = tail
  BY HoldsFacts
<1>5. next[f[Held]] = IF Held = Capity - 1 THEN f[0] ELSE f[Held + 1]
  BY <1>4 DEF Holds, Numbered, RestBlank, IsRing
<1>6. Held # Capity - 1 /\ tail' = f[Held + 1]
  BY <1>1, <1>4, <1>5
<1>7. Held + 1 < Capity
  BY <1>4, <1>6
<1>8. Held' = Held + 1
  <2>1. pt \in Elem /\ ct \in Elem /\ pt' \in Elem
    BY <1>1, NextMod DEF TypeOK
  <2>2. Held + 1 < Tags
    BY <1>4, <1>7, TagsPositive
  <2> QED BY <2>1, <2>2, <1>1, HeldPushed DEF Held
<1>9. val[tail] = pt /\ Plus(ct, Held) = pt
  BY <1>1, HeldRange DEF Holds, Numbered, RestBlank
<1>10. ASSUME NEW k \in 0 .. (Held + 1) - 1, k > 0 \/ cpc # "advance"
       PROVE  val[f[k]] = Plus(ct, k)
  <2>1. CASE k = Held
    BY <2>1, <1>4, <1>9
  <2>2. CASE k # Held
    <3>1. k \in 0 .. Held - 1
      BY <2>2, <1>4
    <3> QED BY <3>1, <1>10 DEF Holds, Numbered, RestBlank
  <2> QED BY <2>1, <2>2
<1>11. ASSUME NEW n \in LiveNodes, val[n] # NULL
       PROVE  \E k \in 0 .. (Held + 1) - 1 : f[k] = n
  <2>1. \A k \in 0 .. Held - 1 : k \in 0 .. (Held + 1) - 1
    BY <1>4
  <2>2. Held \in 0 .. (Held + 1) - 1
    BY <1>4
  <2> QED BY <2>1, <2>2, <1>4, <1>11 DEF Holds, Numbered, RestBlank
<1>12. cpc # "idle" => Held + 1 > 0
  BY <1>4
<1> QED BY <1>1, <1>2, <1>3, <1>6, <1>7, <1>8, <1>10, <1>11, <1>12 DEF Holds, Numbered, RestBlank

LEMMA HoldsTake ==
  ASSUME TypeOK, RingInv, NEW f, Holds(f), Peek \/ PopTake
  PROVE  Holds(f)'
<1>1. /\ UNCHANGED <<next, btlist, head, tail, val, ppc, pt, ct>>
      /\ cpc # "advance" /\ cpc' # "advance" /\ head # tail
  BY DEF Peek, PopTake, Consumer, queue
<1>2. LiveNodes' = LiveNodes /\ Capity' = Capity /\ Held' = Held
  BY <1>1, SameRing DEF Held
<1>3. \A k : Plus(ct, k)' = Plus(ct, k)
  BY <1>1 DEF Plus
<1>4. Held > 0
  BY <1>1, HoldsFacts
<1> QED BY <1>1, <1>2, <1>3, <1>4 DEF Holds, Numbered, RestBlank

LEMMA HoldsClear ==
  ASSUME TypeOK, RingInv, NEW f, Holds(f), PopClear
  PROVE  Holds(f)'
<1>1. /\ UNCHANGED <<next, btlist, head, tail, ppc, pt, ct>>
      /\ cpc = "clear" /\ cpc' = "advance" /\ val' = [val EXCEPT ![head] = NULL]
  BY DEF PopClear, Consumer, Cleared
<1>2. LiveNodes' = LiveNodes /\ Capity' = Capity /\ Held' = Held
  BY <1>1, SameRing DEF Held
<1>3. \A k : Plus(ct, k)' = Plus(ct, k)
  BY <1>1 DEF Plus
<1>4. /\ Capity \in Nat \ {0} /\ Held \in 0 .. Capity - 1
      /\ \A i \in 0 .. Capity - 1 : f[i] \in Node
      /\ \A i, j \in 0 .. Capity - 1 : f[i] = f[j] => i = j
      /\ f[0] = head /\ f[Held] = tail
  BY HoldsFacts
<1>5. /\ val'[head] = NULL
      /\ \A n \in Node : n # head => val'[n] = val[n]
  BY <1>1 DEF TypeOK
<1>6. Held > 0 /\ head # tail
  BY <1>1, <1>4 DEF Holds, Numbered, RestBlank
<1>7. ASSUME NEW k \in 0 .. Held - 1, k > 0
      PROVE  val'[f[k]] = Plus(ct, k)
  <2>1. f[k] # head /\ f[k] \in Node
    BY <1>4, <1>7
  <2> QED BY <2>1, <1>5, <1>7 DEF Holds, Numbered, RestBlank
<1>8. ppc = "publish" => val'[tail] = pt
  BY <1>5, <1>6 DEF Holds, Numbered, RestBlank, TypeOK
<1>9. ASSUME NEW n \in LiveNodes, val'[n] # NULL
      PROVE  (\E k \in 0 .. Held - 1 : f[k] = n) \/ (n = tail /\ ppc = "publish")
  <2>1. n # head /\ val'[n] = val[n]
    BY <1>5, <1>9 DEF LiveNodes
  <2> QED BY <2>1, <1>9 DEF Holds, Numbered, RestBlank
<1> QED BY <1>1, <1>2, <1>3, <1>5, <1>6, <1>7, <1>8, <1>9 DEF Holds, Numbered, RestBlank

LEMMA HoldsAdvance ==
  ASSUME TypeOK, RingInv, NEW f, Holds(f), PopAdvance, Sound'
  PROVE  \E g : Holds(g)'
<1>1. /\ UNCHANGED <<next, btlist, tail, val, ppc, pt>>
      /\ cpc = "advance" /\ cpc' = "idle" /\ head' = next[head] /\ ct' = (ct + 1) % Tags
  BY DEF PopAdvance, Consumer, Sound
<1>2. LiveNodes' = LiveNodes /\ Capity' = Capity
  BY <1>1, SameRing
<1>3. /\ Capity \in Nat \ {0} /\ Capity < Tags /\ Held \in 0 .. Capity - 1
      /\ \A i \in 0 .. Capity - 1 : f[i] \in Node
      /\ \A i, j \in 0 .. Capity - 1 : f[i] = f[j] => i = j
      /\ f[0] = head /\ f[Held] = tail
  BY HoldsFacts
<1>4. Held > 0
  BY <1>1 DEF Holds, Numbered, RestBlank
<1>5. 0 \in 0 .. Capity - 1 /\ 1 \in 0 .. Capity - 1 /\ 0 # Capity - 1
  BY <1>3, <1>4
<1>6. next[f[0]] = f[1]
  BY <1>5 DEF Holds, Numbered, RestBlank, IsRing
<1>g. PICK g : g = Rotated(f, Capity, 1)
  OBVIOUS
<1>7. IsRing(next, LiveNodes, Capity, g) /\ g[0] = f[1]
  BY <1>g, <1>5, RotateRing DEF Holds, Numbered, RestBlank
<1>8. \A i \in 0 .. Capity - 1 : i + 1 < Capity => g[i] = f[i + 1]
  BY <1>g DEF Rotated
<1>9. Held' = Held - 1
  <2>1. pt \in Elem /\ ct \in Elem /\ ct' \in Elem
    BY <1>1, NextMod DEF TypeOK
  <2> QED BY <2>1, <1>1, <1>4, HeldPopped DEF Held
<1>10. g[Held - 1] = tail
  BY <1>3, <1>4, <1>8
<1>11. ASSUME NEW k \in 0 .. (Held - 1) - 1 PROVE val[g[k]] = Plus(ct, k)'
  <2>1. k \in 0 .. Capity - 1 /\ k + 1 < Capity /\ k + 1 \in 0 .. Held - 1 /\ k + 1 > 0
        /\ k + 1 < Tags /\ k \in Elem
    BY <1>3, <1>4, TagsPositive DEF Elem
  <2>2. val[g[k]] = Plus(ct, k + 1)
    BY <2>1, <1>8 DEF Holds, Numbered, RestBlank
  <2>3. ct \in Elem /\ ct' \in Elem
    BY <1>1, NextMod DEF TypeOK
  <2>4. Plus(ct', k) = Plus(ct, k + 1)
    BY <2>1, <2>3, <1>1, PlusNext
  <2> QED BY <2>2, <2>4 DEF Plus
<1>12. ASSUME NEW n \in LiveNodes, val[n] # NULL
       PROVE  (\E k \in 0 .. (Held - 1) - 1 : g[k] = n) \/ (n = tail /\ ppc = "publish")
  <2>1. CASE n = tail /\ ppc = "publish"
    BY <2>1
  <2>2. CASE ~ (n = tail /\ ppc = "publish")
    <3>1. PICK k \in 0 .. Held - 1 : f[k] = n
      BY <2>2, <1>12 DEF Holds, Numbered, RestBlank
    <3>2. k # 0
      BY <3>1, <1>1, <1>3, <1>12 DEF Holds, Numbered, RestBlank
    <3>3. k - 1 \in 0 .. (Held - 1) - 1 /\ k - 1 \in 0 .. Capity - 1
          /\ (k - 1) + 1 < Capity /\ (k - 1) + 1 = k
      BY <3>1, <3>2, <1>3
    <3>4. g[k - 1] = n
      BY <3>1, <3>3, <1>8
    <3> QED BY <3>3, <3>4
  <2> QED BY <2>1, <2>2
<1>13. Held - 1 < Capity
  BY <1>3
<1>14. ppc = "publish" => val[tail] = pt
  BY DEF Holds, Numbered, RestBlank
<1>15. Holds(g)'
  <2>1. IsRing(next', LiveNodes', Capity', g) /\ g[0] = head'
    BY <1>1, <1>2, <1>3, <1>6, <1>7
  <2>2. Held' < Capity' /\ g[Held'] = tail'
    BY <1>1, <1>2, <1>9, <1>10, <1>13
  <2>3. Numbered(g)'
    BY <1>1, <1>9, <1>11 DEF Numbered
  <2>4. RestBlank(g)'
    BY <1>1, <1>2, <1>9, <1>12 DEF RestBlank
  <2>5. cpc' = "idle" /\ (ppc' = "publish" => val'[tail'] = pt')
    BY <1>1, <1>14
  <2> QED BY <2>1, <2>2, <2>3, <2>4, <2>5 DEF Holds
<1> QED BY <1>15

\* The newest bucket is as eg_cq_inc has spliced it in.
LEMMA NewestBehind ==
  ASSUME TypeOK, Probed, RingInv, ppc = "dec"
  PROVE  /\ next[bthead[Newest]] = First(Newest)
         /\ \A i \in 1 .. Size : i # Size => next[<<Newest, i>>] = <<Newest, i + 1>>
<1>1. PICK h \in Nat \ {0} : h = Height
  BY Heights
<1>2. PICK N : Linked(N)
  BY DEF RingInv
<1>3. h > 1
  BY <1>1 DEF Probed, Height
<1>4. h - 1 \in 1 .. h - 1 /\ (h - 1) + 1 = h /\ h - 1 \in 1 .. h /\ h \in 1 .. h
  BY <1>3
<1>5. SplicedIn(N, h - 1, Newest)
  BY <1>1, <1>2, <1>4, Heights DEF Linked
<1>6. Level(h - 1) \subseteq Level(h)
  BY <1>1, <1>4, LevelsNested DEF RingInv
<1>7. next[bthead[Newest]] = N[h][bthead[Newest]]
  BY <1>1, <1>2, <1>5, <1>6 DEF Linked, SplicedIn
<1>8. ASSUME NEW i \in 1 .. Size, i # Size PROVE next[<<Newest, i>>] = <<Newest, i + 1>>
  <2>1. <<Newest, i>> \in NodesIn(Newest)
    BY Heights DEF NodesIn, Node, BucketOf
  <2>2. NodesIn(Newest) \subseteq Level(h)
    BY <1>1, <1>4, Heights, LevelsNested DEF RingInv
  <2> QED BY <2>1, <2>2, <1>1, <1>2, <1>4, <1>5, <1>8 DEF Linked, SplicedIn
<1> QED BY <1>4, <1>5, <1>7, <1>8 DEF SplicedIn


LEMMA HoldsInc ==
  ASSUME TypeOK, Probed, RingInv, NEW f, Holds(f), NEW b \in Bucket, Inc(b)
  PROVE  \E g : Holds(g)'
<1>1. /\ UNCHANGED <<head, tail, cpc, pt, ct>>
      /\ ppc # "publish" /\ ppc' # "publish" /\ val' = Blank(val, b)
      /\ b \notin Allocated
  BY DEF Inc, Producer
<1>2. Held' = Held /\ \A k : Plus(ct, k)' = Plus(ct, k)
  BY <1>1 DEF Held, Plus
<1>3. /\ Capity \in Nat \ {0} /\ Held \in 0 .. Capity - 1
      /\ \A i \in 0 .. Capity - 1 : f[i] \in LiveNodes /\ f[i] \in Node
      /\ f[0] = head /\ f[Held] = tail
  BY HoldsFacts
<1>4. LiveNodes \subseteq Node /\ \A n \in LiveNodes : BucketOf(n) # b
  BY <1>1 DEF LiveNodes, Live
<1>5. next' = SplicedAt(next, b, f[Held])
  BY <1>3 DEF Inc, Spliced, SplicedAt
<1>g. PICK g : g = Inserted(f, Capity, Held, Chain(b), Size)
  OBVIOUS
<1>6. IsRing(next', LiveNodes \cup NodesIn(b), Capity + Size, g)
  <2>1. IsRing(next, LiveNodes, Capity, f) /\ next \in [Node -> Node]
    BY DEF Holds, Numbered, RestBlank, TypeOK
  <2>2. IsRing(SplicedAt(next, b, f[Held]), LiveNodes \cup NodesIn(b), Capity + Size, g)
    BY <2>1, <1>g, <1>3, <1>4, SpliceRing
  <2> QED BY <2>2, <1>5
<1>7. LiveNodes' = LiveNodes \cup NodesIn(b) /\ Capity' = Capity + Size
  <2>1. PICK h \in Nat \ {0} : h = Height
    BY Heights
  <2>2. /\ Height' = h + 1
        /\ Level(h + 1)' = Level(h) \cup NodesIn(b)
    BY <2>1, IncStack
  <2>3. Level(h) = LiveNodes
    BY <2>1, TopLevel DEF LiveNodes
  <2>4. TypeOK'
    BY TypedStep DEF Typed, Next, ProducerNext
  <2>5. Level(Height)' = LiveNodes'
    BY <2>4, TopLevelNext DEF LiveNodes
  <2>6. Level(Height)' = Level(h + 1)'
    BY <2>2 DEF Level
  <2>7. Capity = Size * h /\ Capity' = Size * (h + 1)
    BY <2>1, <2>2 DEF Capity, Height
  <2> QED BY <2>1, <2>2, <2>3, <2>5, <2>6, <2>7, NodesOf
<1>8. \A k \in 0 .. Held : g[k] = f[k]
  <2>1. \A k \in 0 .. Held : k \in 0 .. (Capity + Size) - 1 /\ k =< Held
    BY <1>3, SizeAssumption
  <2> QED BY <2>1, <1>g DEF Inserted
<1>9. Held < Capity + Size /\ g[Held] = tail /\ g[0] = head
  BY <1>3, <1>8, SizeAssumption
<1>10. \A n \in Node : val'[n] = IF BucketOf(n) = b THEN NULL ELSE val[n]
  BY <1>1 DEF Blank
<1>11. \A n \in LiveNodes : n \in Node /\ val'[n] = val[n]
  BY <1>4, <1>10
<1>12. ASSUME NEW k \in 0 .. Held - 1, k > 0 \/ cpc # "advance"
       PROVE  val'[g[k]] = Plus(ct, k)
  <2>1. k \in 0 .. Held /\ k \in 0 .. Capity - 1
    BY <1>3
  <2> QED BY <2>1, <1>3, <1>8, <1>11, <1>12 DEF Holds, Numbered, RestBlank
<1>13. ASSUME NEW n \in LiveNodes \cup NodesIn(b), val'[n] # NULL
       PROVE  \E k \in 0 .. Held - 1 : g[k] = n
  <2>1. n \in LiveNodes /\ val[n] # NULL
    BY <1>10, <1>11, <1>13 DEF NodesIn
  <2>2. PICK k \in 0 .. Held - 1 : f[k] = n
    BY <2>1, <1>1 DEF Holds, Numbered, RestBlank
  <2>3. k \in 0 .. Held
    BY <1>3
  <2> QED BY <2>2, <2>3, <1>8
<1>14. cpc = "advance" => val'[head] = NULL
  <2>1. head \in LiveNodes
    BY <1>3
  <2> QED BY <2>1, <1>11 DEF Holds, Numbered, RestBlank
<1>15. Holds(g)'
  <2>1. IsRing(next', LiveNodes', Capity', g)
    BY <1>6, <1>7
  <2>2. Held' < Capity' /\ g[Held'] = tail' /\ g[0] = head'
    BY <1>1, <1>2, <1>7, <1>9
  <2>3. Numbered(g)'
    BY <1>1, <1>2, <1>12 DEF Numbered
  <2>4. RestBlank(g)'
    BY <1>2, <1>7, <1>13 DEF RestBlank
  <2>5. cpc' # "idle" => Held' > 0
    BY <1>1, <1>2 DEF Holds, Numbered, RestBlank
  <2> QED BY <2>1, <2>2, <2>3, <2>4, <2>5, <1>1, <1>14 DEF Holds
<1> QED BY <1>15

\* Once eg_cq_dec has found both ends of the newest bucket blank, the only node
\* of it that can be in use is its last one, left by a pop in this moment.
LEMMA ArcOutside ==
  ASSUME TypeOK, Probed, RingInv, NEW f, Holds(f), ppc = "dec",
         ~ (cpc = "advance" /\ BucketOf(head) = Newest),
         NEW k \in 0 .. Held
  PROVE  BucketOf(f[k]) # Newest
<1> SUFFICES ASSUME BucketOf(f[k]) = Newest PROVE FALSE
  OBVIOUS
<1>1. /\ Capity \in Nat \ {0} /\ Held \in 0 .. Capity - 1
      /\ \A i \in 0 .. Capity - 1 : f[i] \in Node
      /\ f[0] = head /\ f[Held] = tail
  BY HoldsFacts
<1>2. PICK b \in Bucket, j \in 1 .. Size : f[k] = <<b, j>> /\ b = Newest
  BY <1>1 DEF Node, BucketOf
<1>3. val[Last(b)] = NULL /\ BucketOf(tail) # b
  BY <1>2 DEF Probed
<1>4. \A i \in 1 .. Size : i # Size => next[<<b, i>>] = <<b, i + 1>>
  BY <1>2, NewestBehind
<1> DEFINE A == {d \in Nat : d =< Size - j => k + d < Held /\ f[k + d] = <<b, j + d>>}
<1>5. 0 \in A
  <2>1. k # Held
    BY <1>1, <1>2, <1>3 DEF BucketOf
  <2> QED BY <2>1, <1>1, <1>2
<1>6. ASSUME NEW d \in Nat, d \in A PROVE d + 1 \in A
  <2> SUFFICES ASSUME d + 1 =< Size - j
               PROVE  k + (d + 1) < Held /\ f[k + (d + 1)] = <<b, j + (d + 1)>>
    OBVIOUS
  <2>1. Size \in Nat /\ j \in Nat /\ k \in Nat /\ Held \in Nat /\ Capity \in Nat
    BY <1>1, SizeAssumption
  <2>2. k + d < Held /\ f[k + d] = <<b, j + d>>
    BY <2>1, <1>6
  <2>3. j + d \in 1 .. Size /\ j + d # Size /\ (j + d) + 1 = j + (d + 1)
    BY <2>1
  <2>4. k + d \in 0 .. Capity - 1 /\ k + d # Capity - 1 /\ (k + d) + 1 = k + (d + 1)
    BY <2>1, <2>2, <1>1
  <2>5. next[f[k + d]] = f[(k + d) + 1]
    BY <2>4 DEF Holds, Numbered, RestBlank, IsRing
  <2>6. f[k + (d + 1)] = <<b, j + (d + 1)>>
    BY <2>2, <2>3, <2>4, <2>5, <1>4
  <2>7. k + (d + 1) # Held
    BY <2>6, <1>1, <1>3 DEF BucketOf
  <2> QED BY <2>1, <2>2, <2>6, <2>7
<1> HIDE DEF A
<1>7. \A d \in Nat : d \in A
  BY <1>5, <1>6, NatSet
<1>8. Size - j \in A /\ Size - j \in Nat /\ j + (Size - j) = Size
  BY <1>7, SizeAssumption
<1>9. k + (Size - j) < Held /\ f[k + (Size - j)] = Last(b)
  BY <1>8 DEF A, Last
<1> DEFINE l == k + (Size - j)
<1>10. l \in 0 .. Held - 1 /\ f[l] = Last(b)
  BY <1>1, <1>8, <1>9
<1> HIDE DEF l
<1>11. Plus(ct, l) # NULL
  <2>1. l \in Elem /\ ct \in Elem
    BY <1>1, <1>10, HoldsFacts, TagsPositive DEF Elem, TypeOK
  <2> QED BY <2>1, PlusMod, NullAssumption DEF Elem
<1>12. l = 0 /\ cpc = "advance"
  BY <1>3, <1>10, <1>11 DEF Holds, Numbered, RestBlank
<1> QED BY <1>1, <1>2, <1>10, <1>12 DEF Last, BucketOf

LEMMA HoldsDec ==
  ASSUME TypeOK, Probed, RingInv, NEW f, Holds(f), Dec, Sound'
  PROVE  \E g : Holds(g)'
<1>1. /\ UNCHANGED <<head, tail, val, cpc, pt, ct>>
      /\ ppc = "dec" /\ ppc' = "store"
  BY DEF Dec, Producer
<1>2. Held' = Held /\ \A k : Plus(ct, k)' = Plus(ct, k)
  BY <1>1 DEF Held, Plus
<1>3. /\ Capity \in Nat \ {0} /\ Held \in 0 .. Capity - 1
      /\ \A i \in 0 .. Capity - 1 : f[i] \in LiveNodes /\ f[i] \in Node
      /\ \A i, j \in 0 .. Capity - 1 : f[i] = f[j] => i = j
      /\ f[0] = head /\ f[Held] = tail
  BY HoldsFacts
<1>4. /\ RingInv'
      /\ \A n \in Node : Live(n)' <=> Live(n) /\ BucketOf(n) # Newest
  BY DecRing
<1>5. \A n \in Node : n \in LiveNodes' <=> n \in LiveNodes /\ BucketOf(n) # Newest
  BY <1>4 DEF LiveNodes
<1>6. ~ (cpc = "advance" /\ BucketOf(head) = Newest)
  BY <1>1, <1>3, <1>4 DEF Sound
<1>7. \A k \in 0 .. Held : BucketOf(f[k]) # Newest
  BY <1>1, <1>6, ArcOutside
<1>8. TypeOK'
  BY TypedStep DEF Typed, Next, ProducerNext
<1>9. PICK r : IsRing(next', LiveNodes', Capity', r)
  BY <1>4, <1>8, RingInUseNext DEF LiveNodes
<1>10. head \in LiveNodes'
  BY <1>3, <1>5, <1>7
<1>11. PICK g : IsRing(next', LiveNodes', Capity', g) /\ g[0] = head
  BY <1>9, <1>10, RingFrom
<1>12. ASSUME NEW i \in 0 .. Held - 1 PROVE next'[f[i]] = next[f[i]]
  <2>1. i \in 0 .. Capity - 1 /\ i # Capity - 1 /\ i + 1 \in 0 .. Held
    BY <1>3
  <2>2. next[f[i]] = f[i + 1]
    BY <2>1 DEF Holds, Numbered, RestBlank, IsRing
  <2>3. next[bthead[Newest]] = First(Newest) /\ BucketOf(First(Newest)) = Newest
    BY <1>1, NewestBehind DEF First, BucketOf
  <2>4. f[i] # bthead[Newest]
    BY <2>1, <2>2, <2>3, <1>7
  <2>5. f[i] \in Node
    BY <2>1, <1>3
  <2> QED BY <2>4, <2>5 DEF Dec, Unlinked, TypeOK
<1>13. Held < Capity' /\ \A i \in 0 .. Held : i < Capity' /\ f[i] = g[i]
  <2>1. IsRing(next, LiveNodes, Capity, f)
    BY DEF Holds, Numbered, RestBlank
  <2> QED BY <2>1, <1>3, <1>11, <1>12, RingsAgree
<1>14. Capity' \in Nat
  BY <1>11 DEF IsRing
<1>15. ASSUME NEW n \in LiveNodes', val[n] # NULL
       PROVE  \E k \in 0 .. Held - 1 : g[k] = n
  <2>1. n \in LiveNodes
    BY <1>5 DEF LiveNodes
  <2>2. PICK k \in 0 .. Held - 1 : f[k] = n
    BY <2>1, <1>1, <1>15 DEF Holds, Numbered, RestBlank
  <2>3. k \in 0 .. Held
    BY <1>3
  <2> QED BY <2>2, <2>3, <1>13
<1>16. Holds(g)'
  <2>1. Held' < Capity' /\ g[Held'] = tail' /\ g[0] = head'
    BY <1>1, <1>2, <1>3, <1>11, <1>13
  <2>2. Numbered(g)'
    <3>1. ASSUME NEW k \in 0 .. Held - 1, k > 0 \/ cpc # "advance"
          PROVE  val[g[k]] = Plus(ct, k)
      <4>1. k \in 0 .. Held
        BY <1>3
      <4> QED BY <4>1, <3>1, <1>13 DEF Holds, Numbered
    <3> QED BY <3>1, <1>1, <1>2 DEF Numbered
  <2>3. RestBlank(g)'
    BY <1>1, <1>2, <1>15 DEF RestBlank
  <2>4. cpc' # "idle" => Held' > 0
    BY <1>1, <1>2 DEF Holds, Numbered, RestBlank
  <2>5. cpc' = "advance" => val'[head'] = NULL
    BY <1>1 DEF Holds, Numbered, RestBlank
  <2> QED BY <2>1, <2>2, <2>3, <2>4, <2>5, <1>1, <1>11 DEF Holds
<1> QED BY <1>16

LEMMA QueueStep == Typed /\ RingInv /\ QueueInv /\ [Next]_vars => QueueInv'
<1> SUFFICES ASSUME Typed, RingInv, QueueInv, [Next]_vars PROVE QueueInv'
  OBVIOUS
<1>1. TypeOK /\ Probed /\ FullHead
  BY DEF Typed, QueueInv
<1>2. FullHead'
  BY <1>1, FullHeadStep
<1>3. ASSUME Sound' PROVE \E g : Holds(g)'
  <2>1. PICK f : Holds(f)
    BY <1>1, <1>3, SoundBefore DEF QueueInv
  <2>2. CASE PushTest \/ ProbeFirst \/ ProbeLast \/ IncFails
    BY <2>1, <2>2, HoldsProbe
  <2>3. ASSUME NEW b \in Bucket, Inc(b) PROVE \E g : Holds(g)'
    BY <2>1, <2>3, <1>1, HoldsInc
  <2>4. CASE Dec
    BY <2>1, <2>4, <1>1, <1>3, HoldsDec
  <2>5. CASE Store
    BY <2>1, <2>5, <1>1, HoldsStore
  <2>6. CASE Publish
    BY <2>1, <2>6, <1>1, <1>3, HoldsPublish
  <2>7. CASE Peek \/ PopTake
    BY <2>1, <2>7, <1>1, HoldsTake
  <2>8. CASE PopClear
    BY <2>1, <2>8, <1>1, HoldsClear
  <2>9. CASE PopAdvance
    BY <2>1, <2>9, <1>1, <1>3, HoldsAdvance
  <2>10. CASE UNCHANGED vars
    <3>1. UNCHANGED <<next, btlist, head, tail, val, ppc, cpc, pt, ct>>
      BY <2>10 DEF vars, queue
    <3>2. LiveNodes' = LiveNodes /\ Capity' = Capity /\ Held' = Held
      BY <3>1, SameRing DEF Held
    <3>3. \A k : Plus(ct, k)' = Plus(ct, k)
      BY <3>1 DEF Plus
    <3>4. Holds(f)'
      BY <2>1, <3>1, <3>2, <3>3 DEF Holds, Numbered, RestBlank
    <3> QED BY <3>4
  <2> QED BY <2>2, <2>3, <2>4, <2>5, <2>6, <2>7, <2>8, <2>9, <2>10
       DEF Next, ProducerNext, ConsumerNext
<1> QED BY <1>2, <1>3 DEF QueueInv

LEMMA QueueAlways == Spec => [](Typed /\ RingInv /\ QueueInv)
<1>1. Init => Typed /\ RingInv /\ QueueInv
  BY InitTyped, InitRing, InitQueue
<1>2. Typed /\ RingInv /\ QueueInv /\ [Next]_vars => (Typed /\ RingInv /\ QueueInv)'
  BY TypedStep, RingStep, QueueStep
<1> QED BY <1>1, <1>2, PTL DEF Spec

----------------------------------------------------------------------------
(* The arc and the contents in closed form. *)

\* What a queue of l elements holds whose oldest one is number d.
Row(d, l) == [k \in 1 .. l |-> Plus(d, k - 1)]

\* The number of the next element to take out, and how many there are.
Due  == IF cpc = "advance" THEN (ct + 1) % Tags ELSE ct
Left == IF cpc = "advance" THEN Held - 1 ELSE Held

LEMMA ArcOf ==
  ASSUME TypeOK, RingInv, NEW f, Holds(f)
  PROVE  Arc = [k \in 1 .. Held |-> f[k - 1]]
<1>1. /\ Capity \in Nat \ {0} /\ Held \in 0 .. Capity - 1
      /\ \A i, j \in 0 .. Capity - 1 : f[i] = f[j] => i = j
      /\ f[0] = head /\ f[Held] = tail
  BY HoldsFacts
<1>2. Walk(head) = Around(f, Capity)
  BY <1>1, WalkInUse DEF Holds, Numbered, RestBlank
<1>3. \A k \in 0 .. Capity - 1 : Walk(head)[k] = f[k]
  BY <1>1, <1>2 DEF Around
<1> DEFINE K == { k \in 0 .. Capity - 1 : \A j \in 0 .. k : Walk(head)[j] # tail }
<1>4. K = 0 .. Held - 1
  <2>1. ASSUME NEW k \in 0 .. Capity - 1, \A j \in 0 .. k : Walk(head)[j] # tail
        PROVE  k \in 0 .. Held - 1
    <3> SUFFICES ASSUME k >= Held PROVE FALSE
      BY <1>1
    <3>1. Held \in 0 .. k /\ Walk(head)[Held] = tail
      BY <1>1, <1>3
    <3> QED BY <3>1, <2>1
  <2>2. ASSUME NEW k \in 0 .. Held - 1, NEW j \in 0 .. k
        PROVE  k \in 0 .. Capity - 1 /\ Walk(head)[j] # tail
    <3>1. j \in 0 .. Capity - 1 /\ j # Held /\ k \in 0 .. Capity - 1
      BY <1>1
    <3> QED BY <3>1, <1>1, <1>3
  <2>3. \A k \in 0 .. Held - 1 : 0 \in 0 .. k
    BY <1>1
  <2> QED BY <2>1, <2>2, <2>3
<1>5. Cardinality(K) = Held
  <2>1. 0 \in Int /\ Held - 1 \in Int /\ Held \in Nat
    BY <1>1
  <2>2. Cardinality(0 .. Held - 1) = IF 0 > Held - 1 THEN 0 ELSE (Held - 1) - 0 + 1
    BY <2>1, FS_Interval
  <2>3. Cardinality(0 .. Held - 1) = Held
    BY <2>1, <2>2
  <2> HIDE DEF K
  <2> QED BY <2>3, <1>4
<1>6. Arc = [k \in 1 .. Cardinality(K) |-> Walk(head)[k - 1]]
  BY DEF Arc
<1> HIDE DEF K
<1>7. \A k \in 1 .. Held : Walk(head)[k - 1] = f[k - 1]
  <2>1. \A k \in 1 .. Held : k - 1 \in 0 .. Capity - 1
    BY <1>1
  <2> QED BY <2>1, <1>3
<1> QED BY <1>5, <1>6, <1>7

LEMMA RowPush ==
  ASSUME NEW d \in Elem, NEW p \in Elem, NEW l \in Nat, Plus(d, l) = p
  PROVE  Row(d, l + 1) = Append(Row(d, l), p)
<1> DEFINE s == [k \in 1 .. l |-> Plus(d, k - 1)]
           t == [k \in 1 .. l + 1 |-> Plus(d, k - 1)]
<1>1. s = Row(d, l) /\ t = Row(d, l + 1)
  BY DEF Row
<1>2. DOMAIN s = 1 .. l /\ DOMAIN t = 1 .. l + 1 /\ t[l + 1] = p
      /\ \A k \in 1 .. l : s[k] = t[k]
  BY DEF Row
<1>3. Len(s) = l
  OBVIOUS
<1>4. Append(s, p) = [k \in 1 .. l + 1 |-> IF k \in 1 .. l THEN s[k] ELSE p]
  OBVIOUS
<1> QED BY <1>1, <1>2, <1>4

LEMMA RowPop ==
  ASSUME NEW c \in Elem, NEW h \in Nat, h > 0, h < Tags
  PROVE  Row(c, h) # <<>> /\ Tail(Row(c, h)) = Row((c + 1) % Tags, h - 1)
<1> DEFINE s == [k \in 1 .. h |-> Plus(c, k - 1)]
           d == (c + 1) % Tags
<1>1. d \in Elem
  BY NextMod
<1>2. ASSUME NEW k \in 1 .. h - 1 PROVE s[k + 1] = Plus(d, k - 1)
  <2>1. k + 1 \in 1 .. h /\ (k + 1) - 1 = k /\ k - 1 \in Elem /\ (k - 1) + 1 = k /\ k < Tags
    BY TagsPositive DEF Elem
  <2>2. s[k + 1] = Plus(c, k)
    BY <2>1
  <2> HIDE DEF s, d
  <2>3. Plus(d, k - 1) = Plus(c, (k - 1) + 1)
    BY <2>1, <1>1, PlusNext DEF d
  <2> QED BY <2>1, <2>2, <2>3
<1>3. Len(s) = h /\ s # <<>>
  OBVIOUS
<1>4. Tail(s) = [k \in 1 .. h - 1 |-> s[k + 1]]
  BY <1>3
<1>5. Row(c, h) = s
  BY DEF Row
<1> HIDE DEF s, d
<1>6. Tail(s) = [k \in 1 .. h - 1 |-> Plus(d, k - 1)]
  BY <1>2, <1>4
<1> QED BY <1>3, <1>5, <1>6 DEF Row, d

LEMMA LeftRange ==
  ASSUME TypeOK, RingInv, NEW f, Holds(f)
  PROVE  Left \in Nat /\ Left < Tags /\ Due \in Elem /\ Plus(Due, Left) = pt
<1>1. Held \in Nat /\ Held < Tags /\ Plus(ct, Held) = pt /\ ct \in Elem /\ pt \in Elem
  BY HeldRange, TagsPositive DEF TypeOK
<1>2. CASE cpc # "advance"
  BY <1>1, <1>2 DEF Left, Due
<1>3. CASE cpc = "advance"
  <2>1. Held > 0
    BY <1>3 DEF Holds, Numbered, RestBlank
  <2>2. (ct + 1) % Tags \in Elem
    BY <1>1, NextMod
  <2>3. Held - 1 \in Elem /\ (Held - 1) + 1 = Held /\ Held - 1 < Tags
    BY <1>1, <2>1, TagsPositive DEF Elem
  <2>4. Plus((ct + 1) % Tags, Held - 1) = Plus(ct, Held)
    BY <1>1, <2>2, <2>3, PlusNext
  <2> QED BY <1>1, <1>3, <2>1, <2>2, <2>3, <2>4 DEF Left, Due
<1> QED BY <1>2, <1>3

LEMMA TailOf ==
  ASSUME NEW f, NEW h \in Nat, h > 0
  PROVE  Tail([k \in 1 .. h |-> f[k - 1]]) = [k \in 1 .. h - 1 |-> f[k]]
<1> DEFINE s == [k \in 1 .. h |-> f[k - 1]]
<1>1. Len(s) = h /\ s # <<>>
  OBVIOUS
<1>2. Tail(s) = [k \in 1 .. h - 1 |-> s[k + 1]]
  BY <1>1
<1>3. \A k \in 1 .. h - 1 : s[k + 1] = f[k]
  OBVIOUS
<1> HIDE DEF s
<1>4. Tail(s) = [k \in 1 .. h - 1 |-> f[k]]
  BY <1>2, <1>3
<1> QED BY <1>4 DEF s

LEMMA ContentsOf ==
  ASSUME TypeOK, RingInv, NEW f, Holds(f)
  PROVE  Contents = Row(Due, Left)
<1>1. /\ Held \in Nat /\ Held < Tags /\ Held =< Capity
      /\ \A i \in 0 .. Capity - 1 : f[i] \in Node
  BY HoldsFacts, TagsPositive
<1> DEFINE a == [k \in 1 .. Held |-> f[k - 1]]
<1>2. Arc = a
  BY ArcOf
<1>3. CASE cpc # "advance"
  <2>1. \A k \in 1 .. Held : val[f[k - 1]] = Plus(ct, k - 1)
    <3>1. \A k \in 1 .. Held : k - 1 \in 0 .. Held - 1
      BY <1>1
    <3> QED BY <3>1, <1>3 DEF Holds, Numbered, RestBlank
  <2>2. Contents = [k \in 1 .. Held |-> val[f[k - 1]]]
    BY <1>2, <1>3 DEF Contents
  <2> QED BY <2>1, <2>2, <1>3 DEF Row, Due, Left
<1>4. CASE cpc = "advance"
  <2>0. Held > 0
    BY <1>4 DEF Holds, Numbered, RestBlank
  <2>4. Tail(a) = [k \in 1 .. Held - 1 |-> f[k]]
    BY <1>1, <2>0, TailOf
  <2>5. Contents = [k \in 1 .. Held - 1 |-> val[f[k]]]
    BY <1>2, <1>4, <2>4 DEF Contents
  <2>6. ASSUME NEW k \in 1 .. Held - 1 PROVE val[f[k]] = Plus((ct + 1) % Tags, k - 1)
    <3>1. k \in 0 .. Held - 1 /\ k > 0 /\ k - 1 \in Elem /\ (k - 1) + 1 = k /\ k < Tags
      BY <1>1, TagsPositive DEF Elem
    <3>2. val[f[k]] = Plus(ct, k)
      BY <3>1 DEF Holds, Numbered, RestBlank
    <3>3. ct \in Elem /\ (ct + 1) % Tags \in Elem
      BY NextMod DEF TypeOK
    <3>4. Plus((ct + 1) % Tags, k - 1) = Plus(ct, (k - 1) + 1)
      BY <3>1, <3>3, PlusNext
    <3> QED BY <3>1, <3>2, <3>4
  <2> QED BY <2>5, <2>6, <1>4 DEF Row, Due, Left
<1> QED BY <1>3, <1>4

LEMMA InvNothingLost == TypeOK /\ RingInv /\ QueueInv => NothingLost
<1> SUFFICES ASSUME TypeOK, RingInv, QueueInv, Sound
             PROVE  /\ Len(Contents) = (pt - Due) % Tags
                    /\ \A k \in DOMAIN Contents : Contents[k] = (Due + k - 1) % Tags
  BY DEF NothingLost, Due
<1>1. PICK f : Holds(f)
  BY DEF QueueInv
<1>2. Contents = Row(Due, Left)
  BY <1>1, ContentsOf
<1>3. Left \in Nat /\ Left < Tags /\ Due \in Elem /\ Plus(Due, Left) = pt /\ pt \in Elem
  BY <1>1, LeftRange DEF TypeOK
<1>4. Len(Row(Due, Left)) = Left /\ DOMAIN Row(Due, Left) = 1 .. Left
  BY <1>3 DEF Row
<1>5. Left = (pt - Due) % Tags
  <2>1. Left = IF Due =< pt THEN pt - Due ELSE (pt - Due) + Tags
    BY <1>3, TagsPositive DEF Plus, Elem
  <2> QED BY <2>1, <1>3, MinusMod
<1>6. ASSUME NEW k \in 1 .. Left PROVE Row(Due, Left)[k] = (Due + k - 1) % Tags
  <2>1. k - 1 \in Elem
    BY <1>3, TagsPositive DEF Elem
  <2>2. Plus(Due, k - 1) = (Due + (k - 1)) % Tags
    BY <2>1, <1>3, PlusMod
  <2>3. Due + (k - 1) = Due + k - 1
    BY <1>3 DEF Elem
  <2> QED BY <2>2, <2>3 DEF Row
<1> QED BY <1>2, <1>4, <1>5, <1>6

LEMMA InvFreeNodesBlank == TypeOK /\ RingInv /\ QueueInv => FreeNodesBlank
<1> SUFFICES ASSUME TypeOK, RingInv, QueueInv, Sound, NEW n \in Node, Live(n), val[n] # NULL
             PROVE  (\E k \in DOMAIN Arc : Arc[k] = n) \/ (n = tail /\ ppc = "publish")
  BY DEF FreeNodesBlank
<1>1. PICK f : Holds(f)
  BY DEF QueueInv
<1>2. Arc = [k \in 1 .. Held |-> f[k - 1]]
  BY <1>1, ArcOf
<1>3. Held \in Nat
  BY HeldRange, TagsPositive
<1>4. CASE \E k \in 0 .. Held - 1 : f[k] = n
  <2>1. PICK k \in 0 .. Held - 1 : f[k] = n
    BY <1>4
  <2>2. k + 1 \in 1 .. Held /\ (k + 1) - 1 = k
    BY <1>3
  <2> QED BY <2>1, <2>2, <1>2
<1> QED BY <1>1, <1>4 DEF Holds, Numbered, RestBlank, LiveNodes

LEMMA InvBufferInUseKept == TypeOK /\ RingInv /\ QueueInv => BufferInUseKept
<1> SUFFICES ASSUME TypeOK, RingInv, QueueInv, cpc \in {"using", "clear"}, ~stray, ~wrapped
             PROVE  Live(head) /\ head # tail /\ val[head] = ct
  BY DEF BufferInUseKept
<1>1. PICK f : Holds(f)
  BY DEF QueueInv, Sound
<1>2. /\ Held \in 0 .. Capity - 1 /\ Capity \in Nat \ {0}
      /\ \A i \in 0 .. Capity - 1 : f[i] \in LiveNodes
      /\ \A i, j \in 0 .. Capity - 1 : f[i] = f[j] => i = j
      /\ f[0] = head /\ f[Held] = tail
  BY <1>1, HoldsFacts
<1>3. Held > 0
  BY <1>1 DEF Holds, Numbered, RestBlank
<1>4. 0 \in 0 .. Held - 1 /\ 0 \in 0 .. Capity - 1
  BY <1>2, <1>3
<1>5. head \in LiveNodes /\ head # tail
  BY <1>2, <1>3, <1>4
<1>6. val[f[0]] = Plus(ct, 0)
  BY <1>1, <1>4 DEF Holds, Numbered, RestBlank
<1>7. Plus(ct, 0) = ct
  BY TagsPositive DEF Plus, Elem, TypeOK
<1> QED BY <1>2, <1>5, <1>6, <1>7 DEF LiveNodes

\* However the steps of eg_cq_push and eg_cq_pop interleave, and however often
\* the ring is extended and cut meanwhile, the elements between the head and the
\* tail are the accepted and not yet popped ones in the order they were pushed.
THEOREM NothingEverLost == Spec => []NothingLost
<1>1. Typed => TypeOK
  BY DEF Typed
<1> QED BY <1>1, QueueAlways, InvNothingLost, PTL

\* Every other node eg_cq_push may probe or write is blank: a bucket whose end
\* nodes have no value holds no element, so eg_cq_dec frees none.
THEOREM FreeNodesAlwaysBlank == Spec => []FreeNodesBlank
<1>1. Typed => TypeOK
  BY DEF Typed
<1> QED BY <1>1, QueueAlways, InvFreeNodesBlank, PTL

\* The element a caller of eg_cq_head works on in place stays in its node, which
\* no push frees or hands out, until the caller pops it.
THEOREM BufferInUseAlwaysKept == Spec => []BufferInUseKept
<1>1. Typed => TypeOK
  BY DEF Typed
<1> QED BY <1>1, QueueAlways, InvBufferInUseKept, PTL

----------------------------------------------------------------------------
(* The abstract queue. *)

Inv == Typed /\ RingInv /\ QueueInv

LEMMA SoundContents ==
  Inv /\ Sound => /\ Contents = Row(Due, Left) /\ Plus(Due, Left) = pt
                  /\ Left \in Nat /\ Left < Tags /\ Due \in Elem
                  /\ ct \in Elem /\ pt \in Elem /\ Held \in Nat /\ Held < Tags
                  /\ Held < Capity /\ (cpc # "idle" => Held > 0)
<1> SUFFICES ASSUME Inv, Sound
             PROVE  /\ Contents = Row(Due, Left) /\ Plus(Due, Left) = pt
                    /\ Left \in Nat /\ Left < Tags /\ Due \in Elem
                    /\ ct \in Elem /\ pt \in Elem /\ Held \in Nat /\ Held < Tags
                    /\ Held < Capity /\ (cpc # "idle" => Held > 0)
  OBVIOUS
<1>1. TypeOK /\ RingInv /\ QueueInv
  BY DEF Inv, Typed
<1>2. PICK f : Holds(f)
  BY <1>1 DEF QueueInv
<1>3. Contents = Row(Due, Left)
  BY <1>1, <1>2, ContentsOf
<1>4. Left \in Nat /\ Left < Tags /\ Due \in Elem /\ Plus(Due, Left) = pt
  BY <1>1, <1>2, LeftRange
<1>5. ct \in Elem /\ pt \in Elem
  BY <1>1 DEF TypeOK
<1>6. Held \in Nat /\ Held < Tags
  BY <1>1, HeldRange, TagsPositive
<1>7. Held < Capity /\ (cpc # "idle" => Held > 0)
  BY <1>2 DEF Holds, Numbered, RestBlank
<1> QED BY <1>3, <1>4, <1>5, <1>6, <1>7

LEMMA SoundContentsNext == (Inv /\ Sound => Contents = Row(Due, Left))'
<1>1. Inv /\ Sound => Contents = Row(Due, Left)
  BY SoundContents
<1> QED BY <1>1, PTL

\* A push takes effect when it moves the tail, a pop when it clears the node.
LEMMA FifoStep ==
  ASSUME Inv, Inv', [Next]_vars, Sound'
  PROVE  Abstract!Next \/ UNCHANGED Contents
<1>1. Sound
  BY SoundBefore DEF Inv, QueueInv
<1>2. Contents = Row(Due, Left) /\ Contents' = Row(Due, Left)'
  BY <1>1, SoundContents, SoundContentsNext
<1>3. /\ Plus(Due, Left) = pt /\ Left \in Nat /\ Left < Tags /\ Due \in Elem
      /\ ct \in Elem /\ pt \in Elem /\ Held \in Nat /\ Held < Tags /\ Held < Capity
      /\ (cpc # "idle" => Held > 0)
  BY <1>1, SoundContents
<1>4. \A d, l : Row(d, l)' = Row(d, l)
  BY DEF Row, Plus
<1>5. ASSUME Due' = Due, Left' = Left PROVE UNCHANGED Contents
  BY <1>2, <1>5 DEF Row, Plus
<1>6. CASE \/ PushTest \/ ProbeFirst \/ ProbeLast \/ IncFails \/ Dec \/ Store
           \/ (\E b \in Bucket : Inc(b)) \/ UNCHANGED vars
  <2>1. UNCHANGED <<pt, ct, cpc>>
    BY <1>6 DEF PushTest, ProbeFirst, ProbeLast, IncFails, Dec, Store, Inc, vars
  <2> QED BY <2>1, <1>5 DEF Due, Left, Held
<1>7. CASE Peek \/ PopTake
  <2>1. UNCHANGED <<pt, ct>> /\ cpc # "advance" /\ cpc' # "advance"
    BY <1>7 DEF Peek, PopTake, Consumer
  <2> QED BY <2>1, <1>5 DEF Due, Left, Held
<1>8. CASE Publish
  <2>1. pt' = (pt + 1) % Tags /\ UNCHANGED <<ct, cpc>>
    BY <1>8 DEF Publish
  <2>2. Due' = Due
    BY <2>1 DEF Due
  <2>3. TypeOK /\ TypeOK'
    BY DEF Inv, Typed
  <2>4. Held' = Held + 1
    <3>1. Held + 1 < Tags
      <4>1. TypeOK /\ RingInv
        BY <2>3 DEF Inv
      <4>2. Capity \in Nat /\ Capity < Tags
        BY <4>1, CapityBound
      <4> QED BY <4>2, <1>3, TagsPositive
    <3>2. pt' \in Elem
      BY <2>3 DEF TypeOK, Elem
    <3> QED BY <2>1, <3>1, <3>2, <1>3, HeldPushed DEF Held
  <2>5. Left' = Left + 1
    BY <2>1, <2>4, <1>3 DEF Left
  <2>6. Row(Due, Left)' = Row(Due, Left + 1)
    BY <2>2, <2>5 DEF Row, Plus
  <2>7. Row(Due, Left + 1) = Append(Row(Due, Left), pt)
    BY <1>3, RowPush
  <2>8. Contents' = Append(Contents, pt)
    BY <2>6, <2>7, <1>2
  <2> QED BY <2>8, <1>3 DEF Abstract!Next, Abstract!Push
<1>9. CASE PopClear
  <2>1. UNCHANGED <<pt, ct>> /\ cpc = "clear" /\ cpc' = "advance"
    BY <1>9 DEF PopClear, Consumer
  <2>2. Held' = Held /\ Held > 0
    BY <2>1, <1>3 DEF Held
  <2>3. Due = ct /\ Left = Held /\ Due' = (ct + 1) % Tags /\ Left' = Held - 1
    BY <2>1, <2>2 DEF Due, Left
  <2>4. Row(ct, Held) # <<>> /\ Tail(Row(ct, Held)) = Row((ct + 1) % Tags, Held - 1)
    BY <2>2, <1>3, RowPop
  <2>5. Row(Due, Left)' = Row((ct + 1) % Tags, Held - 1)
    BY <2>3 DEF Row, Plus
  <2>6. Contents # <<>> /\ Contents' = Tail(Contents)
    BY <2>3, <2>4, <2>5, <1>2
  <2> QED BY <2>6 DEF Abstract!Next, Abstract!Pop
<1>10. CASE PopAdvance
  <2>1. cpc = "advance" /\ cpc' = "idle" /\ pt' = pt /\ ct' = (ct + 1) % Tags
    BY <1>10 DEF PopAdvance, Consumer
  <2>2. ct' \in Elem
    BY <2>1, <1>3, NextMod
  <2>3. Held' = Held - 1
    BY <2>1, <2>2, <1>3, HeldPopped DEF Held
  <2> QED BY <2>1, <2>3, <1>5 DEF Due, Left
<1> QED BY <1>6, <1>7, <1>8, <1>9, <1>10 DEF Next, ProducerNext, ConsumerNext

\* As long as the queue is sound, every step of eg_cq_push and eg_cq_pop appends
\* one element, takes out the oldest one, or is invisible to the callers.
THEOREM StepsAreFifo == Spec => FifoSteps
<1>1. Spec => []Inv
  BY QueueAlways DEF Inv
<1>2. Inv /\ Inv' /\ [Next]_vars => [Sound' => Abstract!Next \/ UNCHANGED Contents]_vars
  BY FifoStep
<1> QED BY <1>1, <1>2, PTL DEF Spec, FifoSteps

(* A queue that is never extended: there is one bucket, and its ring has room  *)
(* for the element whenever eg_cq_push goes on to store it.                    *)
Single ==
  /\ ~stray /\ ~wrapped
  /\ ppc \in {"store", "publish"} => Held + 1 < Capity
  /\ ppc \in {"idle", "inc", "store", "publish"}

LEMMA OneBucket ==
  ASSUME MaxBuckets = 0, Inv
  PROVE  Len(btlist) = 1 /\ \A n \in Node : Live(n)
<1>1. TypeOK /\ RingInv
  BY DEF Inv, Typed
<1>2. Height \in Nat \ {0} /\ \A i \in 1 .. Height : At(i) \in Bucket
  BY <1>1, Heights
<1>3. Height =< 1
  BY <1>1, HeightBound
<1>4. Len(btlist) = 1
  <2>1. Height = 1
    BY <1>2, <1>3
  <2> QED BY <2>1 DEF Height
<1>5. \A n \in Node : BucketOf(n) = 0
  BY DEF Node, Bucket, BucketOf
<1>6. btlist[1] \in Bucket
  BY <1>1, FrontOf DEF TypeOK
<1>7. btlist[1] = 0 /\ 1 \in DOMAIN btlist
  BY <1>1, <1>4, <1>6 DEF Bucket, TypeOK
<1> QED BY <1>4, <1>5, <1>7 DEF Live, Allocated

LEMMA SingleSound ==
  ASSUME MaxBuckets = 0, Inv, Single
  PROVE  Sound
<1>1. head \in Node
  BY DEF Inv, Typed, TypeOK
<1> QED BY <1>1, OneBucket DEF Sound, Single

LEMMA SingleInit == Init => Single
  BY DEF Init, Single

LEMMA SingleStep ==
  ASSUME MaxBuckets = 0, Inv, Inv', Single, [Next]_vars
  PROVE  Single'
<1>1. Sound /\ Len(btlist) = 1 /\ head \in Node /\ TypeOK /\ RingInv
  BY SingleSound, OneBucket DEF Inv, Typed, TypeOK
<1>2. PICK f : Holds(f)
  BY <1>1 DEF Inv, QueueInv
<1>3. /\ Capity \in Nat \ {0} /\ Capity < Tags /\ Held \in 0 .. Capity - 1
      /\ \A i, j \in 0 .. Capity - 1 : f[i] = f[j] => i = j
      /\ f[0] = head /\ f[Held] = tail
  BY <1>1, <1>2, HoldsFacts
<1>4. next[tail] = head <=> Held = Capity - 1
  <2>1. next[f[Held]] = IF Held = Capity - 1 THEN f[0] ELSE f[Held + 1]
    BY <1>2, <1>3 DEF Holds, Numbered, RestBlank, IsRing
  <2>2. Held # Capity - 1 => Held + 1 \in 0 .. Capity - 1 /\ Held + 1 # 0 /\ 0 \in 0 .. Capity - 1
    BY <1>3
  <2> QED BY <2>1, <2>2, <1>3
<1>5. ~stray /\ ~wrapped
      /\ (ppc \in {"store", "publish"} => Held + 1 < Capity)
      /\ ppc \in {"idle", "inc", "store", "publish"}
  BY DEF Single
<1>6. CASE PushTest
  <2>1. UNCHANGED <<pt, ct, btlist, stray, wrapped>>
        /\ ppc' = IF next[tail] = head THEN "inc" ELSE "store"
    BY <1>1, <1>6 DEF PushTest, Producer, Full, queue, history
  <2>2. Held' = Held /\ Capity' = Capity
    BY <2>1 DEF Held, Capity
  <2>3. ppc' \in {"store", "publish"} => Held + 1 < Capity
    BY <2>1, <1>3, <1>4
  <2> QED BY <2>1, <2>2, <2>3, <1>5 DEF Single
<1>7. CASE IncFails \/ Store
  <2>1. UNCHANGED <<pt, ct, btlist, stray, wrapped>>
        /\ \/ ppc' = "idle"
           \/ ppc = "store" /\ ppc' = "publish"
    BY <1>7 DEF IncFails, Store, Producer, queue, history
  <2>2. Held' = Held /\ Capity' = Capity
    BY <2>1 DEF Held, Capity
  <2> QED BY <2>1, <2>2, <1>5 DEF Single
<1>8. CASE ProbeFirst \/ ProbeLast \/ Dec
  BY <1>8, <1>5 DEF ProbeFirst, ProbeLast, Dec, Producer
<1>9. ASSUME NEW b \in Bucket, Inc(b) PROVE Single'
  <2>1. b = 0
    BY SizeAssumption DEF Bucket
  <2>2. First(b) \in Node /\ BucketOf(First(b)) = b
    BY SizeAssumption DEF First, Node, BucketOf
  <2>3. b \in Allocated
    BY <2>2, OneBucket DEF Live
  <2> QED BY <2>3, <1>9 DEF Inc
<1>10. CASE Publish
  <2>1. ppc = "publish" /\ ppc' = "idle" /\ stray' = stray
        /\ wrapped' = (wrapped \/ next[tail] = head)
    BY <1>10 DEF Publish, Producer
  <2>2. next[tail] # head
    BY <2>1, <1>3, <1>4, <1>5
  <2> QED BY <2>1, <2>2, <1>5 DEF Single
<1>11. CASE Peek \/ PopTake \/ PopClear \/ UNCHANGED vars
  <2>1. UNCHANGED <<pt, ct, btlist, stray, wrapped, ppc>>
    BY <1>11 DEF Peek, PopTake, PopClear, vars, queue, history
  <2>2. Held' = Held /\ Capity' = Capity
    BY <2>1 DEF Held, Capity
  <2> QED BY <2>1, <2>2, <1>5 DEF Single
<1>12. CASE PopAdvance
  <2>1. UNCHANGED <<pt, btlist, stray, wrapped, ppc>> /\ ct' = (ct + 1) % Tags /\ cpc = "advance"
    BY <1>1, <1>12, OneBucket DEF PopAdvance, Consumer
  <2>2. Held > 0
    BY <2>1, <1>2 DEF Holds, Numbered, RestBlank
  <2>3. ct \in Elem /\ pt \in Elem /\ ct' \in Elem
    BY <1>1, <2>1, NextMod DEF TypeOK
  <2>4. Held' = Held - 1
    BY <2>1, <2>2, <2>3, HeldPopped DEF Held
  <2>5. Capity' = Capity
    BY <2>1 DEF Capity
  <2>6. ppc' \in {"store", "publish"} => Held' + 1 < Capity'
    BY <2>1, <2>4, <2>5, <1>3, <1>5
  <2> QED BY <2>1, <2>6, <1>5 DEF Single
<1> QED BY <1>6, <1>7, <1>8, <1>9, <1>10, <1>11, <1>12 DEF Next, ProducerNext, ConsumerNext

LEMMA SoundNext ==
  (MaxBuckets = 0 /\ Inv /\ Single => Sound)'
<1>1. MaxBuckets = 0 /\ Inv /\ Single => Sound
  BY SingleSound
<1> QED BY <1>1, PTL

LEMMA InitEmpty == Init => Contents = <<>>
<1> SUFFICES ASSUME Init PROVE Contents = <<>>
  OBVIOUS
<1>1. Inv
  BY InitTyped, InitRing, InitQueue DEF Inv
<1>2. Sound /\ Left = 0
  BY DEF Init, Sound, Left, Held
<1>3. Contents = Row(Due, 0)
  BY <1>1, <1>2, SoundContents
<1> QED BY <1>3 DEF Row

\* Without eg_cq_inc the queue is the one cyclequeue.h describes, for a pushing
\* and a popping thread without a lock, whatever the size of its ring.
THEOREM ImplementsTheFifo ==
  ASSUME MaxBuckets = 0
  PROVE  Spec => ImplementsFifo
<1>1. Init => Abstract!Init
  BY InitEmpty DEF Abstract!Init
<1>2. Spec => []Inv
  BY QueueAlways DEF Inv
<1>3. Inv /\ Inv' /\ Single /\ [Next]_vars => Single'
  BY SingleStep
<1>4. Inv /\ Inv' /\ Single /\ Single' /\ [Next]_vars => [Abstract!Next]_Contents
  <2> SUFFICES ASSUME Inv, Inv', Single, Single', [Next]_vars
               PROVE  [Abstract!Next]_Contents
    OBVIOUS
  <2>1. Sound'
    BY SoundNext
  <2> QED BY <2>1, FifoStep
<1> QED BY <1>1, <1>2, <1>3, <1>4, SingleInit, PTL DEF Spec, ImplementsFifo, Abstract!Spec
=============================================================================
