-------------------------- MODULE DynamicMapProofs --------------------------
(***************************************************************************)
(* Proofs about module DynamicMap, for any sizes of the block and of its   *)
(* warps and any ranges, of the configurations in which the fine-grained   *)
(* mode has one warp per block.  In the others UniformExit does not hold.  *)
(***************************************************************************)
EXTENDS DynamicMap, WellFoundedInduction, TLAPS

OneWarp == \A c \in Config : c.fine => c.block = c.warp

(***************************************************************************)
(* Induction over the naturals, for properties that are sets, and the      *)
(* functions that recursion from one number to the next defines.           *)
(***************************************************************************)
Less == {p \in Nat \X Nat : p[1] < p[2]}

LEMMA LessWellFounded == IsWellFoundedOn(Less, Nat)
  BY NatLessThanWellFounded DEF OpToRel, Less

LEMMA NatSetInduction ==
    ASSUME NEW S, 0 \in S, \A n \in Nat : n \in S => n + 1 \in S
    PROVE  Nat \subseteq S
<1> DEFINE T == Nat \ S
<1> SUFFICES ASSUME T # {} PROVE FALSE
  OBVIOUS
<1>1. PICK x \in T : \A y \in T : <<y, x>> \notin Less
  BY LessWellFounded, WFMin
<1>2. x # 0 /\ x - 1 \in Nat /\ x \in Nat /\ x - 1 < x
  OBVIOUS
<1>3. <<x - 1, x>> \in Less
  BY <1>2 DEF Less
<1> HIDE DEF T
<1>4. x - 1 \notin T
  BY <1>1, <1>3
<1>5. x - 1 \in S
  BY <1>2, <1>4 DEF T
<1>6. (x - 1) + 1 \in S
  BY <1>2, <1>5
<1> QED  BY <1>2, <1>6 DEF T

Follows(h, a, F, n) == h[0] = a /\ \A m \in 1..n : h[m] = F[<<m, h[m - 1]>>]

LEMMA Recursion ==
    ASSUME NEW V, NEW a \in V, NEW F \in [Nat \X V -> V], NEW n \in Nat
    PROVE  \E h \in [0..n -> V] : Follows(h, a, F, n)
<1> DEFINE S == {k \in Nat : \E h \in [0..k -> V] : Follows(h, a, F, k)}
<1>1. 0 \in S
  <2>1. [m \in 0..0 |-> a] \in [0..0 -> V] /\ Follows([m \in 0..0 |-> a], a, F, 0)
    BY DEF Follows
  <2> QED  BY <2>1
<1>2. ASSUME NEW k \in Nat, k \in S PROVE k + 1 \in S
  <2>1. PICK h \in [0..k -> V] : Follows(h, a, F, k)
    BY <1>2
  <2> DEFINE g == [m \in 0..(k + 1) |-> IF m = k + 1 THEN F[<<k + 1, h[k]>>] ELSE h[m]]
  <2>2. F[<<k + 1, h[k]>>] \in V
    BY <2>1
  <2>3. g \in [0..(k + 1) -> V]
    BY <2>1, <2>2
  <2>4. g[0] = a
    BY <2>1 DEF Follows
  <2>5. ASSUME NEW m \in 1..(k + 1) PROVE g[m] = F[<<m, g[m - 1]>>]
    <3>1. CASE m = k + 1
      <4>1. (k + 1) - 1 = k /\ k \in 0..(k + 1) /\ k # k + 1 /\ k + 1 \in 0..(k + 1)
        OBVIOUS
      <4>2. g[k] = h[k] /\ g[k + 1] = F[<<k + 1, h[k]>>]
        BY <4>1
      <4> QED  BY <3>1, <4>1, <4>2
    <3>2. CASE m # k + 1
      <4>1. m \in 1..k /\ m \in 0..(k + 1) /\ m - 1 \in 0..(k + 1) /\ m - 1 # k + 1
        BY <3>2
      <4>2. g[m] = h[m] /\ g[m - 1] = h[m - 1]
        BY <3>2, <4>1
      <4> QED  BY <2>1, <4>1, <4>2 DEF Follows
    <3> QED  BY <3>1, <3>2
  <2> HIDE DEF g
  <2>6. Follows(g, a, F, k + 1)
    BY <2>4, <2>5 DEF Follows
  <2> QED  BY <2>3, <2>6
<1> HIDE DEF S
<1>3. n \in S
  BY <1>1, <1>2, NatSetInduction
<1> QED  BY <1>3 DEF S

(***************************************************************************)
(* The sums of the first n values of a function.                           *)
(***************************************************************************)
Sums(f, n) == LET s[k \in 0..n] == IF k = 0 THEN 0 ELSE s[k - 1] + f[k - 1] IN s

LEMMA SumsFacts ==
    ASSUME NEW n \in Nat, NEW f \in [0..(n - 1) -> Nat]
    PROVE  /\ Sums(f, n) \in [0..n -> Nat]
           /\ Sums(f, n)[0] = 0
           /\ \A k \in 0..(n - 1) : Sums(f, n)[k + 1] = Sums(f, n)[k] + f[k]
<1> DEFINE F == [p \in Nat \X Nat |-> IF p[1] \in 1..n THEN p[2] + f[p[1] - 1] ELSE 0]
<1>1. F \in [Nat \X Nat -> Nat]
  OBVIOUS
<1>2. \A m \in 1..n : \A x \in Nat : F[<<m, x>>] = x + f[m - 1]
  OBVIOUS
<1> HIDE DEF F
<1>3. PICK h \in [0..n -> Nat] : Follows(h, 0, F, n)
  <2>1. 0 \in Nat
    OBVIOUS
  <2> QED  BY <1>1, <2>1, Recursion
<1>4. ASSUME NEW m \in 1..n PROVE h[m] = h[m - 1] + f[m - 1]
  <2>1. h[m - 1] \in Nat
    BY <1>3
  <2> QED  BY <1>2, <1>3, <2>1 DEF Follows
<1>5. h = [k \in 0..n |-> IF k = 0 THEN 0 ELSE h[k - 1] + f[k - 1]]
  BY <1>3, <1>4 DEF Follows
<1> DEFINE s == Sums(f, n)
<1>6. s = [k \in 0..n |-> IF k = 0 THEN 0 ELSE s[k - 1] + f[k - 1]]
  BY <1>5 DEF Sums
<1> HIDE DEF s
<1> DEFINE S == {k \in Nat : k <= n => s[k] \in Nat}
<1>7. 0 \in S
  BY <1>6
<1>8. ASSUME NEW k \in Nat, k \in S PROVE k + 1 \in S
  <2> SUFFICES ASSUME k + 1 <= n PROVE s[k + 1] \in Nat
    OBVIOUS
  <2>1. k + 1 \in 0..n /\ k \in 0..(n - 1) /\ (k + 1) - 1 = k /\ k + 1 # 0 /\ s[k] \in Nat
    BY <1>8
  <2>2. s[k + 1] = s[k] + f[k]
    BY <1>6, <2>1
  <2> QED  BY <2>1, <2>2
<1> HIDE DEF S
<1>9. Nat \subseteq S
  BY <1>7, <1>8, NatSetInduction
<1>10. s \in [0..n -> Nat]
  <2>1. \A k \in 0..n : s[k] \in Nat
    BY <1>9 DEF S
  <2> QED  BY <1>6, <2>1
<1>11. \A k \in 0..(n - 1) : s[k + 1] = s[k] + f[k]
  BY <1>6
<1> QED  BY <1>6, <1>10, <1>11 DEF s

LEMMA SumsOrdered ==
    ASSUME NEW n \in Nat, NEW f \in [0..(n - 1) -> Nat], NEW k \in 0..(n - 1), NEW m \in 0..n,
           k < m
    PROVE  Sums(f, n)[k] + f[k] <= Sums(f, n)[m]
<1> DEFINE s == Sums(f, n)
           S == {d \in Nat : k + 1 + d <= n => s[k] + f[k] <= s[k + 1 + d]}
<1>1. /\ s \in [0..n -> Nat]
      /\ \A j \in 0..(n - 1) : s[j + 1] = s[j] + f[j]
  BY SumsFacts
<1> HIDE DEF s
<1>2. 0 \in S
  BY <1>1
<1>3. ASSUME NEW d \in Nat, d \in S PROVE d + 1 \in S
  <2> SUFFICES ASSUME k + 1 + (d + 1) <= n PROVE s[k] + f[k] <= s[k + 1 + (d + 1)]
    OBVIOUS
  <2> DEFINE j == k + 1 + d
  <2>1. j \in 0..(n - 1) /\ k + 1 + (d + 1) = j + 1 /\ k + 1 + d <= n
    OBVIOUS
  <2>2. s[k] + f[k] <= s[j]
    BY <1>3, <2>1
  <2> HIDE DEF j
  <2>3. s[j + 1] = s[j] + f[j] /\ f[j] \in Nat /\ s[j] \in Nat /\ s[k] \in Nat /\ f[k] \in Nat
    BY <1>1, <2>1
  <2>4. s[k] + f[k] <= s[j + 1]
    BY <2>2, <2>3
  <2> QED  BY <2>1, <2>4
<1> HIDE DEF S
<1>4. Nat \subseteq S
  BY <1>2, <1>3, NatSetInduction
<1>5. m - (k + 1) \in Nat /\ k + 1 + (m - (k + 1)) = m
  OBVIOUS
<1>6. m - (k + 1) \in S
  BY <1>4, <1>5
<1> QED  BY <1>5, <1>6 DEF s, S

LEMMA SumsBounded ==
    ASSUME NEW n \in Nat, NEW f \in [0..(n - 1) -> Nat], NEW c \in Nat,
           \A k \in 0..(n - 1) : f[k] <= c,
           NEW m \in 0..n
    PROVE  Sums(f, n)[m] <= m * c
<1> DEFINE s == Sums(f, n)
           S == {k \in Nat : k <= n => s[k] <= k * c}
<1>1. /\ s \in [0..n -> Nat] /\ s[0] = 0
      /\ \A j \in 0..(n - 1) : s[j + 1] = s[j] + f[j]
  BY SumsFacts
<1> HIDE DEF s
<1>2. 0 \in S
  BY <1>1
<1>3. ASSUME NEW k \in Nat, k \in S PROVE k + 1 \in S
  <2> SUFFICES ASSUME k + 1 <= n PROVE s[k + 1] <= (k + 1) * c
    OBVIOUS
  <2>1. s[k + 1] = s[k] + f[k] /\ s[k] \in Nat /\ f[k] \in Nat /\ f[k] <= c /\ s[k] <= k * c
    BY <1>1, <1>3
  <2>2. (k + 1) * c = k * c + c /\ k * c \in Nat
    OBVIOUS
  <2> QED  BY <2>1, <2>2
<1> HIDE DEF S
<1>4. Nat \subseteq S
  BY <1>2, <1>3, NatSetInduction
<1>5. m \in S
  BY <1>4
<1> QED  BY <1>5 DEF s, S

(* Every number below the sum of all values is in one of them.             *)
LEMMA SumsCover ==
    ASSUME NEW n \in Nat, NEW f \in [0..(n - 1) -> Nat], NEW j \in Nat, j < Sums(f, n)[n]
    PROVE  \E k \in 0..(n - 1) : \E i \in 0..(f[k] - 1) : j = Sums(f, n)[k] + i
<1> DEFINE s == Sums(f, n)
           T == {k \in 0..n : j < s[k]}
<1>1. /\ s \in [0..n -> Nat] /\ s[0] = 0
      /\ \A k \in 0..(n - 1) : s[k + 1] = s[k] + f[k]
  BY SumsFacts
<1>2. T \subseteq Nat /\ n \in T
  OBVIOUS
<1> HIDE DEF s
<1>3. PICK x \in T : \A y \in T : <<y, x>> \notin Less
  BY <1>2, LessWellFounded, WFMin
<1>4. x # 0 /\ x - 1 \in 0..(n - 1) /\ x \in Nat /\ x - 1 \in Nat /\ x - 1 < x /\ j < s[x]
  BY <1>1
<1>5. <<x - 1, x>> \in Less
  BY <1>4 DEF Less
<1>6. ~(j < s[x - 1])
  BY <1>3, <1>4, <1>5
<1> DEFINE k == x - 1
<1>7. k \in 0..(n - 1) /\ k + 1 = x
  BY <1>4
<1>8. s[x] = s[k] + f[k] /\ s[k] \in Nat /\ f[k] \in Nat
  BY <1>1, <1>7
<1>9. j - s[k] \in 0..(f[k] - 1) /\ j = s[k] + (j - s[k])
  BY <1>4, <1>6, <1>8
<1> QED  BY <1>7, <1>9 DEF s
-----------------------------------------------------------------------------
(***************************************************************************)
(* The sizes, the threads of a block and of a warp.                        *)
(***************************************************************************)
LEMMA Sizes ==
    ASSUME conf \in Config
    PROVE  /\ BlockSize \in Nat \ {0} /\ WarpSize \in Nat \ {0}
           /\ BlockSize % WarpSize = 0
           /\ conf.fine \in BOOLEAN
           /\ 0 \in Thread /\ Thread \subseteq Nat /\ BlockSize \notin Thread
           /\ OneWarp /\ conf.fine => BlockSize = WarpSize
  BY ConfigAssumption DEF BlockSize, WarpSize, Thread, OneWarp

LEMMA Division ==
    ASSUME NEW b \in Nat \ {0}, NEW a \in Nat
    PROVE  /\ a = b * (a \div b) + (a % b)
           /\ a \div b \in Nat
           /\ a % b \in 0..(b - 1)
  OBVIOUS

LEMMA Remainder ==
    ASSUME NEW b \in Nat \ {0}, NEW q \in Nat, NEW r \in 0..(b - 1)
    PROVE  (b * q + r) % b = r /\ (b * q + r) \div b = q
<1> DEFINE a == b * q + r
<1>1. a \in Nat /\ r \in Nat
  OBVIOUS
<1> HIDE DEF a
<1>2. a = b * (a \div b) + (a % b) /\ a \div b \in Nat /\ a % b \in 0..(b - 1)
  BY <1>1, Division
<1>3. a = b * q + r
  BY DEF a
<1> DEFINE p == a \div b
           m == a % b
<1>4. p \in Nat /\ m \in 0..(b - 1) /\ b * p + m = b * q + r
  BY <1>2, <1>3
<1> HIDE DEF p, m
<1>5. ~(p < q)
  <2> SUFFICES ASSUME p < q PROVE FALSE
    OBVIOUS
  <2>1. b * q >= b * (p + 1)
    BY <1>4
  <2> QED  BY <1>4, <2>1
<1>6. ~(q < p)
  <2> SUFFICES ASSUME q < p PROVE FALSE
    OBVIOUS
  <2>1. b * p >= b * (q + 1)
    BY <1>4
  <2> QED  BY <1>4, <2>1
<1>7. p = q /\ m = r
  BY <1>4, <1>5, <1>6
<1> QED  BY <1>7 DEF p, m, a

LEMMA Aligned ==
    ASSUME NEW b \in Nat \ {0}, NEW n \in Nat \ {0}, n % b = 0, NEW t \in 0..(n - 1),
           NEW r \in 0..(b - 1)
    PROVE  b * (t \div b) + r \in 0..(n - 1)
<1> DEFINE q == t \div b
           k == n \div b
<1>1. t \in Nat /\ n \in Nat
  OBVIOUS
<1>2. n = b * k + (n % b) /\ k \in Nat
  BY <1>1, Division
<1>3. t = b * q + (t % b) /\ q \in Nat /\ t % b \in 0..(b - 1)
  BY <1>1, Division
<1> HIDE DEF q, k
<1>4. n = b * k /\ t \in Nat /\ t < n
  BY <1>1, <1>2
<1>5. q < k
  <2> SUFFICES ASSUME k <= q PROVE FALSE
    BY <1>2, <1>3
  <2>1. b * k <= b * q
    BY <1>2, <1>3
  <2> QED  BY <1>3, <1>4, <2>1
<1>6. b * (q + 1) <= b * k /\ b * (q + 1) = b * q + b
  BY <1>2, <1>3, <1>5
<1>7. b * q \in Nat
  BY <1>3
<1>8. b * q + r \in 0..(n - 1)
  BY <1>4, <1>6, <1>7
<1> QED  BY <1>8 DEF q

LEMMA Warps ==
    ASSUME conf \in Config, NEW t \in Thread
    PROVE  /\ WarpOf(t) \subseteq Thread
           /\ t \in WarpOf(t)
           /\ Lane(t) \in 0..(WarpSize - 1)
           /\ \A u \in WarpOf(t) : WarpOf(u) = WarpOf(t)
           /\ \A u \in Thread \ WarpOf(t) : WarpOf(u) \cap WarpOf(t) = {}
           /\ \A u, v \in WarpOf(t) : Lane(u) = Lane(v) => u = v
           /\ \A r \in 0..(WarpSize - 1) : \E u \in WarpOf(t) : Lane(u) = r
<1>1. BlockSize \in Nat \ {0} /\ WarpSize \in Nat \ {0} /\ BlockSize % WarpSize = 0
      /\ Thread \subseteq Nat
  BY Sizes
<1>2. /\ WarpOf(t) \subseteq Thread
      /\ t \in WarpOf(t)
      /\ \A u \in WarpOf(t) : WarpOf(u) = WarpOf(t)
      /\ \A u \in Thread \ WarpOf(t) : WarpOf(u) \cap WarpOf(t) = {}
  BY DEF WarpOf
<1>3. Lane(t) \in 0..(WarpSize - 1)
  BY <1>1, Division DEF Lane
<1>4. ASSUME NEW u \in WarpOf(t), NEW v \in WarpOf(t), Lane(u) = Lane(v) PROVE u = v
  <2>1. u \div WarpSize = v \div WarpSize /\ u % WarpSize = v % WarpSize
    BY <1>4 DEF WarpOf, Lane
  <2>2. u \in Nat /\ v \in Nat
    BY <1>1, <1>2
  <2>3. u = WarpSize * (u \div WarpSize) + (u % WarpSize)
    BY <1>1, <2>2, Division
  <2>4. v = WarpSize * (v \div WarpSize) + (v % WarpSize)
    BY <1>1, <2>2, Division
  <2> QED  BY <2>1, <2>3, <2>4
<1>5. ASSUME NEW r \in 0..(WarpSize - 1) PROVE \E u \in WarpOf(t) : Lane(u) = r
  <2> DEFINE u == WarpSize * (t \div WarpSize) + r
  <2>1. t \in 0..(BlockSize - 1) /\ t \in Nat
    BY <1>1 DEF Thread
  <2>2. u \in 0..(BlockSize - 1)
    BY <1>1, <2>1, Aligned
  <2>3. t \div WarpSize \in Nat
    BY <1>1, <2>1, Division
  <2>4. u % WarpSize = r /\ u \div WarpSize = t \div WarpSize
    BY <1>1, <2>3, Remainder
  <2> HIDE DEF u
  <2> QED  BY <2>2, <2>4 DEF WarpOf, Lane, Thread
<1> QED  BY <1>2, <1>3, <1>4, <1>5

LEMMA OneWarpFacts ==
    ASSUME conf \in Config, BlockSize = WarpSize, NEW t \in Thread
    PROVE  WarpOf(t) = Thread /\ Lane(t) = t /\ t \div WarpSize = 0 /\ WarpOffset(t) = 0
<1>1. WarpSize \in Nat \ {0} /\ Thread = 0..(WarpSize - 1)
  BY Sizes DEF Thread
<1>2. ASSUME NEW u \in Thread PROVE u % WarpSize = u /\ u \div WarpSize = 0
  <2>1. 0 \in Nat /\ WarpSize * 0 + u = u /\ u \in 0..(WarpSize - 1)
    BY <1>1
  <2> QED  BY <1>1, <2>1, Remainder
<1> QED  BY <1>1, <1>2 DEF WarpOf, Lane, WarpOffset
-----------------------------------------------------------------------------
(***************************************************************************)
(* What the prefix sums compute: for each thread what it has left and all  *)
(* that the threads before it have left.                                   *)
(***************************************************************************)
LEMMA DeltaFacts ==
    ASSUME conf \in Config
    PROVE  /\ Delta \in [0..WarpSize -> Nat] /\ Delta[0] = 1
           /\ \A k \in 0..(WarpSize - 1) : Delta[k + 1] = 2 * Delta[k]
           /\ Steps \in 0..WarpSize /\ Delta[Steps] >= WarpSize
<1>1. WarpSize \in Nat \ {0}
  BY Sizes
<1> DEFINE F == [p \in Nat \X Nat |-> 2 * p[2]]
<1>2. F \in [Nat \X Nat -> Nat] /\ \A m, x \in Nat : F[<<m, x>>] = 2 * x
  OBVIOUS
<1> HIDE DEF F
<1>3. PICK h \in [0..WarpSize -> Nat] : Follows(h, 1, F, WarpSize)
  <2>1. 1 \in Nat
    OBVIOUS
  <2> QED  BY <1>1, <1>2, <2>1, Recursion
<1>4. h[0] = 1
  BY <1>3 DEF Follows
<1>5. ASSUME NEW m \in 1..WarpSize PROVE h[m] = 2 * h[m - 1]
  <2>1. m \in Nat /\ h[m - 1] \in Nat
    BY <1>1
  <2> QED  BY <1>2, <1>3, <2>1 DEF Follows
<1>6. h = [k \in 0..WarpSize |-> IF k = 0 THEN 1 ELSE 2 * h[k - 1]]
  BY <1>1, <1>4, <1>5
<1>7. Delta = [k \in 0..WarpSize |-> IF k = 0 THEN 1 ELSE 2 * Delta[k - 1]]
  BY <1>6 DEF Delta
<1> DEFINE S == {k \in Nat : k <= WarpSize => Delta[k] \in Nat /\ Delta[k] > k}
<1>8. 0 \in S
  BY <1>1, <1>7
<1>9. ASSUME NEW k \in Nat, k \in S PROVE k + 1 \in S
  <2> SUFFICES ASSUME k + 1 <= WarpSize
               PROVE  Delta[k + 1] \in Nat /\ Delta[k + 1] > k + 1
    OBVIOUS
  <2>1. k + 1 \in 0..WarpSize /\ (k + 1) - 1 = k /\ k + 1 # 0
    BY <1>1
  <2>2. Delta[k] \in Nat /\ Delta[k] > k
    BY <1>1, <1>9
  <2>3. Delta[k + 1] = 2 * Delta[k]
    BY <1>7, <2>1
  <2> QED  BY <2>2, <2>3
<1> HIDE DEF S
<1>10. Nat \subseteq S
  BY <1>8, <1>9, NatSetInduction
<1>11. \A k \in 0..WarpSize : Delta[k] \in Nat /\ Delta[k] > k
  BY <1>1, <1>10 DEF S
<1>12. \A k \in 0..(WarpSize - 1) : Delta[k + 1] = 2 * Delta[k]
  BY <1>1, <1>7
<1>13. Delta[0] = 1
  BY <1>1, <1>7
<1>14. Delta \in [0..WarpSize -> Nat]
  BY <1>7, <1>11
<1>15. Steps \in 0..WarpSize /\ Delta[Steps] >= WarpSize
  <2> DEFINE T == {k \in 0..WarpSize : Delta[k] >= WarpSize}
  <2>1. T \subseteq Nat /\ WarpSize \in T
    BY <1>1, <1>11
  <2>2. PICK x \in T : \A y \in T : <<y, x>> \notin Less
    BY <2>1, LessWellFounded, WFMin
  <2>3. x \in 0..WarpSize /\ Delta[x] >= WarpSize
    OBVIOUS
  <2>4. ASSUME NEW i \in 0..(x - 1) PROVE Delta[i] < WarpSize
    <3>1. i \in Nat /\ x \in Nat /\ i < x /\ i \in 0..WarpSize
      BY <1>1, <2>3
    <3>2. <<i, x>> \in Less
      BY <3>1 DEF Less
    <3>3. i \notin T
      BY <2>2, <3>2
    <3>4. ~(Delta[i] >= WarpSize) /\ Delta[i] \in Nat
      BY <1>14, <3>1, <3>3
    <3> QED  BY <1>1, <3>4
  <2> QED  BY <2>3, <2>4 DEF Steps
<1> QED  BY <1>12, <1>13, <1>14, <1>15

Place(t) == Sums(localSize, BlockSize)[t]

LEMMA PlaceFacts ==
    ASSUME conf \in Config, localSize \in [Thread -> Nat]
    PROVE  /\ \A t \in 0..BlockSize : Place(t) \in Nat
           /\ Place(0) = 0
           /\ \A t \in Thread : Place(t + 1) = Place(t) + localSize[t]
<1>1. BlockSize \in Nat /\ Thread = 0..(BlockSize - 1)
  BY Sizes DEF Thread
<1> QED  BY <1>1, SumsFacts DEF Place

LEMMA PrefixStep ==
    ASSUME conf \in Config, localSize \in [Thread -> Nat], BlockSize = WarpSize
    PROVE  /\ Prefix[0] = localSize
           /\ \A k \in 1..Steps : \A t \in Thread :
                 Prefix[k][t] = Prefix[k - 1][t]
                     + (IF t >= Delta[k - 1] THEN Prefix[k - 1][t - Delta[k - 1]] ELSE 0)
<1>1. /\ Delta \in [0..WarpSize -> Nat] /\ Steps \in 0..WarpSize /\ WarpSize \in Nat
      /\ Thread = 0..(WarpSize - 1) /\ \A t \in Thread : Lane(t) = t
  BY Sizes, DeltaFacts, OneWarpFacts DEF Thread
<1> DEFINE V == [Thread -> Nat]
           Add(k, g) == [t \in Thread |->
               g[t] + (IF Lane(t) >= Delta[k - 1] THEN g[t - Delta[k - 1]] ELSE 0)]
           F == [p \in Nat \X V |-> IF p[1] \in 1..Steps THEN Add(p[1], p[2]) ELSE p[2]]
<1>2. ASSUME NEW k \in 1..Steps, NEW g \in V PROVE Add(k, g) \in V
  <2> SUFFICES ASSUME NEW t \in Thread
               PROVE  g[t] + (IF Lane(t) >= Delta[k - 1] THEN g[t - Delta[k - 1]] ELSE 0) \in Nat
    OBVIOUS
  <2>1. k - 1 \in 0..WarpSize /\ Delta[k - 1] \in Nat /\ t \in Nat /\ Lane(t) = t
    BY <1>1
  <2>2. t >= Delta[k - 1] => t - Delta[k - 1] \in Thread
    BY <1>1, <2>1
  <2>3. t >= Delta[k - 1] => g[t - Delta[k - 1]] \in Nat
    BY <2>2
  <2> QED  BY <2>1, <2>3
<1> HIDE DEF Add
<1>3. F \in [Nat \X V -> V]
  BY <1>2
<1>4. \A k \in 1..Steps : \A g \in V : F[<<k, g>>] = Add(k, g)
  BY <1>1
<1> HIDE DEF F, V
<1>5. localSize \in V /\ Steps \in Nat
  BY <1>1 DEF V
<1>6. PICK h \in [0..Steps -> V] : Follows(h, localSize, F, Steps)
  BY <1>3, <1>5, Recursion
<1>7. h[0] = localSize
  BY <1>6 DEF Follows
<1>8. ASSUME NEW k \in 1..Steps PROVE h[k] = Add(k, h[k - 1])
  <2>1. h[k - 1] \in V
    BY <1>5
  <2> QED  BY <1>4, <1>6, <2>1 DEF Follows
<1>9. h = [k \in 0..Steps |-> IF k = 0 THEN localSize ELSE Add(k, h[k - 1])]
  BY <1>5, <1>7, <1>8
<1>10. Prefix = [k \in 0..Steps |-> IF k = 0 THEN localSize ELSE Add(k, Prefix[k - 1])]
  <2> USE DEF Add
  <2> QED  BY <1>9 DEF Prefix
<1>11. Prefix[0] = localSize
  BY <1>5, <1>10
<1>12. ASSUME NEW k \in 1..Steps, NEW t \in Thread
       PROVE  Prefix[k][t] = Prefix[k - 1][t]
                  + (IF t >= Delta[k - 1] THEN Prefix[k - 1][t - Delta[k - 1]] ELSE 0)
  <2>1. Prefix[k] = Add(k, Prefix[k - 1])
    BY <1>5, <1>10
  <2> QED  BY <1>1, <2>1 DEF Add
<1> QED  BY <1>11, <1>12

LEMMA Shifted ==
    ASSUME NEW w \in Nat, NEW u \in Nat, NEW d \in Nat, u < w, d <= u
    PROVE  /\ u - d \in 0..(w - 1) /\ u - d \in Nat
           /\ (u - d) + 1 = (u + 1) - d
           /\ (u - d) + 1 \in 0..w
  OBVIOUS

LEMMA PrefixIsSum ==
    ASSUME conf \in Config, localSize \in [Thread -> Nat], BlockSize = WarpSize,
           NEW t \in Thread
    PROVE  Prefix[Steps][t] = Place(t + 1)
<1>1. /\ WarpSize \in Nat /\ Thread = 0..(WarpSize - 1) /\ BlockSize = WarpSize
      /\ Steps \in 0..WarpSize /\ Delta \in [0..WarpSize -> Nat] /\ Delta[0] = 1
      /\ Delta[Steps] >= WarpSize
  BY Sizes, DeltaFacts DEF Thread
<1>2. \A k \in 0..(WarpSize - 1) : Delta[k + 1] = 2 * Delta[k]
  BY DeltaFacts
<1>3. /\ Place(0) = 0
      /\ \A u \in 0..WarpSize : Place(u) \in Nat
      /\ \A u \in Thread : Place(u + 1) = Place(u) + localSize[u]
  BY <1>1, PlaceFacts
<1> DEFINE From(k, u) == IF u + 1 >= Delta[k] THEN (u + 1) - Delta[k] ELSE 0
           Right(k) == \A u \in Thread : Prefix[k][u] = Place(u + 1) - Place(From(k, u))
           S == {k \in Nat : k <= Steps => Right(k)}
<1>4. 0 \in S
  <2> SUFFICES ASSUME NEW u \in Thread
               PROVE  Prefix[0][u] = Place(u + 1) - Place(From(0, u))
    OBVIOUS
  <2>1. u \in Nat /\ u + 1 >= 1 /\ u + 1 - 1 = u /\ u \in 0..WarpSize
    BY <1>1
  <2>2. From(0, u) = u
    BY <1>1, <2>1
  <2>3. Prefix[0][u] = localSize[u] /\ localSize[u] \in Nat
    BY PrefixStep
  <2>4. Place(u + 1) = Place(u) + localSize[u] /\ Place(u) \in Nat
    BY <1>3, <2>1
  <2> HIDE DEF From
  <2> QED  BY <2>2, <2>3, <2>4
<1>5. ASSUME NEW k \in Nat, k \in S PROVE k + 1 \in S
  <2> SUFFICES ASSUME k + 1 <= Steps, NEW u \in Thread
               PROVE  Prefix[k + 1][u] = Place(u + 1) - Place(From(k + 1, u))
    OBVIOUS
  <2>1. k + 1 \in 1..Steps /\ (k + 1) - 1 = k /\ k \in 0..(WarpSize - 1) /\ k \in 0..WarpSize
    BY <1>1
  <2>2. Right(k)
    BY <1>1, <1>5, <2>1
  <2>3. Delta[k + 1] = 2 * Delta[k] /\ Delta[k] \in Nat
    BY <1>1, <1>2, <2>1
  <2>4. Prefix[k + 1][u] = Prefix[k][u]
            + (IF u >= Delta[k] THEN Prefix[k][u - Delta[k]] ELSE 0)
    BY <2>1, PrefixStep
  <2>5. u \in Nat /\ u + 1 \in 0..WarpSize /\ Place(u + 1) \in Nat
    BY <1>1, <1>3
  <2>6. Prefix[k][u] = Place(u + 1) - Place(From(k, u))
    BY <2>2
  <2>7. CASE u >= Delta[k]
    <3> DEFINE v == u - Delta[k]
    <3>0. WarpSize \in Nat /\ u \in Nat /\ Delta[k] \in Nat /\ u < WarpSize /\ Delta[k] <= u
      BY <1>1, <2>3, <2>5, <2>7
    <3>1. v \in Thread /\ v \in Nat /\ v + 1 = (u + 1) - Delta[k] /\ v + 1 \in 0..WarpSize
      BY <1>1, <3>0, Shifted
    <3>2. From(k, u) = v + 1
      BY <2>3, <2>5, <2>7, <3>1
    <3>3. From(k, v) = From(k + 1, u)
      BY <2>3, <2>5, <2>7
    <3>4. From(k, v) \in 0..WarpSize
      <4> HIDE DEF v
      <4>1. v + 1 \in Nat /\ v + 1 <= WarpSize /\ Delta[k] \in Nat /\ WarpSize \in Nat
        BY <1>1, <2>3, <3>1
      <4>2. CASE v + 1 >= Delta[k]
        <5>1. (v + 1) - Delta[k] \in Nat /\ (v + 1) - Delta[k] <= v + 1
          BY <4>1, <4>2
        <5>2. (v + 1) - Delta[k] \in 0..WarpSize
          BY <4>1, <5>1
        <5> QED  BY <4>2, <5>2
      <4>3. CASE ~(v + 1 >= Delta[k])
        <5>1. 0 \in 0..WarpSize
          BY <4>1
        <5> QED  BY <4>3, <5>1
      <4> QED  BY <4>2, <4>3
    <3>5. Prefix[k][v] = Place(v + 1) - Place(From(k, v))
      BY <2>2, <3>1
    <3>6. Place(v + 1) \in Nat /\ Place(From(k, v)) \in Nat
      BY <1>3, <3>1, <3>4
    <3>7. Prefix[k + 1][u] = Prefix[k][u] + Prefix[k][v]
      BY <2>4, <2>7
    <3> HIDE DEF From, v
    <3> QED  BY <2>5, <2>6, <3>2, <3>3, <3>5, <3>6, <3>7
  <2>8. CASE ~(u >= Delta[k])
    <3>1. From(k, u) = 0 /\ From(k + 1, u) = 0
      <4>1. Delta[k] >= u + 1
        BY <2>3, <2>5, <2>8
      <4>2. u + 1 >= Delta[k] => (u + 1) - Delta[k] = 0
        BY <2>3, <2>5, <4>1
      <4>3. ~(u + 1 >= Delta[k + 1])
        BY <2>3, <2>5, <4>1
      <4> QED  BY <4>2, <4>3
    <3>2. Prefix[k + 1][u] = Prefix[k][u] + 0
      BY <2>4, <2>8
    <3> HIDE DEF From
    <3> QED  BY <1>3, <2>5, <2>6, <3>1, <3>2
  <2> QED  BY <2>7, <2>8
<1> HIDE DEF S
<1>6. Nat \subseteq S
  BY <1>4, <1>5, NatSetInduction
<1>7. Right(Steps)
  <2> HIDE DEF Right
  <2>1. Steps \in Nat /\ Steps <= Steps
    BY <1>1
  <2>2. Steps \in S
    BY <1>6, <2>1
  <2> QED  BY <2>1, <2>2 DEF S
<1>8. From(Steps, t) = 0
  BY <1>1
<1>9. Prefix[Steps][t] = Place(t + 1) - Place(From(Steps, t))
  BY <1>7
<1>10. t + 1 \in 0..WarpSize
  BY <1>1
<1> HIDE DEF From
<1> QED  BY <1>3, <1>8, <1>9, <1>10
-----------------------------------------------------------------------------
(***************************************************************************)
(* The inductive invariant.                                                *)
(***************************************************************************)
Size(t) == range[t][2] - range[t][1]
Element(t, j) == <<LocalSrc(t), range[t][1] + j>>
Published(g, s) == g = <<LocalSrc(s), range[s][1], Size(s)>>
Words == <<shared[1], shared[2], shared[3]>>
AllIn(S) == \A t \in Thread : pc[t] \in S

(***************************************************************************)
(* A thread has done nothing of its range or handed all of it out.  What   *)
(* was worked is Worked, a set of thread and position, and worked once.    *)
(***************************************************************************)
Partial ==
    /\ \A t \in Thread : localSize[t] \in {0, Size(t)}
    /\ \A x \in DOMAIN worked : worked[x] = 1 /\ x \in Todo

Handed(t) == localSize[t] = 0
IsWorked(t, j) == Element(t, j) \in DOMAIN worked

(***************************************************************************)
(* The parts of schedule, of which the threads are in one at a time, and   *)
(* in each what has been worked.                                           *)
(***************************************************************************)
Starting ==
    /\ AllIn({"begin", "sync_begin"})
    /\ At(0, "sync_begin") => shared[Owner] = BlockSize
    /\ \A t \in Thread : \A j \in 0..(Size(t) - 1) : IsWorked(t, j) <=> Handed(t)

Competing ==
    /\ AllIn({"compete", "sync_competed"})
    /\ \/ /\ shared[Owner] = BlockSize
          /\ \A t \in Thread : At(t, "sync_competed") => localSize[t] < BlockSize
       \/ \E s \in Thread : shared[Owner] = s /\ localSize[s] >= BlockSize
    /\ \A t \in Thread : \A j \in 0..(Size(t) - 1) : IsWorked(t, j) <=> Handed(t)

Winning(s) ==
    /\ AllIn({"check", "win", "sync_won"})
    /\ shared[Owner] = s
    /\ IF At(s, "sync_won") THEN Published(Words, s) /\ Handed(s) ELSE localSize[s] >= BlockSize
    /\ \A t \in Thread : \A j \in 0..(Size(t) - 1) : IsWorked(t, j) <=> Handed(t) /\ t # s

Reading(s) ==
    /\ AllIn({"read", "sync_read"})
    /\ Published(Words, s) /\ Handed(s)
    /\ shared[Owner] = IF At(s, "read") THEN s ELSE BlockSize
    /\ \A t \in Thread : At(t, "sync_read") => Published(got[t], s)
    /\ \A t \in Thread : \A j \in 0..(Size(t) - 1) : IsWorked(t, j) <=> Handed(t) /\ t # s

Working(s) ==
    /\ AllIn({"work", "sync_worked"})
    /\ shared[Owner] = BlockSize
    /\ Handed(s)
    /\ \A t \in Thread : Published(got[t], s)
    /\ \A t \in Thread : \A j \in 0..(Size(t) - 1) :
          IsWorked(t, j) <=> Handed(t) /\ (t = s => At(j % BlockSize, "sync_worked"))

(* A thread of the warp has got the element to work on.                    *)
Taken(t, j) ==
    \E u \in WarpOf(t) :
        At(u, "warp_work") /\ got[u][1] = LocalSrc(t) /\ Lane(u) = j % WarpSize

Sharing ==
    /\ AllIn({"check", "warp", "warp_work"} \cup (IF conf.fine THEN {} ELSE {"own", "exit"}))
    /\ \A t \in Thread : localSize[t] < BlockSize
    /\ (\E t \in Thread : At(t, "check")) => shared[Owner] = BlockSize
    /\ \A t \in Thread : At(t, "warp_work") =>
          \E s \in WarpOf(t) : Published(got[t], s) /\ Handed(s)
    /\ \A t \in Thread : \A j \in 0..(Size(t) - 1) :
          IsWorked(t, j) <=> IF Handed(t) THEN ~Taken(t, j) ELSE At(t, "exit")

(***************************************************************************)
(* The fine-grained mode: the elements of the threads follow one another.  *)
(***************************************************************************)
Scattered(t) ==
    \A i \in 0..(localSize[t] - 1) :
        /\ shared[FgSrc(Place(t) + i)] = LocalSrc(t)
        /\ shared[FgData(Place(t) + i)] = range[t][1] + i

Spreading ==
    /\ conf.fine
    /\ AllIn({"scatter", "warp_sync"}) \/ AllIn({"gather", "exit"})
    /\ \A t \in Thread :
          /\ localSize[t] < WarpSize
          /\ offset[t] = Place(t)
          /\ got[t] = <<0, 0, Place(BlockSize)>>
          /\ ~At(t, "scatter") => Scattered(t)
    /\ \A t \in Thread : \A j \in 0..(Size(t) - 1) :
          IsWorked(t, j) <=> Handed(t) \/ At((Place(t) + j) % WarpSize, "exit")

Together ==
    \/ Starting \/ Competing
    \/ \E s \in Thread : Winning(s) \/ Reading(s) \/ Working(s)
    \/ Sharing \/ Spreading

Inv == TypeOK /\ Partial /\ Together
-----------------------------------------------------------------------------
(***************************************************************************)
(* What does not change, and which part the threads are in.                *)
(***************************************************************************)
LEMMA Fixed ==
    ASSUME conf' = conf, range' = range
    PROVE  /\ Thread' = Thread /\ BlockSize' = BlockSize /\ WarpSize' = WarpSize
           /\ FgSize' = FgSize /\ Word' = Word /\ Todo' = Todo
           /\ \A t : /\ Size(t)' = Size(t) /\ WarpOf(t)' = WarpOf(t) /\ Lane(t)' = Lane(t)
                     /\ LocalSrc(t)' = LocalSrc(t)
           /\ \A t, j : Element(t, j)' = Element(t, j)
  BY DEF Thread, BlockSize, WarpSize, FgSize, Word, Todo, Item, Size, WarpOf, Lane, LocalSrc,
         Element

LEMMA Regions ==
    ASSUME Together, NEW t \in Thread
    PROVE  /\ pc[t] \in {"begin", "sync_begin"} => Starting
           /\ pc[t] \in {"compete", "sync_competed"} => Competing
           /\ pc[t] = "check" => Sharing \/ \E s \in Thread : Winning(s)
           /\ pc[t] \in {"win", "sync_won"} => \E s \in Thread : Winning(s)
           /\ pc[t] \in {"read", "sync_read"} => \E s \in Thread : Reading(s)
           /\ pc[t] \in {"work", "sync_worked"} => \E s \in Thread : Working(s)
           /\ pc[t] \in {"warp", "warp_work", "own"} => Sharing
           /\ pc[t] \in {"scatter", "warp_sync", "gather"} => Spreading
           /\ pc[t] = "exit" => Sharing \/ Spreading
<1>1. Starting => pc[t] \in {"begin", "sync_begin"}
  BY DEF Starting, AllIn
<1>2. Competing => pc[t] \in {"compete", "sync_competed"}
  BY DEF Competing, AllIn
<1>3. \A s \in Thread : Winning(s) => pc[t] \in {"check", "win", "sync_won"}
  BY DEF Winning, AllIn
<1>4. \A s \in Thread : Reading(s) => pc[t] \in {"read", "sync_read"}
  BY DEF Reading, AllIn
<1>5. \A s \in Thread : Working(s) => pc[t] \in {"work", "sync_worked"}
  BY DEF Working, AllIn
<1>6. Sharing => pc[t] \in {"check", "warp", "warp_work", "own", "exit"}
  BY DEF Sharing, AllIn
<1>7. Spreading => pc[t] \in {"scatter", "warp_sync", "gather", "exit"}
  BY DEF Spreading, AllIn
<1> QED  BY <1>1, <1>2, <1>3, <1>4, <1>5, <1>6, <1>7 DEF Together

LEMMA SizeFacts ==
    ASSUME TypeOK, NEW t \in Thread
    PROVE  /\ Size(t) \in Nat /\ range[t][1] \in Nat /\ LocalSrc(t) \in Nat
           /\ localSize[t] \in Nat /\ Size(t) + range[t][1] = range[t][2]
<1>1. range[t] \in Nat \X Nat /\ range[t][1] <= range[t][2]
  BY RangesAssumption DEF TypeOK
<1>2. t \in Nat
  BY Sizes DEF TypeOK
<1> QED  BY <1>1, <1>2, SrcAssumption DEF TypeOK, Size, LocalSrc

LEMMA WordFacts ==
    ASSUME conf \in Config
    PROVE  /\ BlockSize \in Nat /\ FgSize \in Nat \ {0} /\ Thread \subseteq Nat
           /\ Owner \in Word /\ 1 \in Word /\ 2 \in Word /\ 3 \in Word
           /\ Owner # 1 /\ Owner # 2 /\ Owner # 3
<1>1. BlockSize \in Nat \ {0} /\ WarpSize \in Nat \ {0} /\ Thread \subseteq Nat
  BY Sizes
<1>2. \A a, b \in Nat \ {0} : a * b \in Nat \ {0}
  OBVIOUS
<1>3. FgSize \in Nat \ {0}
  BY <1>1, <1>2 DEF FgSize
<1> QED  BY <1>1, <1>3 DEF Owner, Word

LEMMA ElementsDiffer ==
    ASSUME TypeOK, NEW s \in Thread, NEW t \in Thread, NEW i \in Nat, NEW j \in Nat,
           Element(s, i) = Element(t, j)
    PROVE  s = t /\ i = j
<1>1. LocalSrc(s) = LocalSrc(t) /\ range[s][1] + i = range[t][1] + j
  BY DEF Element
<1>2. s \in Nat /\ t \in Nat
  BY Sizes DEF TypeOK
<1>3. s = t
  BY <1>1, <1>2, SrcAssumption DEF LocalSrc
<1> QED  BY <1>1, <1>3, SizeFacts

LEMMA TodoIs ==
    ASSUME TypeOK
    PROVE  /\ \A x \in Todo : \E t \in Thread : \E j \in 0..(Size(t) - 1) : x = Element(t, j)
           /\ \A t \in Thread : \A j \in 0..(Size(t) - 1) : Element(t, j) \in Todo
<1>1. ASSUME NEW x \in Todo
      PROVE  \E t \in Thread : \E j \in 0..(Size(t) - 1) : x = Element(t, j)
  <2>1. PICK t \in Thread, i \in UNION {r[1]..r[2] : r \in Ranges} : x = <<LocalSrc(t), i>>
    BY DEF Todo, Item
  <2>2. i \in Nat
    BY RangesAssumption
  <2>3. x[1] - FirstSrc = t
    BY <2>1, Sizes, SrcAssumption DEF LocalSrc, TypeOK
  <2>4. range[t][1] <= i /\ i < range[t][2]
    BY <2>1, <2>3 DEF Todo
  <2>5. i - range[t][1] \in 0..(Size(t) - 1) /\ range[t][1] + (i - range[t][1]) = i
    BY <2>2, <2>4, SizeFacts
  <2> QED  BY <2>1, <2>5 DEF Element
<1>2. ASSUME NEW t \in Thread, NEW j \in 0..(Size(t) - 1)
      PROVE  Element(t, j) \in Todo
  <2> DEFINE i == range[t][1] + j
  <2>1. /\ i \in Nat /\ range[t][1] <= i /\ i < range[t][2] /\ range[t][2] \in Nat
        /\ range[t] \in Ranges
    BY SizeFacts DEF TypeOK
  <2>2. i \in range[t][1]..range[t][2]
    BY <2>1, SizeFacts
  <2> HIDE DEF i
  <2>3. <<LocalSrc(t), i>> \in Item
    BY <2>1, <2>2 DEF Item
  <2>4. LocalSrc(t) - FirstSrc = t
    BY Sizes, SrcAssumption DEF LocalSrc, TypeOK
  <2>5. <<LocalSrc(t), i>> \in Todo
    BY <2>1, <2>3, <2>4 DEF Todo
  <2> QED  BY <2>5 DEF Element, i
<1> QED  BY <1>1, <1>2

LEMMA BagFacts ==
    ASSUME NEW B, IsABag(B), NEW S
    PROVE  /\ IsABag(B (+) SetToBag(S))
           /\ DOMAIN (B (+) SetToBag(S)) = DOMAIN B \cup S
           /\ (\A x \in DOMAIN B : B[x] = 1) /\ DOMAIN B \cap S = {}
                 => \A x \in DOMAIN B \cup S : (B (+) SetToBag(S))[x] = 1
<1> DEFINE C == B (+) SetToBag(S)
<1>1. C = [x \in DOMAIN B \cup S |-> (IF x \in DOMAIN B THEN B[x] ELSE 0)
                                        + (IF x \in S THEN 1 ELSE 0)]
  BY DEF (+), SetToBag
<1>2. \A x \in DOMAIN B : B[x] \in Nat /\ B[x] > 0
  BY DEF IsABag
<1> HIDE DEF C
<1>3. \A x \in DOMAIN B \cup S : C[x] \in {n \in Nat : n > 0}
  BY <1>1, <1>2
<1>4. IsABag(C)
  BY <1>1, <1>3 DEF IsABag
<1>5. (\A x \in DOMAIN B : B[x] = 1) /\ DOMAIN B \cap S = {}
          => \A x \in DOMAIN B \cup S : C[x] = 1
  BY <1>1
<1> QED  BY <1>1, <1>4, <1>5 DEF C

(* Calls of work that were not made yet, for elements of some ranges. *)
LEMMA WorkMore ==
    ASSUME Inv, conf' = conf, range' = range, localSize' = localSize, NEW S,
           worked' = worked (+) SetToBag(S),
           \A x \in S : \E t \in Thread : \E j \in 0..(Size(t) - 1) :
               x = Element(t, j) /\ ~IsWorked(t, j)
    PROVE  /\ IsABag(worked') /\ Partial'
           /\ \A t \in Thread : \A j \in 0..(Size(t) - 1) :
                 IsWorked(t, j)' <=> IsWorked(t, j) \/ Element(t, j) \in S
<1>1. IsABag(worked) /\ TypeOK /\ \A x \in DOMAIN worked : worked[x] = 1 /\ x \in Todo
  BY DEF Inv, TypeOK, Partial
<1>2. DOMAIN worked \cap S = {}
  BY DEF IsWorked
<1>3. S \subseteq Todo
  BY <1>1, TodoIs
<1>4. /\ IsABag(worked') /\ DOMAIN worked' = DOMAIN worked \cup S
      /\ \A x \in DOMAIN worked \cup S : worked'[x] = 1
  BY <1>1, <1>2, BagFacts
<1>5. \A x \in DOMAIN worked' : worked'[x] = 1 /\ x \in Todo'
  BY <1>1, <1>3, <1>4, Fixed
<1>6. \A t \in Thread' : localSize'[t] \in {0, Size(t)'}
  BY Fixed DEF Inv, Partial
<1>7. Partial'
  BY <1>5, <1>6 DEF Partial
<1> QED  BY <1>4, <1>7, Fixed DEF IsWorked

LEMMA WorkSame ==
    ASSUME Inv, conf' = conf, range' = range, worked' = worked
    PROVE  /\ IsABag(worked')
           /\ localSize' = localSize => Partial'
           /\ \A t, j : IsWorked(t, j)' = IsWorked(t, j)
  BY Fixed DEF Inv, TypeOK, Partial, IsWorked
-----------------------------------------------------------------------------
(***************************************************************************)
(* The steps of the block's scheduler keep the invariant.                  *)
(***************************************************************************)
LEMMA BeginInv ==
    ASSUME Inv, NEW t \in Thread, Begin(t)
    PROVE  Inv'
<1>1. /\ conf' = conf /\ range' = range /\ localSize' = localSize /\ worked' = worked
      /\ got' = got /\ offset' = offset /\ pc[t] = "begin"
  BY DEF Begin, At
<1>2. TypeOK /\ Starting
  BY <1>1, Regions DEF Inv
<1>3. /\ shared \in [Word -> Nat \cup {Junk}] /\ pc \in [Thread -> BlockPoint \cup LaterPoint]
      /\ BlockSize \in Nat /\ Owner \in Word
  BY <1>2, WordFacts DEF TypeOK
<1>4. /\ pc'[t] = "sync_begin" /\ \A u \in Thread \ {t} : pc'[u] = pc[u]
      /\ pc' \in [Thread -> BlockPoint \cup LaterPoint]
  BY <1>3 DEF Begin, Goto, BlockPoint, Behind
<1>5. /\ shared' \in [Word -> Nat \cup {Junk}]
      /\ t = 0 => shared'[Owner] = BlockSize
      /\ t # 0 => shared' = shared
  BY <1>3 DEF Begin
<1>6. TypeOK'
  BY <1>1, <1>2, <1>4, <1>5, Fixed, WorkSame DEF TypeOK
<1>7. Starting'
  <2>1. AllIn({"begin", "sync_begin"})'
    BY <1>1, <1>2, <1>4, Fixed DEF Starting, AllIn
  <2>2. At(0, "sync_begin")' => shared'[Owner] = BlockSize'
    BY <1>1, <1>2, <1>4, <1>5, Fixed, Sizes DEF Starting, At, TypeOK
  <2>3. \A u \in Thread : \A j \in 0..(Size(u) - 1) : IsWorked(u, j)' <=> Handed(u)'
    BY <1>1, <1>2, WorkSame DEF Starting, Handed
  <2> QED  BY <1>1, <2>1, <2>2, <2>3, Fixed DEF Starting, Owner
<1> QED  BY <1>1, <1>6, <1>7, WorkSame DEF Inv, Together

LEMMA CompeteInv ==
    ASSUME Inv, NEW t \in Thread, Compete(t)
    PROVE  Inv'
<1>1. /\ conf' = conf /\ range' = range /\ localSize' = localSize /\ worked' = worked
      /\ got' = got /\ offset' = offset /\ pc[t] = "compete"
  BY DEF Compete, At
<1>2. TypeOK /\ Competing
  BY <1>1, Regions DEF Inv
<1>3. /\ shared \in [Word -> Nat \cup {Junk}] /\ pc \in [Thread -> BlockPoint \cup LaterPoint]
      /\ BlockSize \in Nat /\ Owner \in Word /\ t \in Nat /\ localSize \in [Thread -> Nat]
  BY <1>2, WordFacts DEF TypeOK
<1>4. /\ pc'[t] = "sync_competed" /\ \A u \in Thread \ {t} : pc'[u] = pc[u]
      /\ pc' \in [Thread -> BlockPoint \cup LaterPoint]
  BY <1>3 DEF Compete, Goto, BlockPoint, Behind
<1>5. /\ shared' \in [Word -> Nat \cup {Junk}]
      /\ localSize[t] >= BlockSize => shared'[Owner] = t
      /\ ~(localSize[t] >= BlockSize) => shared' = shared
  BY <1>3 DEF Compete
<1>6. TypeOK'
  BY <1>1, <1>2, <1>4, <1>5, Fixed, WorkSame DEF TypeOK
<1>7. Competing'
  <2>1. AllIn({"compete", "sync_competed"})'
    BY <1>1, <1>2, <1>4, Fixed DEF Competing, AllIn
  <2>2. \/ /\ shared'[Owner] = BlockSize
           /\ \A u \in Thread : pc'[u] = "sync_competed" => localSize[u] < BlockSize
        \/ \E s \in Thread : shared'[Owner] = s /\ localSize[s] >= BlockSize
    <3>1. CASE localSize[t] >= BlockSize
      BY <1>5, <3>1
    <3>2. CASE ~(localSize[t] >= BlockSize)
      <4>1. localSize[t] < BlockSize
        BY <1>3, <3>2
      <4> QED  BY <1>2, <1>4, <1>5, <3>2, <4>1 DEF Competing, At
    <3> QED  BY <3>1, <3>2
  <2>3. \A u \in Thread : \A j \in 0..(Size(u) - 1) : IsWorked(u, j)' <=> Handed(u)'
    BY <1>1, <1>2, WorkSame DEF Competing, Handed
  <2> QED  BY <1>1, <2>1, <2>2, <2>3, Fixed DEF Competing, Owner, At
<1> QED  BY <1>1, <1>6, <1>7, WorkSame DEF Inv, Together

LEMMA CheckInv ==
    ASSUME Inv, NEW t \in Thread, Check(t)
    PROVE  Inv'
<1>1. /\ conf' = conf /\ range' = range /\ localSize' = localSize /\ worked' = worked
      /\ got' = got /\ offset' = offset /\ shared' = shared /\ pc[t] = "check"
  BY DEF Check, At
<1>2. TypeOK /\ pc \in [Thread -> BlockPoint \cup LaterPoint] /\ BlockSize \notin Thread
  BY Sizes DEF Inv, TypeOK
<1>3. \A u \in Thread \ {t} : pc'[u] = pc[u]
  BY <1>2 DEF Check, Goto
<1>4. pc'[t] = IF shared[Owner] = BlockSize THEN "warp" ELSE "win"
  BY <1>2 DEF Check, Goto
<1>5. pc' \in [Thread -> BlockPoint \cup LaterPoint]
  BY <1>2 DEF Check, Goto, BlockPoint, LaterPoint
<1>6. TypeOK'
  BY <1>1, <1>2, <1>5, Fixed, WorkSame DEF TypeOK
<1>7. CASE Sharing
  <2>1. pc'[t] = "warp"
    BY <1>1, <1>4, <1>7 DEF Sharing, At
  <2>2. AllIn({"check", "warp", "warp_work"} \cup (IF conf.fine THEN {} ELSE {"own", "exit"}))'
    BY <1>1, <1>3, <1>7, <2>1, Fixed DEF Sharing, AllIn
  <2>3. (\E u \in Thread : pc'[u] = "check") => shared'[Owner] = BlockSize
    BY <1>1, <1>7 DEF Sharing, At
  <2>4. \A u \in Thread : pc'[u] = "warp_work" =>
            \E s \in WarpOf(u) : Published(got'[u], s) /\ Handed(s)
    BY <1>1, <1>3, <1>7, <2>1 DEF Sharing, At
  <2>5. \A u \in Thread, j \in Nat : Taken(u, j)' = Taken(u, j)
    <3> SUFFICES ASSUME NEW u \in Thread, NEW j \in Nat PROVE Taken(u, j)' = Taken(u, j)
      OBVIOUS
    <3>1. \A v \in WarpOf(u) : At(v, "warp_work")' = At(v, "warp_work")
      <4>1. WarpOf(u) \subseteq Thread
        BY <1>2, Warps DEF TypeOK
      <4> QED  BY <1>1, <1>3, <2>1, <4>1 DEF At
    <3> QED  BY <1>1, <3>1, Fixed DEF Taken
  <2>6. \A u \in Thread : \A j \in 0..(Size(u) - 1) :
            IsWorked(u, j)' <=> IF Handed(u)' THEN ~Taken(u, j)' ELSE At(u, "exit")'
    BY <1>1, <1>2, <1>3, <1>7, <2>1, <2>5, SizeFacts, WorkSame DEF Sharing, Handed, At
  <2>7. \A u \in Thread : localSize[u] < BlockSize
    BY <1>7 DEF Sharing
  <2>8. \A u \in Thread : pc'[u] = "warp_work" =>
            \E s \in WarpOf(u) : (Published(got[u], s) /\ Handed(s))'
    BY <1>1, <2>4, Fixed DEF Published, Handed
  <2>9. Sharing'
    BY <1>1, <2>2, <2>3, <2>6, <2>7, <2>8, Fixed DEF Sharing, At, Owner
  <2> QED  BY <1>1, <1>6, <2>9, WorkSame DEF Inv, Together
<1>8. CASE \E s \in Thread : Winning(s)
  <2>1. PICK s \in Thread : Winning(s)
    BY <1>8
  <2>2. pc'[t] = "win"
    BY <1>2, <1>4, <2>1 DEF Winning
  <2>3. AllIn({"check", "win", "sync_won"})'
    BY <1>1, <1>3, <2>1, <2>2, Fixed DEF Winning, AllIn
  <2>4. At(s, "sync_won")' = At(s, "sync_won")
    BY <1>1, <1>3, <2>2 DEF At
  <2>5. /\ shared' [Owner] = s
        /\ IF At(s, "sync_won")' THEN Published(Words, s)' /\ Handed(s)' ELSE localSize'[s] >= BlockSize'
    BY <1>1, <2>1, <2>4, Fixed DEF Winning, Published, Words, Handed
  <2>6. \A u \in Thread : \A j \in 0..(Size(u) - 1) : IsWorked(u, j)' <=> Handed(u)' /\ u # s
    BY <1>1, <2>1, WorkSame DEF Winning, Handed
  <2>7. Winning(s)'
    BY <1>1, <2>3, <2>5, <2>6, Fixed DEF Winning, Owner
  <2>8. s \in Thread'
    BY <1>1, Fixed
  <2> QED  BY <1>1, <1>6, <2>7, <2>8, WorkSame DEF Inv, Together
<1> QED  BY <1>1, <1>7, <1>8, Regions DEF Inv

LEMMA WinInv ==
    ASSUME Inv, NEW t \in Thread, Win(t)
    PROVE  Inv'
<1>1. /\ conf' = conf /\ range' = range /\ worked' = worked
      /\ got' = got /\ offset' = offset /\ pc[t] = "win"
  BY DEF Win, At
<1>2. TypeOK /\ \E s \in Thread : Winning(s)
  BY <1>1, Regions DEF Inv
<1>3. PICK s \in Thread : Winning(s)
  BY <1>2
<1>4. /\ shared \in [Word -> Nat \cup {Junk}] /\ pc \in [Thread -> BlockPoint \cup LaterPoint]
      /\ BlockSize \in Nat \ {0} /\ localSize \in [Thread -> Nat] /\ shared[Owner] = s
      /\ Thread \subseteq Nat
      /\ \A u \in Thread : localSize[u] \in {0, Size(u)}
  BY <1>2, <1>3, Sizes DEF Inv, TypeOK, Winning, Partial
<1>5. /\ pc'[t] = "sync_won" /\ \A u \in Thread \ {t} : pc'[u] = pc[u]
      /\ pc' \in [Thread -> BlockPoint \cup LaterPoint]
  BY <1>4 DEF Win, Goto, BlockPoint, Behind
<1>6. AllIn({"check", "win", "sync_won"})'
  BY <1>1, <1>3, <1>5, Fixed DEF Winning, AllIn
<1>7. CASE t # s
  <2>1. shared' = shared /\ localSize' = localSize
    BY <1>4, <1>7 DEF Win
  <2>2. TypeOK'
    BY <1>1, <1>2, <1>5, <2>1, Fixed, WorkSame DEF TypeOK
  <2>3. At(s, "sync_won")' = At(s, "sync_won")
    BY <1>5, <1>7 DEF At
  <2>4. /\ shared'[Owner] = s
        /\ IF At(s, "sync_won")' THEN Published(Words, s)' /\ Handed(s)' ELSE localSize'[s] >= BlockSize'
    BY <1>1, <1>3, <2>1, <2>3, Fixed DEF Winning, Published, Words, Handed
  <2>5. \A u \in Thread : \A j \in 0..(Size(u) - 1) : IsWorked(u, j)' <=> Handed(u)' /\ u # s
    BY <1>1, <1>3, <2>1, WorkSame DEF Winning, Handed
  <2>6. Winning(s)' /\ s \in Thread'
    BY <1>1, <1>6, <2>4, <2>5, Fixed DEF Winning, Owner
  <2> QED  BY <1>1, <2>1, <2>2, <2>6, WorkSame DEF Inv, Together
<1>8. CASE t = s
  <2>1. /\ shared' = [shared EXCEPT ![1] = LocalSrc(t), ![2] = range[t][1], ![3] = localSize[t]]
        /\ localSize' = [localSize EXCEPT ![t] = 0]
    BY <1>4, <1>8 DEF Win
  <2>2. localSize[t] >= BlockSize /\ localSize[t] = Size(t)
    BY <1>1, <1>3, <1>4, <1>8 DEF Winning, At
  <2>3. /\ shared'[1] = LocalSrc(t) /\ shared'[2] = range[t][1] /\ shared'[3] = Size(t)
        /\ shared'[Owner] = s
    BY <1>2, <1>4, <2>1, <2>2, WordFacts DEF TypeOK
  <2>4. localSize'[t] = 0 /\ \A u \in Thread \ {t} : localSize'[u] = localSize[u]
    BY <1>4, <2>1
  <2>5. shared' \in [Word -> Nat \cup {Junk}] /\ localSize' \in [Thread -> Nat]
    BY <1>2, <1>4, <2>1, SizeFacts
  <2>6. TypeOK'
    BY <1>1, <1>2, <1>5, <2>5, Fixed, WorkSame DEF TypeOK
  <2>7. Partial'
    BY <1>1, <1>4, <2>4, Fixed DEF Inv, Partial
  <2>8. Published(Words, s)' /\ Handed(s)'
    BY <1>1, <1>8, <2>3, <2>4, Fixed DEF Published, Words, Handed
  <2>9. \A u \in Thread : \A j \in 0..(Size(u) - 1) : IsWorked(u, j)' <=> Handed(u)' /\ u # s
    BY <1>1, <1>3, <1>8, <2>4, WorkSame DEF Winning, Handed
  <2>10. At(s, "sync_won")'
    BY <1>5, <1>8 DEF At
  <2>11. Winning(s)' /\ s \in Thread'
    BY <1>1, <1>6, <2>3, <2>8, <2>9, <2>10, Fixed DEF Winning, Owner
  <2> QED  BY <2>6, <2>7, <2>11 DEF Inv, Together
<1> QED  BY <1>7, <1>8

LEMMA ReadInv ==
    ASSUME Inv, NEW t \in Thread, Read(t)
    PROVE  Inv'
<1>1. /\ conf' = conf /\ range' = range /\ worked' = worked
      /\ localSize' = localSize /\ offset' = offset /\ pc[t] = "read"
  BY DEF Read, At
<1>2. TypeOK /\ \E s \in Thread : Reading(s)
  BY <1>1, Regions DEF Inv
<1>3. PICK s \in Thread : Reading(s)
  BY <1>2
<1>4. /\ shared \in [Word -> Nat \cup {Junk}] /\ pc \in [Thread -> BlockPoint \cup LaterPoint]
      /\ got \in [Thread -> Nat \X Nat \X Nat]
      /\ BlockSize \in Nat /\ BlockSize \notin Thread /\ Owner \in Word
  BY <1>2, Sizes, WordFacts DEF TypeOK
<1>5. /\ pc'[t] = "sync_read" /\ \A u \in Thread \ {t} : pc'[u] = pc[u]
      /\ pc' \in [Thread -> BlockPoint \cup LaterPoint]
  BY <1>4 DEF Read, Goto, BlockPoint, Behind
<1>6. AllIn({"read", "sync_read"})'
  BY <1>1, <1>3, <1>5, Fixed DEF Reading, AllIn
<1>7. /\ shared' \in [Word -> Nat \cup {Junk}]
      /\ \A w \in Word \ {Owner} : shared'[w] = shared[w]
      /\ shared'[Owner] = IF shared[Owner] = t THEN BlockSize ELSE shared[Owner]
  BY <1>4 DEF Read
<1>8. Words' = Words
  BY <1>2, <1>7, WordFacts DEF Words, TypeOK
<1>9. got' = [got EXCEPT ![t] = Words]
  BY DEF Read, Words
<1>10. Words = <<LocalSrc(s), range[s][1], Size(s)>> /\ Words \in Nat \X Nat \X Nat
  BY <1>2, <1>3, SizeFacts DEF Reading, Published
<1>11. /\ got' \in [Thread -> Nat \X Nat \X Nat] /\ got'[t] = Words
       /\ \A u \in Thread \ {t} : got'[u] = got[u]
  BY <1>4, <1>9, <1>10
<1>12. TypeOK'
  BY <1>1, <1>2, <1>5, <1>7, <1>11, Fixed, WorkSame DEF TypeOK
<1>13. Published(Words, s)' /\ Handed(s)'
  BY <1>1, <1>3, <1>8, <1>10, Fixed DEF Reading, Published, Handed
<1>14. shared'[Owner] = IF pc'[s] = "read" THEN s ELSE BlockSize
  BY <1>1, <1>3, <1>4, <1>5, <1>7 DEF Reading, At
<1>15. \A u \in Thread : pc'[u] = "sync_read" => got'[u] = <<LocalSrc(s), range[s][1], Size(s)>>
  BY <1>3, <1>5, <1>10, <1>11 DEF Reading, At, Published
<1>16. \A u \in Thread : \A j \in 0..(Size(u) - 1) : IsWorked(u, j)' <=> Handed(u)' /\ u # s
  BY <1>1, <1>3, WorkSame DEF Reading, Handed
<1>17. Reading(s)' /\ s \in Thread'
  BY <1>1, <1>6, <1>13, <1>14, <1>15, <1>16, Fixed DEF Reading, Owner, At, Published
<1> QED  BY <1>1, <1>12, <1>17, WorkSame DEF Inv, Together

LEMMA StridedSet ==
    ASSUME NEW n \in Nat, NEW b \in Nat \ {0}, NEW a \in 0..(b - 1)
    PROVE  {k \in a..(n - 1) : (k - a) % b = 0} = {k \in 0..(n - 1) : k % b = a}
<1>1. ASSUME NEW k \in Nat
      PROVE  k >= a /\ (k - a) % b = 0 <=> k % b = a
  <2>1. a \in Nat /\ 0 \in 0..(b - 1)
    OBVIOUS
  <2>2. CASE k >= a /\ (k - a) % b = 0
    <3> DEFINE q == (k - a) \div b
    <3>1. k - a \in Nat
      BY <2>1, <2>2
    <3>2. k - a = b * q + 0 /\ q \in Nat
      BY <2>2, <3>1, Division
    <3> HIDE DEF q
    <3>3. k = b * q + a
      BY <2>1, <3>2
    <3> QED  BY <2>2, <3>2, <3>3, Remainder
  <2>3. CASE k % b = a
    <3> DEFINE q == k \div b
    <3>1. k = b * q + a /\ q \in Nat
      BY <2>3, Division
    <3> HIDE DEF q
    <3>2. b * q \in Nat
      BY <3>1
    <3>3. k >= a /\ k - a = b * q + 0
      BY <2>1, <3>1, <3>2
    <3>4. (b * q + 0) % b = 0
      BY <2>1, <3>1, Remainder
    <3> QED  BY <2>3, <3>3, <3>4
  <2> QED  BY <2>2, <2>3
<1>2. a \in Nat
  OBVIOUS
<1>3. \A k : (k \in a..(n - 1) => k \in Nat) /\ (k \in 0..(n - 1) => k \in Nat)
  BY <1>2
<1>4. \A k \in Nat : k \in a..(n - 1) <=> k >= a /\ k \in 0..(n - 1)
  BY <1>2
<1> QED  BY <1>1, <1>3, <1>4

Share(s, a, b) == {Element(s, j) : j \in {k \in 0..(Size(s) - 1) : k % b = a}}

LEMMA StridedIs ==
    ASSUME TypeOK, NEW s \in Thread, NEW g, Published(g, s), NEW b \in Nat \ {0},
           NEW a \in 0..(b - 1)
    PROVE  Strided(g, a, b) = SetToBag(Share(s, a, b))
<1>1. g[1] = LocalSrc(s) /\ g[2] = range[s][1] /\ g[3] = Size(s)
  BY DEF Published
<1>2. Size(s) \in Nat
  BY SizeFacts
<1>4. {k \in a..(g[3] - 1) : (k - a) % b = 0} = {k \in 0..(Size(s) - 1) : k % b = a}
  BY <1>1, <1>2, StridedSet
<1> DEFINE K == {k \in 0..(Size(s) - 1) : k % b = a}
<1>5. \A k \in K : <<g[1], g[2] + k>> = Element(s, k)
  BY <1>1 DEF Element
<1>6. {<<g[1], g[2] + k>> : k \in K} = {Element(s, k) : k \in K}
  <2> HIDE DEF K
  <2> QED  BY <1>5
<1> QED  BY <1>4, <1>6 DEF Strided, Share

LEMMA WorkInv ==
    ASSUME Inv, NEW t \in Thread, Work(t)
    PROVE  Inv'
<1>1. /\ conf' = conf /\ range' = range /\ got' = got /\ shared' = shared
      /\ localSize' = localSize /\ offset' = offset /\ pc[t] = "work"
      /\ worked' = worked (+) Strided(got[t], t, BlockSize)
  BY DEF Work, At
<1>2. TypeOK /\ \E s \in Thread : Working(s)
  BY <1>1, Regions DEF Inv
<1>3. PICK s \in Thread : Working(s)
  BY <1>2
<1>4. /\ pc \in [Thread -> BlockPoint \cup LaterPoint] /\ BlockSize \in Nat \ {0}
      /\ Thread = 0..(BlockSize - 1) /\ Published(got[t], s) /\ Handed(s)
  BY <1>2, <1>3, Sizes DEF TypeOK, Working, Thread
<1>5. /\ pc'[t] = "sync_worked" /\ \A u \in Thread \ {t} : pc'[u] = pc[u]
      /\ pc' \in [Thread -> BlockPoint \cup LaterPoint]
  BY <1>4 DEF Work, Goto, BlockPoint, Behind
<1> DEFINE S == Share(s, t, BlockSize)
<1>6. worked' = worked (+) SetToBag(S)
  <2>1. t \in 0..(BlockSize - 1)
    BY <1>4
  <2>2. Strided(got[t], t, BlockSize) = SetToBag(S)
    BY <1>2, <1>4, <2>1, StridedIs
  <2> QED  BY <1>1, <2>2
<1>7. \A x \in S : \E u \in Thread : \E j \in 0..(Size(u) - 1) :
          x = Element(u, j) /\ ~IsWorked(u, j)
  BY <1>1, <1>3, <1>4 DEF Working, At, Share
<1>8. ASSUME NEW u \in Thread, NEW j \in 0..(Size(u) - 1)
      PROVE  Element(u, j) \in S <=> u = s /\ j % BlockSize = t
  <2>1. \A k \in 0..(Size(s) - 1) : k \in Nat
    BY <1>2, SizeFacts
  <2>2. j \in Nat
    BY <1>2, SizeFacts
  <2> QED  BY <1>2, <2>1, <2>2, ElementsDiffer DEF Share
<1> HIDE DEF S
<1>9. /\ IsABag(worked') /\ Partial'
      /\ \A u \in Thread : \A j \in 0..(Size(u) - 1) :
            IsWorked(u, j)' <=> IsWorked(u, j) \/ Element(u, j) \in S
  BY <1>1, <1>6, <1>7, WorkMore
<1>10. TypeOK'
  BY <1>1, <1>2, <1>5, <1>9, Fixed DEF TypeOK
<1>11. ASSUME NEW u \in Thread, NEW j \in 0..(Size(u) - 1)
       PROVE  IsWorked(u, j)' <=> Handed(u)' /\ (u = s => pc'[j % BlockSize] = "sync_worked")
  <2>1. IsWorked(u, j)' <=> IsWorked(u, j) \/ (u = s /\ j % BlockSize = t)
    BY <1>8, <1>9
  <2>2. IsWorked(u, j) <=> Handed(u) /\ (u = s => pc[j % BlockSize] = "sync_worked")
    BY <1>3 DEF Working, At
  <2>3. Handed(u)' = Handed(u)
    BY <1>1 DEF Handed
  <2>4. j % BlockSize \in Thread
    <3>1. j \in Nat
      BY <1>2, SizeFacts
    <3> QED  BY <1>4, <3>1, Division
  <2> QED  BY <1>1, <1>4, <1>5, <2>1, <2>2, <2>3, <2>4
<1>12. AllIn({"work", "sync_worked"})'
  BY <1>1, <1>3, <1>5, Fixed DEF Working, AllIn
<1>13. \A u \in Thread : Published(got[u], s)'
  BY <1>1, <1>3, Fixed DEF Working, Published
<1>14. Handed(s)' /\ shared'[Owner] = BlockSize
  BY <1>1, <1>3 DEF Working, Handed
<1>15. Working(s)' /\ s \in Thread'
  BY <1>1, <1>11, <1>12, <1>13, <1>14, Fixed DEF Working, Owner, At
<1> QED  BY <1>9, <1>10, <1>15 DEF Inv, Together

LEMMA BlockSyncInv ==
    ASSUME Inv, BlockSync
    PROVE  Inv'
<1>1. /\ conf' = conf /\ range' = range /\ got' = got /\ shared' = shared
      /\ localSize' = localSize /\ offset' = offset /\ worked' = worked
  BY DEF BlockSync
<1>2. TypeOK /\ Together /\ 0 \in Thread /\ BlockSize \notin Thread
  BY Sizes DEF Inv, TypeOK
<1>3. DOMAIN Behind = {"sync_begin", "sync_competed", "sync_won", "sync_read", "sync_worked"}
  BY DEF Behind
<1>4. /\ \A t \in Thread : pc[t] \in DOMAIN Behind \/ pc[t] = "exit"
      /\ \E t \in Thread : pc[t] \in DOMAIN Behind
      /\ \A t \in Thread : pc'[t] = IF pc[t] \in DOMAIN Behind THEN Behind[pc[t]] ELSE pc[t]
  BY DEF BlockSync, Waiting, At
<1>5. pc' \in [Thread -> BlockPoint \cup LaterPoint]
  <2>1. pc' = [t \in Thread |-> IF pc[t] \in DOMAIN Behind THEN Behind[pc[t]] ELSE pc[t]]
    BY DEF BlockSync, Waiting
  <2>2. \A p \in DOMAIN Behind : Behind[p] \in BlockPoint
    BY DEF Behind, BlockPoint
  <2> HIDE DEF Behind, BlockPoint, LaterPoint
  <2> QED  BY <1>2, <2>1, <2>2 DEF TypeOK
<1>6. TypeOK' /\ Partial'
  BY <1>1, <1>2, <1>5, Fixed, WorkSame DEF TypeOK
<1>7. PICK t \in Thread : pc[t] \in DOMAIN Behind
  BY <1>4
<1>8. CASE pc[t] = "sync_begin"
  <2>1. Starting
    BY <1>2, <1>8, Regions
  <2>2. \A u \in Thread : pc[u] = "sync_begin" /\ pc'[u] = "compete"
    BY <1>3, <1>4, <2>1 DEF Starting, AllIn, Behind
  <2>3. shared'[Owner] = BlockSize
    BY <1>1, <1>2, <2>1, <2>2 DEF Starting, At
  <2>4. \A u \in Thread : \A j \in 0..(Size(u) - 1) : IsWorked(u, j)' <=> Handed(u)'
    BY <1>1, <2>1, WorkSame DEF Starting, Handed
  <2>5. Competing'
    BY <1>1, <2>2, <2>3, <2>4, Fixed DEF Competing, AllIn, At, Owner
  <2> QED  BY <1>6, <2>5 DEF Inv, Together
<1>9. CASE pc[t] = "sync_competed"
  <2>1. Competing
    BY <1>2, <1>9, Regions
  <2>2. \A u \in Thread : pc[u] = "sync_competed" /\ pc'[u] = "check"
    BY <1>3, <1>4, <2>1 DEF Competing, AllIn, Behind
  <2>3. \A u \in Thread : \A j \in 0..(Size(u) - 1) : IsWorked(u, j)' <=> Handed(u)'
    BY <1>1, <2>1, WorkSame DEF Competing, Handed
  <2>4. CASE shared[Owner] = BlockSize /\ \A u \in Thread : localSize[u] < BlockSize
    <3>1. \A u \in Thread, j \in Nat : ~Taken(u, j)'
      <4> SUFFICES ASSUME NEW u \in Thread, NEW v \in WarpOf(u) PROVE pc'[v] # "warp_work"
        BY <1>1, Fixed DEF Taken, At
      <4>1. v \in Thread
        BY <1>2, Warps DEF TypeOK
      <4> QED  BY <2>2, <4>1
    <3>2. \A u \in Thread : \A j \in 0..(Size(u) - 1) :
              IsWorked(u, j)' <=> IF Handed(u)' THEN ~Taken(u, j)' ELSE At(u, "exit")'
      <4>1. \A u \in Thread : \A j \in 0..(Size(u) - 1) : j \in Nat
        BY <1>2, SizeFacts
      <4> QED  BY <2>2, <2>3, <3>1, <4>1 DEF At
    <3>3. Sharing'
      BY <1>1, <2>2, <2>4, <3>2, Fixed DEF Sharing, AllIn, At, Owner
    <3> QED  BY <1>6, <3>3 DEF Inv, Together
  <2>5. CASE \E s \in Thread : shared[Owner] = s /\ localSize[s] >= BlockSize
    <3>1. PICK s \in Thread : shared[Owner] = s /\ localSize[s] >= BlockSize
      BY <2>5
    <3>2. localSize'[s] # 0 /\ localSize'[s] >= BlockSize'
      BY <1>1, <1>2, <3>1, Sizes, Fixed DEF TypeOK
    <3>3. Winning(s)' /\ s \in Thread'
      BY <1>1, <2>2, <2>3, <3>1, <3>2, Fixed DEF Winning, AllIn, At, Owner, Handed
    <3> QED  BY <1>6, <3>3 DEF Inv, Together
  <2> QED  BY <2>1, <2>2, <2>4, <2>5 DEF Competing, At
<1>10. CASE pc[t] = "sync_won"
  <2>1. PICK s \in Thread : Winning(s)
    BY <1>2, <1>10, Regions
  <2>2. \A u \in Thread : pc[u] = "sync_won" /\ pc'[u] = "read"
    BY <1>3, <1>4, <2>1 DEF Winning, AllIn, Behind
  <2>3. Published(Words, s)' /\ Handed(s)' /\ shared'[Owner] = s
    BY <1>1, <2>1, <2>2, Fixed DEF Winning, Published, Words, Handed, At
  <2>4. \A u \in Thread : \A j \in 0..(Size(u) - 1) : IsWorked(u, j)' <=> Handed(u)' /\ u # s
    BY <1>1, <2>1, WorkSame DEF Winning, Handed
  <2>5. Reading(s)' /\ s \in Thread'
    BY <1>1, <2>2, <2>3, <2>4, Fixed DEF Reading, AllIn, At, Owner
  <2> QED  BY <1>6, <2>5 DEF Inv, Together
<1>11. CASE pc[t] = "sync_read"
  <2>1. PICK s \in Thread : Reading(s)
    BY <1>2, <1>11, Regions
  <2>2. \A u \in Thread : pc[u] = "sync_read" /\ pc'[u] = "work"
    BY <1>3, <1>4, <2>1 DEF Reading, AllIn, Behind
  <2>3. Handed(s)' /\ shared'[Owner] = BlockSize /\ \A u \in Thread : Published(got[u], s)'
    BY <1>1, <2>1, <2>2, Fixed DEF Reading, Published, Handed, At
  <2>4. \A u \in Thread : \A j \in 0..(Size(u) - 1) : IsWorked(u, j)' <=> Handed(u)' /\ u # s
    BY <1>1, <2>1, WorkSame DEF Reading, Handed
  <2>5. \A j \in 0..(Size(s) - 1) : j % BlockSize \in Thread
    <3>1. \A j \in 0..(Size(s) - 1) : j \in Nat
      BY <1>2, SizeFacts
    <3>2. BlockSize \in Nat \ {0} /\ Thread = 0..(BlockSize - 1)
      BY <1>2, Sizes DEF TypeOK, Thread
    <3> QED  BY <3>1, <3>2, Division
  <2>6. \A u \in Thread : \A j \in 0..(Size(u) - 1) :
            IsWorked(u, j)' <=> Handed(u)' /\ (u = s => At(j % BlockSize, "sync_worked")')
    <3>1. \A j \in 0..(Size(s) - 1) : ~At(j % BlockSize, "sync_worked")'
      BY <1>1, <2>2, <2>5, Fixed DEF At
    <3> QED  BY <2>4, <3>1
  <2>7. Working(s)' /\ s \in Thread'
    BY <1>1, <2>2, <2>3, <2>6, Fixed DEF Working, AllIn, Owner
  <2> QED  BY <1>6, <2>7 DEF Inv, Together
<1>12. CASE pc[t] = "sync_worked"
  <2>1. PICK s \in Thread : Working(s)
    BY <1>2, <1>12, Regions
  <2>2. \A u \in Thread : pc[u] = "sync_worked" /\ pc'[u] = "compete"
    BY <1>3, <1>4, <2>1 DEF Working, AllIn, Behind
  <2>3. shared'[Owner] = BlockSize
    BY <1>1, <2>1 DEF Working
  <2>4. \A j \in 0..(Size(s) - 1) : j % BlockSize \in Thread
    <3>1. \A j \in 0..(Size(s) - 1) : j \in Nat
      BY <1>2, SizeFacts
    <3>2. BlockSize \in Nat \ {0} /\ Thread = 0..(BlockSize - 1)
      BY <1>2, Sizes DEF TypeOK, Thread
    <3> QED  BY <3>1, <3>2, Division
  <2>5. \A u \in Thread : \A j \in 0..(Size(u) - 1) : IsWorked(u, j)' <=> Handed(u)'
    BY <1>1, <2>1, <2>2, <2>4, WorkSame DEF Working, Handed, At
  <2>6. Competing'
    BY <1>1, <2>2, <2>3, <2>5, Fixed DEF Competing, AllIn, At, Owner
  <2> QED  BY <1>6, <2>6 DEF Inv, Together
<1> QED  BY <1>3, <1>7, <1>8, <1>9, <1>10, <1>11, <1>12
-----------------------------------------------------------------------------
(***************************************************************************)
(* So do the steps of the warp's scheduler.                                *)
(***************************************************************************)
LEMMA MinIn ==
    ASSUME NEW S \in SUBSET Nat, S # {}
    PROVE  Min(S) \in S
<1>1. PICK x \in S : \A y \in S : <<y, x>> \notin Less
  BY LessWellFounded, WFMin
<1>2. ASSUME NEW y \in S PROVE x =< y
  <2>1. x \in Nat /\ y \in Nat
    OBVIOUS
  <2>2. y < x => <<y, x>> \in Less
    BY <2>1 DEF Less
  <2> QED  BY <1>1, <2>1, <2>2
<1> QED  BY <1>2 DEF Min

(* Sharing, from what a step does to the threads of one warp. *)
LEMMA SharingNext ==
    ASSUME Inv, Sharing, conf' = conf, range' = range, shared' = shared,
           \A u \in Thread : pc'[u] \in {"check", "warp", "warp_work"}
                                 \cup (IF conf.fine THEN {} ELSE {"own", "exit"}),
           \A u \in Thread : pc'[u] = "check" => pc[u] = "check",
           \A u \in Thread : localSize'[u] < BlockSize,
           \A u \in Thread : pc'[u] = "warp_work" =>
               \E s \in WarpOf(u) : got'[u] = <<LocalSrc(s), range[s][1], Size(s)>> /\ localSize'[s] = 0,
           \A u \in Thread : \A j \in 0..(Size(u) - 1) :
               IsWorked(u, j)' <=> IF Handed(u)' THEN ~Taken(u, j)' ELSE pc'[u] = "exit"
    PROVE  Sharing'
<1>1. (\E u \in Thread : pc'[u] = "check") => shared'[Owner] = BlockSize
  BY DEF Sharing, At
<1>2. \A u \in Thread : pc'[u] = "warp_work" =>
          \E s \in WarpOf(u) : (Published(got[u], s) /\ Handed(s))'
  BY Fixed DEF Published, Handed
<1> QED  BY <1>1, <1>2, Fixed DEF Sharing, AllIn, At, Owner

(* Who is taken by a warp does not depend on the other warps. *)
LEMMA TakenSame ==
    ASSUME Inv, conf' = conf, range' = range, NEW t \in Thread,
           \A u \in WarpOf(t) : pc'[u] = pc[u] /\ got'[u] = got[u]
    PROVE  \A j : Taken(t, j)' = Taken(t, j)
<1>1. \A u \in WarpOf(t) : At(u, "warp_work")' = At(u, "warp_work") /\ got'[u][1] = got[u][1]
  BY DEF At
<1> QED  BY <1>1, Fixed DEF Taken

LEMMA WarpShareInv ==
    ASSUME Inv, NEW t \in Thread, WarpShare(t)
    PROVE  Inv'
<1> DEFINE w == WarpOf(t)
           o == Min(Enough(w))
<1>1. /\ conf' = conf /\ range' = range /\ shared' = shared /\ offset' = offset
      /\ worked' = worked
      /\ \A u \in w : pc[u] = "warp"
      /\ Enough(w) # {}
      /\ got' = [u \in Thread |-> IF u \in w THEN <<LocalSrc(o), range[o][1], localSize[o]>>
                                  ELSE got[u]]
      /\ localSize' = [localSize EXCEPT ![o] = 0]
      /\ pc' = [u \in Thread |-> IF u \in w THEN "warp_work" ELSE pc[u]]
  BY DEF WarpShare, At
<1>2. TypeOK /\ w \subseteq Thread /\ t \in w /\ Thread \subseteq Nat
  BY Warps, Sizes DEF Inv, TypeOK
<1>3. Sharing
  BY <1>1, <1>2, Regions DEF Inv
<1>4. o \in w /\ localSize[o] >= WarpSize
  <2>1. Enough(w) \in SUBSET Nat
    BY <1>2 DEF Enough
  <2>2. o \in Enough(w)
    BY <1>1, <2>1, MinIn
  <2> QED  BY <2>2 DEF Enough
<1> HIDE DEF w, o
<1>5. /\ o \in Thread /\ WarpSize \in Nat \ {0} /\ BlockSize \in Nat \ {0}
      /\ localSize \in [Thread -> Nat] /\ got \in [Thread -> Nat \X Nat \X Nat]
      /\ pc \in [Thread -> BlockPoint \cup LaterPoint]
  BY <1>2, <1>4, Sizes DEF TypeOK
<1>6. localSize[o] = Size(o) /\ localSize[o] # 0
  BY <1>4, <1>5 DEF Inv, Partial
<1>7. /\ \A u \in w : got'[u] = <<LocalSrc(o), range[o][1], Size(o)>> /\ pc'[u] = "warp_work"
      /\ \A u \in Thread \ w : got'[u] = got[u] /\ pc'[u] = pc[u]
      /\ localSize'[o] = 0 /\ \A u \in Thread \ {o} : localSize'[u] = localSize[u]
  BY <1>1, <1>2, <1>5, <1>6
<1>8. TypeOK'
  <2>1. localSize' \in [Thread -> Nat]
    BY <1>1, <1>5
  <2>2. <<LocalSrc(o), range[o][1], localSize[o]>> \in Nat \X Nat \X Nat
    BY <1>2, <1>5, SizeFacts
  <2>3. got' \in [Thread -> Nat \X Nat \X Nat]
    BY <1>1, <1>5, <2>2
  <2>4. pc' \in [Thread -> BlockPoint \cup LaterPoint]
    BY <1>1, <1>5 DEF LaterPoint
  <2> QED  BY <1>1, <1>2, <2>1, <2>3, <2>4, Fixed, WorkSame DEF TypeOK
<1>9. Partial'
  BY <1>1, <1>7, Fixed DEF Inv, Partial
<1>10. \A u \in Thread : localSize'[u] < BlockSize
  BY <1>3, <1>5, <1>7 DEF Sharing
<1>11. \A u \in w : WarpOf(u) = w
  BY <1>2, Warps DEF TypeOK, w
<1>12. \A u \in Thread \ w : WarpOf(u) \cap w = {} /\ WarpOf(u) \subseteq Thread
  BY <1>2, Warps DEF TypeOK, w
<1>13. \A u \in Thread : pc'[u] = "warp_work" =>
          \E s \in WarpOf(u) : got'[u] = <<LocalSrc(s), range[s][1], Size(s)>> /\ localSize'[s] = 0
  <2>1. ASSUME NEW u \in w
        PROVE  \E s \in WarpOf(u) : got'[u] = <<LocalSrc(s), range[s][1], Size(s)>> /\ localSize'[s] = 0
    BY <1>4, <1>7, <1>11
  <2>2. ASSUME NEW u \in Thread \ w, pc'[u] = "warp_work"
        PROVE  \E s \in WarpOf(u) : got'[u] = <<LocalSrc(s), range[s][1], Size(s)>> /\ localSize'[s] = 0
    <3>1. PICK s \in WarpOf(u) : Published(got[u], s) /\ Handed(s)
      BY <1>3, <1>7, <2>2 DEF Sharing, At
    <3> QED  BY <1>4, <1>7, <1>12, <3>1 DEF Published, Handed
  <2> QED  BY <2>1, <2>2
<1>14. ASSUME NEW u \in Thread, NEW j \in 0..(Size(u) - 1)
       PROVE  IsWorked(u, j)' <=> IF Handed(u)' THEN ~Taken(u, j)' ELSE pc'[u] = "exit"
  <2>1. IsWorked(u, j)' <=> IF Handed(u) THEN ~Taken(u, j) ELSE pc[u] = "exit"
    BY <1>1, <1>3, WorkSame DEF Sharing, At
  <2>2. CASE u \notin w
    <3>1. Taken(u, j)' = Taken(u, j)
      BY <1>1, <1>7, <1>12, <2>2, TakenSame
    <3>2. Handed(u)' = Handed(u) /\ pc'[u] = pc[u]
      BY <1>4, <1>7, <2>2 DEF Handed
    <3> QED  BY <2>1, <3>1, <3>2
  <2>3. CASE u = o
    <3>1. ~IsWorked(u, j)' /\ Handed(u)'
      BY <1>1, <1>4, <1>6, <1>7, <2>1, <2>3 DEF Handed
    <3>2. j % WarpSize \in 0..(WarpSize - 1)
      <4>1. j \in Nat
        BY <1>2, SizeFacts
      <4> QED  BY <1>5, <4>1, Division
    <3>3. PICK v \in w : Lane(v) = j % WarpSize
      BY <1>2, <3>2, Warps DEF TypeOK, w
    <3>4. Taken(u, j)'
      <4>1. v \in WarpOf(u)' /\ pc'[v] = "warp_work"
        BY <1>1, <1>4, <1>7, <1>11, <2>3, <3>3, Fixed
      <4>2. got'[v][1] = LocalSrc(u)'
        BY <1>1, <1>7, <2>3, <3>3, Fixed
      <4>3. Lane(v)' = j % WarpSize'
        BY <1>1, <3>3, Fixed
      <4> QED  BY <4>1, <4>2, <4>3 DEF Taken, At
    <3> QED  BY <3>1, <3>4
  <2>4. CASE u \in w /\ u # o
    <3>1. ~Taken(u, j)
      BY <1>1, <1>11, <2>4 DEF Taken, At
    <3>2. ~Taken(u, j)'
      <4>1. LocalSrc(o) # LocalSrc(u)
        BY <1>2, <1>5, <2>4, SrcAssumption DEF LocalSrc
      <4>2. \A v \in w : got'[v][1] = LocalSrc(o)
        BY <1>7
      <4>3. WarpOf(u)' = w /\ LocalSrc(u)' = LocalSrc(u)
        BY <1>1, <1>11, <2>4, Fixed
      <4> QED  BY <4>1, <4>2, <4>3 DEF Taken
    <3>3. Handed(u)' = Handed(u) /\ pc[u] # "exit" /\ pc'[u] # "exit"
      BY <1>1, <1>7, <2>4 DEF Handed
    <3> QED  BY <2>1, <3>1, <3>2, <3>3
  <2> QED  BY <2>2, <2>3, <2>4
<1>15. \A u \in Thread : /\ pc'[u] \in {"check", "warp", "warp_work"}
                                          \cup (IF conf.fine THEN {} ELSE {"own", "exit"})
                         /\ pc'[u] = "check" => pc[u] = "check"
  BY <1>3, <1>7 DEF Sharing, AllIn
<1>16. Sharing'
  BY <1>1, <1>3, <1>10, <1>13, <1>14, <1>15, SharingNext
<1> QED  BY <1>8, <1>9, <1>16 DEF Inv, Together

LEMMA WarpWorkInv ==
    ASSUME Inv, NEW t \in Thread, WarpWork(t)
    PROVE  Inv'
<1>1. /\ conf' = conf /\ range' = range /\ shared' = shared /\ offset' = offset
      /\ got' = got /\ localSize' = localSize /\ pc[t] = "warp_work"
      /\ worked' = worked (+) Strided(got[t], Lane(t), WarpSize)
  BY DEF WarpWork, At
<1>2. TypeOK /\ Thread \subseteq Nat /\ WarpSize \in Nat \ {0} /\ Sharing
  BY <1>1, Sizes, Regions DEF Inv, TypeOK
<1>3. /\ Lane(t) \in 0..(WarpSize - 1)
      /\ \A u \in Thread : WarpOf(u) \subseteq Thread
      /\ \A u \in WarpOf(t) : WarpOf(u) = WarpOf(t) /\ (Lane(u) = Lane(t) => u = t)
      /\ t \in WarpOf(t)
  BY <1>2, Warps DEF TypeOK
<1>4. PICK s \in WarpOf(t) : Published(got[t], s) /\ Handed(s)
  BY <1>1, <1>2 DEF Sharing, At
<1>5. s \in Thread /\ got[t][1] = LocalSrc(s)
  BY <1>3, <1>4 DEF Published
<1>6. pc \in [Thread -> BlockPoint \cup LaterPoint]
  BY <1>2 DEF TypeOK
<1>7. /\ pc'[t] = "warp" /\ \A u \in Thread \ {t} : pc'[u] = pc[u]
      /\ pc' \in [Thread -> BlockPoint \cup LaterPoint]
  BY <1>6 DEF WarpWork, Goto, LaterPoint
<1> DEFINE S == Share(s, Lane(t), WarpSize)
<1>8. worked' = worked (+) SetToBag(S)
  <2>1. Strided(got[t], Lane(t), WarpSize) = SetToBag(S)
    BY <1>2, <1>3, <1>4, <1>5, StridedIs
  <2> QED  BY <1>1, <2>1
<1>9. ASSUME NEW u \in Thread, NEW j \in 0..(Size(u) - 1)
      PROVE  IsWorked(u, j) <=> IF Handed(u) THEN ~Taken(u, j) ELSE pc[u] = "exit"
  BY <1>2 DEF Sharing, At
<1>10. \A j : j % WarpSize = Lane(t) => Taken(s, j)
  <2>1. t \in WarpOf(s)
    BY <1>3, <1>4
  <2> QED  BY <1>1, <1>5, <2>1 DEF Taken, At
<1>11. \A x \in S : \E u \in Thread : \E j \in 0..(Size(u) - 1) :
           x = Element(u, j) /\ ~IsWorked(u, j)
  BY <1>4, <1>5, <1>9, <1>10 DEF Share
<1>12. ASSUME NEW u \in Thread, NEW j \in 0..(Size(u) - 1)
       PROVE  Element(u, j) \in S <=> u = s /\ j % WarpSize = Lane(t)
  <2>1. \A k \in 0..(Size(s) - 1) : k \in Nat
    BY <1>2, <1>5, SizeFacts
  <2>2. j \in Nat
    BY <1>2, SizeFacts
  <2> QED  BY <1>2, <1>5, <2>1, <2>2, ElementsDiffer DEF Share
<1> HIDE DEF S
<1>13. /\ IsABag(worked') /\ Partial'
       /\ \A u \in Thread : \A j \in 0..(Size(u) - 1) :
             IsWorked(u, j)' <=> IsWorked(u, j) \/ Element(u, j) \in S
  BY <1>1, <1>8, <1>11, WorkMore
<1>14. TypeOK'
  BY <1>1, <1>2, <1>7, <1>13, Fixed DEF TypeOK
<1>15. ASSUME NEW u \in Thread, NEW j \in 0..(Size(u) - 1)
       PROVE  Taken(u, j)' <=> Taken(u, j) /\ ~(u = s /\ j % WarpSize = Lane(t))
  <2>1. Taken(u, j) <=> \E v \in WarpOf(u) :
            pc[v] = "warp_work" /\ got[v][1] = LocalSrc(u) /\ Lane(v) = j % WarpSize
    BY DEF Taken, At
  <2>2. Taken(u, j)' <=> \E v \in WarpOf(u) :
            pc'[v] = "warp_work" /\ got[v][1] = LocalSrc(u) /\ Lane(v) = j % WarpSize
    BY <1>1, Fixed DEF Taken, At
  <2>3. got[t][1] = LocalSrc(u) => u = s
    BY <1>2, <1>5, SrcAssumption DEF LocalSrc
  <2>4. \A v \in WarpOf(u) : pc'[v] = "warp_work" <=> pc[v] = "warp_work" /\ v # t
    BY <1>3, <1>7
  <2>5. u = s => WarpOf(u) = WarpOf(t)
    BY <1>3, <1>4
  <2> QED  BY <1>3, <2>1, <2>2, <2>3, <2>4, <2>5
<1>16. ASSUME NEW u \in Thread, NEW j \in 0..(Size(u) - 1)
       PROVE  IsWorked(u, j)' <=> IF Handed(u)' THEN ~Taken(u, j)' ELSE pc'[u] = "exit"
  <2>1. IsWorked(u, j)' <=> IsWorked(u, j) \/ (u = s /\ j % WarpSize = Lane(t))
    BY <1>12, <1>13
  <2>2. Handed(u)' = Handed(u)
    BY <1>1 DEF Handed
  <2>3. pc'[u] = "exit" <=> pc[u] = "exit"
    BY <1>1, <1>7
  <2> QED  BY <1>4, <1>9, <1>15, <2>1, <2>2, <2>3
<1>17. \A u \in Thread : pc'[u] = "warp_work" =>
          \E v \in WarpOf(u) : got'[u] = <<LocalSrc(v), range[v][1], Size(v)>> /\ localSize'[v] = 0
  BY <1>1, <1>2, <1>7 DEF Sharing, At, Published, Handed
<1>18. \A u \in Thread : /\ pc'[u] \in {"check", "warp", "warp_work"}
                                          \cup (IF conf.fine THEN {} ELSE {"own", "exit"})
                         /\ pc'[u] = "check" => pc[u] = "check"
                         /\ localSize'[u] < BlockSize
  BY <1>1, <1>2, <1>7 DEF Sharing, AllIn
<1>19. Sharing'
  BY <1>1, <1>2, <1>16, <1>17, <1>18, SharingNext
<1> QED  BY <1>13, <1>14, <1>19 DEF Inv, Together

(***************************************************************************)
(* The rest in the coarse-grained mode: every thread works on its own.     *)
(***************************************************************************)
LEMMA WarpDoneCoarse ==
    ASSUME Inv, NEW t \in Thread, WarpDone(t), ~conf.fine
    PROVE  Inv'
<1> DEFINE w == WarpOf(t)
<1>1. /\ conf' = conf /\ range' = range /\ shared' = shared /\ offset' = offset
      /\ got' = got /\ localSize' = localSize /\ worked' = worked
      /\ \A u \in w : pc[u] = "warp"
      /\ pc' = [u \in Thread |-> IF u \in w THEN "own" ELSE pc[u]]
  BY DEF WarpDone, At
<1>2. TypeOK /\ w \subseteq Thread /\ t \in w
  BY Warps DEF Inv, TypeOK
<1>3. Sharing
  BY <1>1, <1>2, Regions DEF Inv
<1> HIDE DEF w
<1>4. pc \in [Thread -> BlockPoint \cup LaterPoint]
  BY <1>2 DEF TypeOK
<1>5. /\ pc' \in [Thread -> BlockPoint \cup LaterPoint]
      /\ \A u \in w : pc'[u] = "own"
      /\ \A u \in Thread \ w : pc'[u] = pc[u]
  BY <1>1, <1>2, <1>4 DEF LaterPoint
<1>6. TypeOK'
  BY <1>1, <1>2, <1>5, Fixed, WorkSame DEF TypeOK
<1>7. \A u \in Thread : /\ pc'[u] = "warp_work" <=> pc[u] = "warp_work"
                        /\ pc'[u] = "exit" <=> pc[u] = "exit"
  BY <1>1, <1>5
<1>8. \A u \in Thread : \A j : Taken(u, j)' = Taken(u, j)
  <2> SUFFICES ASSUME NEW u \in Thread, NEW j PROVE Taken(u, j)' = Taken(u, j)
    OBVIOUS
  <2>1. WarpOf(u) \subseteq Thread
    BY <1>2, Warps DEF TypeOK
  <2> QED  BY <1>1, <1>7, <2>1, Fixed DEF Taken, At
<1>9. \A u \in Thread : \A j \in 0..(Size(u) - 1) :
          IsWorked(u, j)' <=> IF Handed(u)' THEN ~Taken(u, j)' ELSE pc'[u] = "exit"
  BY <1>1, <1>3, <1>7, <1>8, WorkSame DEF Sharing, Handed, At
<1>10. \A u \in Thread : pc'[u] = "warp_work" =>
          \E v \in WarpOf(u) : got'[u] = <<LocalSrc(v), range[v][1], Size(v)>> /\ localSize'[v] = 0
  BY <1>1, <1>3, <1>7 DEF Sharing, At, Published, Handed
<1>11. \A u \in Thread : /\ pc'[u] \in {"check", "warp", "warp_work"}
                                          \cup (IF conf.fine THEN {} ELSE {"own", "exit"})
                         /\ pc'[u] = "check" => pc[u] = "check"
                         /\ localSize'[u] < BlockSize
  BY <1>1, <1>3, <1>5 DEF Sharing, AllIn
<1>12. Sharing'
  BY <1>1, <1>3, <1>9, <1>10, <1>11, SharingNext
<1> QED  BY <1>1, <1>6, <1>12, WorkSame DEF Inv, Together

LEMMA OwnInv ==
    ASSUME Inv, NEW t \in Thread, Own(t)
    PROVE  Inv'
<1>1. /\ conf' = conf /\ range' = range /\ shared' = shared /\ offset' = offset
      /\ got' = got /\ localSize' = localSize /\ pc[t] = "own"
      /\ worked' = IF localSize[t] > 0
                   THEN worked (+) Strided(<<LocalSrc(t), range[t][1], localSize[t]>>, 0, 1)
                   ELSE worked
  BY DEF Own, At
<1>2. TypeOK /\ Sharing /\ localSize[t] \in Nat /\ localSize[t] \in {0, Size(t)}
  BY <1>1, Regions, SizeFacts DEF Inv, Partial
<1>3. pc \in [Thread -> BlockPoint \cup LaterPoint]
  BY <1>2 DEF TypeOK
<1>4. /\ pc'[t] = "exit" /\ \A u \in Thread \ {t} : pc'[u] = pc[u]
      /\ pc' \in [Thread -> BlockPoint \cup LaterPoint]
  BY <1>3 DEF Own, Goto, LaterPoint
<1> DEFINE S == IF localSize[t] > 0 THEN Share(t, 0, 1) ELSE {}
<1>5. \A k \in Nat : k % 1 = 0
  BY Division
<1>6. ASSUME NEW u \in Thread, NEW j \in 0..(Size(u) - 1)
      PROVE  IsWorked(u, j) <=> IF Handed(u) THEN ~Taken(u, j) ELSE pc[u] = "exit"
  BY <1>2 DEF Sharing, At
<1>7. /\ IsABag(worked') /\ Partial'
      /\ \A u \in Thread : \A j \in 0..(Size(u) - 1) :
            IsWorked(u, j)' <=> IsWorked(u, j) \/ (u = t /\ localSize[t] > 0)
  <2>1. CASE localSize[t] > 0
    <3>1. Published(<<LocalSrc(t), range[t][1], localSize[t]>>, t)
      BY <1>2, <2>1 DEF Published
    <3>2. 1 \in Nat \ {0} /\ 0 \in 0..(1 - 1)
      OBVIOUS
    <3>3. worked' = worked (+) SetToBag(Share(t, 0, 1))
      <4>1. Strided(<<LocalSrc(t), range[t][1], localSize[t]>>, 0, 1) = SetToBag(Share(t, 0, 1))
        BY <1>2, <3>1, <3>2, StridedIs
      <4> QED  BY <1>1, <2>1, <4>1
    <3>4. \A x \in Share(t, 0, 1) : \E u \in Thread : \E j \in 0..(Size(u) - 1) :
              x = Element(u, j) /\ ~IsWorked(u, j)
      BY <1>1, <1>6, <2>1 DEF Share, Handed
    <3>5. \A u \in Thread : \A j \in 0..(Size(u) - 1) : Element(u, j) \in Share(t, 0, 1) <=> u = t
      <4> SUFFICES ASSUME NEW u \in Thread, NEW j \in 0..(Size(u) - 1)
                   PROVE  Element(u, j) \in Share(t, 0, 1) <=> u = t
        OBVIOUS
      <4>1. \A k \in 0..(Size(t) - 1) : k \in Nat
        BY <1>2, SizeFacts
      <4>2. j \in Nat
        BY <1>2, SizeFacts
      <4> QED  BY <1>2, <1>5, <4>1, <4>2, ElementsDiffer DEF Share
    <3>6. /\ IsABag(worked') /\ Partial'
          /\ \A u \in Thread : \A j \in 0..(Size(u) - 1) :
                IsWorked(u, j)' <=> IsWorked(u, j) \/ Element(u, j) \in Share(t, 0, 1)
      BY <1>1, <3>3, <3>4, WorkMore
    <3> QED  BY <2>1, <3>5, <3>6
  <2>2. CASE ~(localSize[t] > 0)
    BY <1>1, <2>2, WorkSame
  <2> QED  BY <2>1, <2>2
<1>8. TypeOK'
  BY <1>1, <1>2, <1>4, <1>7, Fixed DEF TypeOK
<1>9. \A u \in Thread : /\ pc'[u] = "warp_work" <=> pc[u] = "warp_work"
                        /\ pc'[u] = "exit" <=> pc[u] = "exit" \/ u = t
  BY <1>1, <1>4
<1>10. \A u \in Thread : \A j : Taken(u, j)' = Taken(u, j)
  <2> SUFFICES ASSUME NEW u \in Thread, NEW j PROVE Taken(u, j)' = Taken(u, j)
    OBVIOUS
  <2>1. WarpOf(u) \subseteq Thread
    BY <1>2, Warps DEF TypeOK
  <2> QED  BY <1>1, <1>9, <2>1, Fixed DEF Taken, At
<1>11. ASSUME NEW u \in Thread, NEW j \in 0..(Size(u) - 1)
       PROVE  IsWorked(u, j)' <=> IF Handed(u)' THEN ~Taken(u, j)' ELSE pc'[u] = "exit"
  <2>1. IsWorked(u, j)' <=> IsWorked(u, j) \/ (u = t /\ localSize[t] > 0)
    BY <1>7
  <2>2. Handed(u)' = Handed(u) /\ (Handed(u) <=> localSize[u] = 0)
    BY <1>1 DEF Handed
  <2>3. localSize[t] > 0 <=> localSize[t] # 0
    BY <1>2
  <2> QED  BY <1>6, <1>9, <1>10, <2>1, <2>2, <2>3
<1>12. \A u \in Thread : pc'[u] = "warp_work" =>
          \E v \in WarpOf(u) : got'[u] = <<LocalSrc(v), range[v][1], Size(v)>> /\ localSize'[v] = 0
  BY <1>1, <1>2, <1>9 DEF Sharing, At, Published, Handed
<1>13. \A u \in Thread : /\ pc'[u] \in {"check", "warp", "warp_work"}
                                          \cup (IF conf.fine THEN {} ELSE {"own", "exit"})
                         /\ pc'[u] = "check" => pc[u] = "check"
                         /\ localSize'[u] < BlockSize
  BY <1>1, <1>2, <1>4 DEF Sharing, AllIn
<1>14. Sharing'
  BY <1>1, <1>2, <1>11, <1>12, <1>13, SharingNext
<1> QED  BY <1>7, <1>8, <1>14 DEF Inv, Together
-----------------------------------------------------------------------------
(***************************************************************************)
(* And the steps of the fine-grained mode, with one warp in the block.     *)
(***************************************************************************)
LEMMA PlaceSame ==
    ASSUME conf' = conf, localSize' = localSize
    PROVE  \A u : Place(u)' = Place(u)
  BY DEF Place, BlockSize

LEMMA Places ==
    ASSUME TypeOK, BlockSize = WarpSize, \A u \in Thread : localSize[u] < WarpSize
    PROVE  /\ Place(BlockSize) \in Nat /\ Place(BlockSize) <= FgSize
           /\ \A u \in Thread : /\ Place(u) \in Nat /\ Place(u) < FgSize
                                /\ Place(u) + localSize[u] <= Place(BlockSize)
           /\ \A u, v \in Thread : u < v => Place(u) + localSize[u] <= Place(v)
           /\ \A j \in 0..(Place(BlockSize) - 1) :
                 \E u \in Thread : \E i \in 0..(localSize[u] - 1) : j = Place(u) + i
<1>1. /\ conf \in Config /\ BlockSize \in Nat \ {0} /\ WarpSize \in Nat \ {0}
      /\ Thread = 0..(BlockSize - 1) /\ localSize \in [Thread -> Nat]
      /\ FgSize = BlockSize * WarpSize
  BY Sizes DEF TypeOK, Thread, FgSize
<1>2. \A u \in 0..BlockSize : Place(u) \in Nat
  BY <1>1, PlaceFacts
<1>3. localSize \in [0..(BlockSize - 1) -> Nat] /\ BlockSize \in Nat /\ WarpSize \in Nat
      /\ \A u \in 0..(BlockSize - 1) : localSize[u] <= WarpSize
  BY <1>1
<1>4. \A u \in 0..BlockSize : Place(u) <= u * WarpSize
  BY <1>3, SumsBounded DEF Place
<1>5. BlockSize \in 0..BlockSize
  BY <1>1
<1>6. \A u \in Thread : u * WarpSize < FgSize /\ u \in 0..BlockSize /\ u * WarpSize \in Nat
  <2>1. \A a, b, c \in Nat : a < b /\ c # 0 => a * c < b * c /\ a * c \in Nat /\ b * c \in Nat
    OBVIOUS
  <2> QED  BY <1>1, <2>1
<1>7. \A u \in Thread : Place(u) < FgSize
  <2>1. FgSize \in Nat
    BY <1>1, WordFacts
  <2> QED  BY <1>2, <1>4, <1>6, <2>1
<1>8. \A u \in 0..(BlockSize - 1) : \A v \in 0..BlockSize :
          u < v => Place(u) + localSize[u] <= Place(v)
  BY <1>3, SumsOrdered DEF Place
<1>9. \A j \in Nat : j < Place(BlockSize) =>
          \E u \in 0..(BlockSize - 1) : \E i \in 0..(localSize[u] - 1) : j = Place(u) + i
  BY <1>3, SumsCover DEF Place
<1>10. \A u \in Thread : u < BlockSize /\ u \in 0..BlockSize
  BY <1>1
<1>11. \A j \in 0..(Place(BlockSize) - 1) : j \in Nat /\ j < Place(BlockSize)
  BY <1>2, <1>5
<1> QED  BY <1>1, <1>2, <1>4, <1>5, <1>7, <1>8, <1>9, <1>10, <1>11

LEMMA WarpDoneFine ==
    ASSUME OneWarp, Inv, NEW t \in Thread, WarpDone(t), conf.fine
    PROVE  Inv'
<1>1. /\ TypeOK /\ conf \in Config /\ BlockSize = WarpSize /\ WarpSize \in Nat \ {0}
      /\ Thread = 0..(WarpSize - 1) /\ localSize \in [Thread -> Nat]
  BY Sizes DEF Inv, TypeOK, Thread
<1>2. \A u \in Thread : WarpOf(u) = Thread /\ Lane(u) = u /\ WarpOffset(u) = 0
  BY <1>1, OneWarpFacts
<1>3. /\ conf' = conf /\ range' = range /\ shared' = shared
      /\ localSize' = localSize /\ worked' = worked
      /\ \A u \in Thread : pc[u] = "warp"
      /\ Enough(Thread) = {}
      /\ pc' = [u \in Thread |-> "scatter"]
      /\ offset' = [u \in Thread |-> WarpOffset(u) + ThreadOffset(u)]
      /\ got' = [u \in Thread |-> <<0, WarpOffset(u), Total(Thread)>>]
  BY <1>2 DEF WarpDone, At
<1>4. Sharing
  BY <1>3, Regions DEF Inv
<1>5. \A u \in Thread : localSize[u] < WarpSize
  <2> SUFFICES ASSUME NEW u \in Thread PROVE localSize[u] < WarpSize
    OBVIOUS
  <2>1. ~(localSize[u] >= WarpSize)
    BY <1>3 DEF Enough
  <2>2. localSize[u] \in Nat /\ WarpSize \in Nat
    BY <1>1
  <2> QED  BY <2>1, <2>2
<1>6. /\ Place(BlockSize) \in Nat
      /\ \A u \in Thread : Place(u) \in 0..(FgSize - 1) /\ Place(u) \in Nat
  <2>1. Place(BlockSize) \in Nat /\ \A u \in Thread : Place(u) \in Nat /\ Place(u) < FgSize
    BY <1>1, <1>5, Places
  <2>2. FgSize \in Nat
    BY <1>1, WordFacts
  <2> QED  BY <2>1, <2>2
<1>7. \A u \in Thread : Prefix[Steps][u] = Place(u + 1) /\ Place(u + 1) = Place(u) + localSize[u]
  BY <1>1, PrefixIsSum, PlaceFacts
<1>8. \A u \in Thread : ThreadOffset(u) = Place(u)
  <2> SUFFICES ASSUME NEW u \in Thread PROVE ThreadOffset(u) = Place(u)
    OBVIOUS
  <2>1. localSize[u] \in Nat /\ Place(u) \in Nat
    BY <1>1, <1>6
  <2>2. ThreadOffset(u) = (Place(u) + localSize[u]) - localSize[u]
    BY <1>7 DEF ThreadOffset
  <2> QED  BY <2>1, <2>2
<1>9. Total(Thread) = Place(BlockSize)
  <2>1. WarpSize - 1 \in Thread /\ (WarpSize - 1) + 1 = BlockSize
    BY <1>1
  <2>2. (CHOOSE u \in Thread : Lane(u) = WarpSize - 1) = WarpSize - 1
    BY <1>2, <2>1
  <2>3. Prefix[Steps][WarpSize - 1] = Place((WarpSize - 1) + 1)
    BY <1>7, <2>1
  <2> QED  BY <2>1, <2>2, <2>3 DEF Total
<1>10. \A u \in Thread : offset'[u] = Place(u) /\ got'[u] = <<0, 0, Place(BlockSize)>>
  BY <1>2, <1>3, <1>6, <1>8, <1>9
<1>11. TypeOK'
  <2>1. offset' \in [Thread -> 0..(FgSize - 1)]
    BY <1>3, <1>6, <1>10
  <2>2. <<0, 0, Place(BlockSize)>> \in Nat \X Nat \X Nat
    BY <1>6
  <2>3. got' \in [Thread -> Nat \X Nat \X Nat]
    BY <1>3, <1>10, <2>2
  <2>4. pc' \in [Thread -> BlockPoint \cup LaterPoint]
    BY <1>3 DEF LaterPoint
  <2> QED  BY <1>1, <1>3, <2>1, <2>3, <2>4, Fixed, WorkSame DEF TypeOK
<1>12. \A u \in Thread : pc'[u] = "scatter"
  BY <1>3
<1>13. ASSUME NEW u \in Thread, NEW j \in 0..(Size(u) - 1)
       PROVE  IsWorked(u, j)' <=> localSize[u] = 0 \/ pc'[(Place(u) + j) % WarpSize] = "exit"
  <2>1. IsWorked(u, j)' <=> localSize[u] = 0
    BY <1>2, <1>3, <1>4, WorkSame DEF Sharing, Handed, Taken, At
  <2>2. (Place(u) + j) % WarpSize \in Thread
    <3>1. Place(u) \in Nat /\ Size(u) \in Nat
      BY <1>1, <1>6, SizeFacts
    <3>2. Place(u) + j \in Nat
      BY <3>1
    <3> QED  BY <1>1, <3>2, Division
  <2> QED  BY <1>12, <2>1, <2>2
<1>14. Spreading'
  <2>1. \A u : Place(u)' = Place(u)
    BY <1>3, PlaceSame
  <2>2. Place(BlockSize)' = Place(BlockSize)
    BY <1>3 DEF Place, BlockSize
  <2>3. \A u \in Thread : At(u, "scatter")'
    BY <1>12 DEF At
  <2>4. AllIn({"scatter", "warp_sync"})'
    BY <1>3, <1>12, Fixed DEF AllIn
  <2>5. \A u \in Thread : \A j \in 0..(Size(u) - 1) :
            IsWorked(u, j)' <=> Handed(u)' \/ At((Place(u) + j) % WarpSize, "exit")'
    BY <1>3, <1>13, <2>1, Fixed DEF Handed, At
  <2>6. \A u \in Thread : /\ localSize'[u] < WarpSize' /\ offset'[u] = Place(u)'
                          /\ got'[u] = <<0, 0, Place(BlockSize)'>>
    BY <1>3, <1>5, <1>10, <2>1, <2>2, Fixed
  <2> QED  BY <1>3, <2>3, <2>4, <2>5, <2>6, Fixed DEF Spreading
<1> QED  BY <1>3, <1>11, <1>14, WorkSame DEF Inv, Together

LEMMA ScatterInv ==
    ASSUME OneWarp, Inv, NEW t \in Thread, Scatter(t)
    PROVE  Inv'
<1>1. /\ conf' = conf /\ range' = range /\ got' = got /\ offset' = offset
      /\ localSize' = localSize /\ worked' = worked /\ pc[t] = "scatter"
  BY DEF Scatter, At
<1>2. TypeOK /\ conf \in Config /\ Spreading /\ conf.fine
  <2>1. TypeOK /\ Spreading
    BY <1>1, Regions DEF Inv
  <2> QED  BY <2>1 DEF TypeOK, Spreading
<1>3. /\ BlockSize = WarpSize /\ WarpSize \in Nat \ {0} /\ FgSize \in Nat
      /\ Thread = 0..(WarpSize - 1) /\ localSize \in [Thread -> Nat]
      /\ pc \in [Thread -> BlockPoint \cup LaterPoint]
  BY <1>2, Sizes, WordFacts DEF TypeOK, Thread
<1>4. \A u \in Thread : /\ localSize[u] < WarpSize /\ offset[u] = Place(u)
                        /\ got[u] = <<0, 0, Place(BlockSize)>>
                        /\ pc[u] # "scatter" => Scattered(u)
  BY <1>2 DEF Spreading, At
<1>5. /\ \A u \in Thread : /\ Place(u) \in Nat /\ Place(u) < FgSize
                           /\ Place(u) + localSize[u] <= Place(BlockSize)
      /\ \A u, v \in Thread : u < v => Place(u) + localSize[u] <= Place(v)
      /\ Place(BlockSize) \in Nat /\ Place(BlockSize) <= FgSize
  BY <1>2, <1>3, <1>4, Places
<1>6. /\ pc'[t] = "warp_sync" /\ \A u \in Thread \ {t} : pc'[u] = pc[u]
      /\ pc' \in [Thread -> BlockPoint \cup LaterPoint]
  BY <1>3 DEF Scatter, Goto, LaterPoint
<1> DEFINE p == Place(t)
           l == localSize[t]
<1>7. p \in Nat /\ l \in Nat /\ p + l <= FgSize
  BY <1>3, <1>5
<1>8. shared' = [w \in Word |->
          IF w - p \in 0..(l - 1) THEN LocalSrc(t)
          ELSE IF w - (FgSize + p) \in 0..(l - 1) THEN range[t][1] + (w - (FgSize + p))
               ELSE shared[w]]
  BY <1>4 DEF Scatter, FgSrc, FgData
<1> HIDE DEF p, l
<1>9. shared' \in [Word -> Nat \cup {Junk}]
  <2>1. shared \in [Word -> Nat \cup {Junk}] /\ LocalSrc(t) \in Nat /\ range[t][1] \in Nat
    BY <1>2, SizeFacts DEF TypeOK
  <2>2. \A d : d \in 0..(l - 1) => range[t][1] + d \in Nat
    BY <1>7, <2>1
  <2> QED  BY <1>8, <2>1, <2>2
<1>10. TypeOK'
  BY <1>1, <1>2, <1>6, <1>9, Fixed, WorkSame DEF TypeOK
<1>11. ASSUME NEW u \in Thread, NEW i \in 0..(localSize[u] - 1), u = t \/ pc[u] # "scatter"
       PROVE  /\ shared'[Place(u) + i] = LocalSrc(u)
              /\ shared'[FgSize + (Place(u) + i)] = range[u][1] + i
  <2> DEFINE x == Place(u) + i
  <2>1. Place(u) \in Nat /\ i \in Nat /\ i < localSize[u] /\ localSize[u] \in Nat
    BY <1>3, <1>5
  <2>2. x \in Nat /\ x < FgSize
    <3>1. Place(u) + localSize[u] <= Place(BlockSize)
      BY <1>5
    <3>2. Place(u) + localSize[u] <= FgSize
      BY <1>3, <1>5, <2>1, <3>1
    <3> QED  BY <1>3, <2>1, <3>2
  <2> HIDE DEF x
  <2>3. x \in Word /\ FgSize + x \in Word
    BY <1>3, <2>2 DEF Word
  <2>4. (FgSize + x) - p \notin 0..(l - 1)
    BY <1>3, <1>7, <2>2
  <2>5. x - (FgSize + p) \notin 0..(l - 1)
    BY <1>3, <1>7, <2>2
  <2>6. (FgSize + x) - (FgSize + p) = x - p
    BY <1>3, <1>7, <2>2
  <2>7. CASE u = t
    <3>1. x - p = i /\ i \in 0..(l - 1)
      BY <1>7, <2>1, <2>7 DEF x, p, l
    <3>2. shared'[x] = LocalSrc(t)
      BY <1>8, <2>3, <3>1
    <3>3. shared'[FgSize + x] = range[t][1] + i
      BY <1>8, <2>3, <2>4, <2>6, <3>1
    <3> QED  BY <2>7, <3>2, <3>3 DEF x
  <2>8. CASE u # t
    <3>1. Scattered(u)
      BY <1>4, <1>11, <2>8
    <3>2. shared[x] = LocalSrc(u) /\ shared[FgSize + x] = range[u][1] + i
      BY <3>1 DEF Scattered, FgSrc, FgData, x
    <3>3. x - p \notin 0..(l - 1)
      <4>1. u \in Nat /\ t \in Nat
        BY <1>3
      <4>2. CASE u < t
        <5>1. Place(u) + localSize[u] <= p
          BY <1>5, <4>2 DEF p
        <5> QED  BY <1>7, <2>1, <5>1 DEF x
      <4>3. CASE t < u
        <5>1. p + l <= Place(u)
          BY <1>5, <4>3 DEF p, l
        <5> QED  BY <1>7, <2>1, <5>1 DEF x
      <4> QED  BY <2>8, <4>1, <4>2, <4>3
    <3>4. shared'[x] = shared[x]
      BY <1>8, <2>3, <2>5, <3>3
    <3>5. shared'[FgSize + x] = shared[FgSize + x]
      BY <1>8, <2>3, <2>4, <2>6, <3>3
    <3> QED  BY <3>2, <3>4, <3>5 DEF x
  <2> QED  BY <2>7, <2>8
<1>12. \A u \in Thread : pc'[u] # "scatter" => u = t \/ pc[u] # "scatter"
  BY <1>6
<1>13. \A u : Place(u)' = Place(u)
  BY <1>1, PlaceSame
<1>14. \A u \in Thread : pc'[u] # "scatter" => Scattered(u)'
  <2> SUFFICES ASSUME NEW u \in Thread, pc'[u] # "scatter", NEW i \in 0..(localSize[u] - 1)
               PROVE  /\ shared'[Place(u) + i] = LocalSrc(u)
                      /\ shared'[FgSize + (Place(u) + i)] = range[u][1] + i
    BY <1>1, <1>13, Fixed DEF Scattered, FgSrc, FgData
  <2> QED  BY <1>11, <1>12
<1>15. AllIn({"scatter", "warp_sync"})'
  <2>1. AllIn({"scatter", "warp_sync"})
    BY <1>1, <1>2 DEF Spreading, AllIn
  <2> QED  BY <1>1, <1>6, <2>1, Fixed DEF AllIn
<1>16. ASSUME NEW u \in Thread, NEW j \in 0..(Size(u) - 1)
       PROVE  IsWorked(u, j)' <=> localSize[u] = 0 \/ pc'[(Place(u) + j) % WarpSize] = "exit"
  <2>1. (Place(u) + j) % WarpSize \in Thread
    <3>1. Place(u) \in Nat /\ Size(u) \in Nat
      BY <1>2, <1>5, SizeFacts
    <3>2. Place(u) + j \in Nat
      BY <3>1
    <3> QED  BY <1>3, <3>2, Division
  <2>2. IsWorked(u, j)' <=> localSize[u] = 0 \/ pc[(Place(u) + j) % WarpSize] = "exit"
    BY <1>1, <1>2, WorkSame DEF Spreading, Handed, At
  <2> QED  BY <1>1, <1>6, <2>1, <2>2
<1>17. Spreading'
  <2>1. \A u \in Thread : \A j \in 0..(Size(u) - 1) :
            IsWorked(u, j)' <=> Handed(u)' \/ At((Place(u) + j) % WarpSize, "exit")'
    BY <1>1, <1>13, <1>16, Fixed DEF Handed, At
  <2>2. Place(BlockSize)' = Place(BlockSize)
    BY <1>1 DEF Place, BlockSize
  <2>3. \A u \in Thread : /\ localSize'[u] < WarpSize' /\ offset'[u] = Place(u)'
                          /\ got'[u] = <<0, 0, Place(BlockSize)'>>
    BY <1>1, <1>4, <1>13, <2>2, Fixed
  <2> QED  BY <1>1, <1>2, <1>14, <1>15, <2>1, <2>3, Fixed DEF Spreading, At
<1> QED  BY <1>1, <1>10, <1>17, WorkSame DEF Inv, Together

LEMMA WarpSyncInv ==
    ASSUME OneWarp, Inv, NEW t \in Thread, WarpSync(t)
    PROVE  Inv'
<1>1. /\ conf' = conf /\ range' = range /\ shared' = shared /\ offset' = offset
      /\ got' = got /\ localSize' = localSize /\ worked' = worked
      /\ \A u \in WarpOf(t) : pc[u] = "warp_sync"
      /\ pc' = [u \in Thread |-> IF u \in WarpOf(t) THEN "gather" ELSE pc[u]]
  BY DEF WarpSync, At
<1>2. TypeOK /\ conf \in Config /\ t \in WarpOf(t)
  BY Warps DEF Inv, TypeOK
<1>3. Spreading /\ conf.fine
  <2>1. Spreading
    BY <1>1, <1>2, Regions DEF Inv
  <2> QED  BY <2>1 DEF Spreading
<1>4. /\ BlockSize = WarpSize /\ WarpSize \in Nat \ {0} /\ Thread = 0..(WarpSize - 1)
      /\ localSize \in [Thread -> Nat]
  BY <1>2, <1>3, Sizes DEF Thread, TypeOK
<1>5. WarpOf(t) = Thread
  BY <1>2, <1>4, OneWarpFacts
<1>6. \A u \in Thread : pc[u] = "warp_sync" /\ pc'[u] = "gather"
  BY <1>1, <1>5
<1>7. pc' \in [Thread -> BlockPoint \cup LaterPoint]
  BY <1>1, <1>5 DEF LaterPoint
<1>8. TypeOK'
  BY <1>1, <1>2, <1>7, Fixed, WorkSame DEF TypeOK
<1>9. \A u : Place(u)' = Place(u)
  BY <1>1, PlaceSame
<1>10. Place(BlockSize)' = Place(BlockSize)
  BY <1>1 DEF Place, BlockSize
<1>11. \A u \in Thread : /\ localSize[u] < WarpSize /\ offset[u] = Place(u)
                         /\ got[u] = <<0, 0, Place(BlockSize)>>
                         /\ Scattered(u)
  BY <1>3, <1>6 DEF Spreading, At
<1>12. \A u \in Thread : Scattered(u)'
  BY <1>1, <1>9, <1>11, Fixed DEF Scattered, FgSrc, FgData
<1>13. AllIn({"gather", "exit"})'
  BY <1>1, <1>6, Fixed DEF AllIn
<1>14. ASSUME NEW u \in Thread, NEW j \in 0..(Size(u) - 1)
       PROVE  IsWorked(u, j)' <=> localSize[u] = 0 \/ pc'[(Place(u) + j) % WarpSize] = "exit"
  <2>1. (Place(u) + j) % WarpSize \in Thread
    <3>1. Place(u) \in Nat /\ Size(u) \in Nat
      BY <1>2, <1>4, <1>11, Places, SizeFacts
    <3>2. Place(u) + j \in Nat
      BY <3>1
    <3> QED  BY <1>4, <3>2, Division
  <2>2. IsWorked(u, j)' <=> localSize[u] = 0 \/ pc[(Place(u) + j) % WarpSize] = "exit"
    BY <1>1, <1>3, WorkSame DEF Spreading, Handed, At
  <2> QED  BY <1>6, <2>1, <2>2
<1>15. Spreading'
  <2>1. \A u \in Thread : \A j \in 0..(Size(u) - 1) :
            IsWorked(u, j)' <=> Handed(u)' \/ At((Place(u) + j) % WarpSize, "exit")'
    BY <1>1, <1>9, <1>14, Fixed DEF Handed, At
  <2>2. \A u \in Thread : /\ localSize'[u] < WarpSize' /\ offset'[u] = Place(u)'
                          /\ got'[u] = <<0, 0, Place(BlockSize)'>>
    BY <1>1, <1>9, <1>10, <1>11, Fixed
  <2> QED  BY <1>1, <1>3, <1>12, <1>13, <2>1, <2>2, Fixed DEF Spreading, At
<1> QED  BY <1>1, <1>8, <1>15, WorkSame DEF Inv, Together

LEMMA GatherInv ==
    ASSUME OneWarp, Inv, NEW t \in Thread, Gather(t)
    PROVE  Inv'
<1>1. /\ conf' = conf /\ range' = range /\ got' = got /\ offset' = offset
      /\ localSize' = localSize /\ shared' = shared /\ pc[t] = "gather"
  BY DEF Gather, At
<1>2. TypeOK /\ conf \in Config /\ Spreading /\ conf.fine
  <2>1. TypeOK /\ Spreading
    BY <1>1, Regions DEF Inv
  <2> QED  BY <2>1 DEF TypeOK, Spreading
<1>3. /\ BlockSize = WarpSize /\ WarpSize \in Nat \ {0}
      /\ Thread = 0..(WarpSize - 1) /\ localSize \in [Thread -> Nat]
      /\ pc \in [Thread -> BlockPoint \cup LaterPoint]
      /\ \A u \in Thread : localSize[u] \in {0, Size(u)}
  BY <1>2, Sizes DEF Inv, Partial, TypeOK, Thread
<1>4. \A u \in Thread : /\ localSize[u] < WarpSize /\ offset[u] = Place(u)
                        /\ got[u] = <<0, 0, Place(BlockSize)>>
                        /\ pc[u] # "scatter" => Scattered(u)
  BY <1>2 DEF Spreading, At
<1>5. /\ \A u \in Thread : /\ Place(u) \in Nat
                           /\ Place(u) + localSize[u] <= Place(BlockSize)
      /\ \A j \in 0..(Place(BlockSize) - 1) :
            \E u \in Thread : \E i \in 0..(localSize[u] - 1) : j = Place(u) + i
      /\ Place(BlockSize) \in Nat
  BY <1>2, <1>3, <1>4, Places
<1>6. /\ pc'[t] = "exit" /\ \A u \in Thread \ {t} : pc'[u] = pc[u]
      /\ pc' \in [Thread -> BlockPoint \cup LaterPoint]
  BY <1>3 DEF Gather, Goto, LaterPoint
<1>7. AllIn({"gather", "exit"})
  BY <1>1, <1>2 DEF Spreading, AllIn
<1>8. \A u \in Thread : Scattered(u)
  BY <1>4, <1>7 DEF AllIn
<1> DEFINE n == Place(BlockSize)
           mine == {j \in 0..(n - 1) : j % WarpSize = t}
           S == {<<shared[FgSrc(j)], shared[FgData(j)]>> : j \in mine}
<1>9. worked' = worked (+) SetToBag(S)
  <2>1. Lane(t) = t /\ got[t][2] = 0 /\ got[t][3] = n
    <3>1. Lane(t) = t
      BY <1>2, <1>3, OneWarpFacts
    <3>2. got[t] = <<0, 0, n>>
      BY <1>4
    <3> HIDE DEF n
    <3> QED  BY <3>1, <3>2
  <2>2. {j \in t..(n - 1) : (j - t) % WarpSize = 0} = mine
    <3>1. n \in Nat /\ WarpSize \in Nat \ {0} /\ t \in 0..(WarpSize - 1)
      BY <1>3, <1>5
    <3> HIDE DEF n
    <3> QED  BY <3>1, StridedSet
  <2>3. worked' = worked (+) SetToBag({<<shared[FgSrc(0 + j)], shared[FgData(0 + j)]>> : j \in mine})
    BY <2>1, <2>2 DEF Gather
  <2>4. \A j \in mine : 0 + j = j
    BY <1>5
  <2>5. {<<shared[FgSrc(0 + j)], shared[FgData(0 + j)]>> : j \in mine} = S
    <3> HIDE DEF mine
    <3> QED  BY <2>4
  <2> QED  BY <2>3, <2>5
<1>10. ASSUME NEW u \in Thread, NEW i \in 0..(localSize[u] - 1)
       PROVE  /\ <<shared[FgSrc(Place(u) + i)], shared[FgData(Place(u) + i)]>> = Element(u, i)
              /\ i \in 0..(Size(u) - 1) /\ localSize[u] # 0
              /\ i \in Nat /\ Place(u) + i \in 0..(n - 1)
  <2>1. localSize[u] \in Nat /\ i \in Nat /\ i < localSize[u]
    BY <1>3
  <2>2. localSize[u] # 0 /\ localSize[u] = Size(u)
    BY <1>3, <2>1
  <2>3. Place(u) + i \in 0..(n - 1)
    <3>1. Place(u) + localSize[u] <= n /\ Place(u) \in Nat /\ n \in Nat
      BY <1>5
    <3> HIDE DEF n
    <3> QED  BY <2>1, <3>1
  <2> QED  BY <1>8, <2>1, <2>2, <2>3 DEF Scattered, Element
<1>11. \A x \in S : \E u \in Thread : \E i \in 0..(localSize[u] - 1) :
           x = Element(u, i) /\ (Place(u) + i) % WarpSize = t
  <2> SUFFICES ASSUME NEW j \in mine
               PROVE  \E u \in Thread : \E i \in 0..(localSize[u] - 1) :
                          /\ <<shared[FgSrc(j)], shared[FgData(j)]>> = Element(u, i)
                          /\ (Place(u) + i) % WarpSize = t
    OBVIOUS
  <2>1. j \in 0..(n - 1) /\ j % WarpSize = t
    OBVIOUS
  <2>2. PICK u \in Thread : \E i \in 0..(localSize[u] - 1) : j = Place(u) + i
    BY <1>5, <2>1
  <2>3. PICK i \in 0..(localSize[u] - 1) : j = Place(u) + i
    BY <2>2
  <2> QED  BY <1>10, <2>1, <2>3
<1>12. ASSUME NEW u \in Thread, NEW i \in 0..(localSize[u] - 1), (Place(u) + i) % WarpSize = t
       PROVE  Element(u, i) \in S
  <2>1. Place(u) + i \in mine
    BY <1>10, <1>12
  <2> HIDE DEF mine
  <2> QED  BY <1>10, <2>1
<1> HIDE DEF S, n
<1>13. ASSUME NEW u \in Thread, NEW j \in 0..(Size(u) - 1)
       PROVE  IsWorked(u, j) <=> localSize[u] = 0 \/ pc[(Place(u) + j) % WarpSize] = "exit"
  BY <1>2 DEF Spreading, Handed, At
<1>14. \A x \in S : \E u \in Thread : \E j \in 0..(Size(u) - 1) :
           x = Element(u, j) /\ ~IsWorked(u, j)
  <2> SUFFICES ASSUME NEW x \in S
               PROVE  \E u \in Thread : \E j \in 0..(Size(u) - 1) :
                          x = Element(u, j) /\ ~IsWorked(u, j)
    OBVIOUS
  <2>0. PICK u \in Thread : \E i \in 0..(localSize[u] - 1) :
            x = Element(u, i) /\ (Place(u) + i) % WarpSize = t
    BY <1>11
  <2>1. PICK i \in 0..(localSize[u] - 1) :
            x = Element(u, i) /\ (Place(u) + i) % WarpSize = t
    BY <2>0
  <2>2. i \in 0..(Size(u) - 1) /\ localSize[u] # 0
    BY <1>10
  <2>3. ~IsWorked(u, i)
    BY <1>1, <1>13, <2>1, <2>2
  <2> QED  BY <2>1, <2>2, <2>3
<1>15. ASSUME NEW u \in Thread, NEW j \in 0..(Size(u) - 1)
       PROVE  Element(u, j) \in S <=> localSize[u] # 0 /\ (Place(u) + j) % WarpSize = t
  <2>1. j \in Nat
    BY <1>2, SizeFacts
  <2>2. CASE Element(u, j) \in S
    <3>0. PICK v \in Thread : \E i \in 0..(localSize[v] - 1) :
              Element(u, j) = Element(v, i) /\ (Place(v) + i) % WarpSize = t
      BY <1>11, <2>2
    <3>1. PICK i \in 0..(localSize[v] - 1) :
              Element(u, j) = Element(v, i) /\ (Place(v) + i) % WarpSize = t
      BY <3>0
    <3>2. i \in Nat /\ localSize[v] # 0
      BY <1>10
    <3>3. u = v /\ j = i
      BY <1>2, <2>1, <3>1, <3>2, ElementsDiffer
    <3> QED  BY <2>2, <3>1, <3>2, <3>3
  <2>3. CASE localSize[u] # 0 /\ (Place(u) + j) % WarpSize = t
    <3>1. j \in 0..(localSize[u] - 1)
      BY <1>3, <2>3
    <3> QED  BY <1>12, <2>3, <3>1
  <2> QED  BY <2>2, <2>3
<1>16. /\ IsABag(worked') /\ Partial'
       /\ \A u \in Thread : \A j \in 0..(Size(u) - 1) :
             IsWorked(u, j)' <=> IsWorked(u, j) \/ Element(u, j) \in S
  BY <1>1, <1>9, <1>14, WorkMore
<1>17. TypeOK'
  BY <1>1, <1>2, <1>6, <1>16, Fixed DEF TypeOK
<1>18. ASSUME NEW u \in Thread, NEW j \in 0..(Size(u) - 1)
       PROVE  IsWorked(u, j)' <=> localSize[u] = 0 \/ pc'[(Place(u) + j) % WarpSize] = "exit"
  <2>1. (Place(u) + j) % WarpSize \in Thread
    <3>1. Place(u) \in Nat /\ Size(u) \in Nat
      BY <1>2, <1>5, SizeFacts
    <3>2. Place(u) + j \in Nat
      BY <3>1
    <3> QED  BY <1>3, <3>2, Division
  <2> QED  BY <1>6, <1>13, <1>15, <1>16, <2>1
<1>19. \A u : Place(u)' = Place(u)
  BY <1>1, PlaceSame
<1>20. Place(BlockSize)' = Place(BlockSize)
  BY <1>1 DEF Place, BlockSize
<1>21. \A u \in Thread : Scattered(u)'
  BY <1>1, <1>8, <1>19, Fixed DEF Scattered, FgSrc, FgData
<1>22. AllIn({"gather", "exit"})'
  BY <1>1, <1>6, <1>7, Fixed DEF AllIn
<1>23. Spreading'
  <2>1. \A u \in Thread : \A j \in 0..(Size(u) - 1) :
            IsWorked(u, j)' <=> Handed(u)' \/ At((Place(u) + j) % WarpSize, "exit")'
    BY <1>1, <1>18, <1>19, Fixed DEF Handed, At
  <2>2. \A u \in Thread : /\ localSize'[u] < WarpSize' /\ offset'[u] = Place(u)'
                          /\ got'[u] = <<0, 0, Place(BlockSize)'>>
    BY <1>1, <1>4, <1>19, <1>20, Fixed
  <2> QED  BY <1>1, <1>2, <1>21, <1>22, <2>1, <2>2, Fixed DEF Spreading, At
<1> QED  BY <1>16, <1>17, <1>23 DEF Inv, Together
-----------------------------------------------------------------------------
(***************************************************************************)
(* The theorems.                                                           *)
(***************************************************************************)
LEMMA InitInv ==
    ASSUME Init
    PROVE  Inv
<1>1. conf \in Config /\ range \in [Thread -> Ranges]
  BY DEF Init
<1>2. \A u \in Thread : range[u] \in Nat \X Nat /\ range[u][1] <= range[u][2]
  BY <1>1, RangesAssumption
<1>3. localSize \in [Thread -> Nat] /\ \A u \in Thread : localSize[u] = Size(u)
  <2>1. \A u \in Thread : range[u][2] - range[u][1] \in Nat
    BY <1>2
  <2> QED  BY <2>1 DEF Init, Size
<1>4. FgSize \in Nat \ {0} /\ 0 \in 0..(FgSize - 1)
  BY <1>1, WordFacts
<1>5. shared \in [Word -> Nat \cup {Junk}]
  BY DEF Init
<1>6. got \in [Thread -> Nat \X Nat \X Nat] /\ offset \in [Thread -> 0..(FgSize - 1)]
  BY <1>4 DEF Init
<1>7. pc \in [Thread -> BlockPoint \cup LaterPoint] /\ \A u \in Thread : pc[u] = "begin"
  BY DEF Init, BlockPoint
<1>8. IsABag(worked) /\ DOMAIN worked = {}
  BY DEF Init, IsABag, EmptyBag, SetToBag
<1>9. TypeOK
  BY <1>1, <1>3, <1>5, <1>6, <1>7, <1>8 DEF TypeOK
<1>10. Partial
  BY <1>3, <1>8 DEF Partial
<1>11. Starting
  <2>1. \A u \in Thread : \A j \in 0..(Size(u) - 1) : localSize[u] # 0
    <3> SUFFICES ASSUME NEW u \in Thread, NEW j \in 0..(Size(u) - 1), localSize[u] = 0
                 PROVE  FALSE
      OBVIOUS
    <3>1. Size(u) = 0
      BY <1>3
    <3> QED  BY <3>1
  <2> QED  BY <1>1, <1>7, <1>8, <2>1, Sizes DEF Starting, AllIn, At, IsWorked, Handed
<1> QED  BY <1>9, <1>10, <1>11 DEF Inv, Together

LEMMA NextInv ==
    ASSUME OneWarp, Inv, [Next]_vars
    PROVE  Inv'
<1>1. ASSUME NEW t \in Thread, Step(t) PROVE Inv'
  BY <1>1, BeginInv, CompeteInv, CheckInv, WinInv, ReadInv, WorkInv, WarpWorkInv, OwnInv,
     ScatterInv, GatherInv DEF Step
<1>2. ASSUME NEW t \in Thread, Collective(t) PROVE Inv'
  <2>1. CASE WarpShare(t)
    BY <2>1, WarpShareInv
  <2>2. CASE WarpDone(t)
    BY <2>2, WarpDoneCoarse, WarpDoneFine
  <2>3. CASE WarpSync(t)
    BY <2>3, WarpSyncInv
  <2> QED  BY <1>2, <2>1, <2>2, <2>3 DEF Collective
<1>3. CASE BlockSync
  BY <1>3, BlockSyncInv
<1>4. CASE UNCHANGED vars
  <2>1. /\ conf' = conf /\ range' = range /\ localSize' = localSize /\ shared' = shared
        /\ got' = got /\ offset' = offset /\ pc' = pc /\ worked' = worked
    BY <1>4 DEF vars
  <2>2. TypeOK' /\ Partial'
    BY <2>1, Fixed, WorkSame DEF Inv, TypeOK
  <2>3. Together'
    <3>1. \A u : Place(u)' = Place(u)
      BY <2>1, PlaceSame
    <3>2. Place(BlockSize)' = Place(BlockSize)
      BY <2>1 DEF Place, BlockSize
    <3>3. \A u, j : Taken(u, j)' = Taken(u, j)
      BY <2>1, Fixed DEF Taken, At
    <3>4. Starting => Starting'
      BY <2>1, Fixed, WorkSame DEF Starting, AllIn, At, Handed, Owner
    <3>5. Competing => Competing'
      BY <2>1, Fixed, WorkSame DEF Competing, AllIn, At, Handed, Owner
    <3>6. \A s \in Thread : Winning(s) => Winning(s)'
      BY <2>1, Fixed, WorkSame DEF Winning, AllIn, At, Handed, Owner, Published, Words
    <3>7. \A s \in Thread : Reading(s) => Reading(s)'
      BY <2>1, Fixed, WorkSame DEF Reading, AllIn, At, Handed, Owner, Published, Words
    <3>8. \A s \in Thread : Working(s) => Working(s)'
      BY <2>1, Fixed, WorkSame DEF Working, AllIn, At, Handed, Owner, Published
    <3>9. Sharing => Sharing'
      BY <2>1, <3>3, Fixed, WorkSame DEF Sharing, AllIn, At, Handed, Owner, Published
    <3>10. Spreading => Spreading'
      <4>1. \A u : Scattered(u)' = Scattered(u)
        BY <2>1, <3>1, Fixed DEF Scattered, FgSrc, FgData
      <4> QED  BY <2>1, <3>1, <3>2, <4>1, Fixed, WorkSame DEF Spreading, AllIn, At, Handed
    <3> QED  BY <2>1, <3>4, <3>5, <3>6, <3>7, <3>8, <3>9, <3>10, Fixed DEF Inv, Together
  <2> QED  BY <2>2, <2>3 DEF Inv
<1> QED  BY <1>1, <1>2, <1>3, <1>4 DEF Next, Return

LEMMA Invariant == OneWarp => (Spec => []Inv)
<1> SUFFICES ASSUME OneWarp PROVE Spec => []Inv
  OBVIOUS
<1>1. Init => Inv
  BY InitInv
<1>2. Inv /\ [Next]_vars => Inv'
  BY NextInv
<1> QED  BY <1>1, <1>2, PTL DEF Spec

(***************************************************************************)
(* The variables keep their types: no thread reads shared memory that was  *)
(* not written, and offsets are within the arrays of the fine-grained      *)
(* mode.                                                                   *)
(***************************************************************************)
THEOREM DynamicTypeCorrect == OneWarp => (Spec => []TypeOK)
<1> SUFFICES ASSUME OneWarp PROVE Spec => []TypeOK
  OBVIOUS
<1>1. Inv => TypeOK
  BY DEF Inv
<1> QED  BY <1>1, Invariant, PTL

(***************************************************************************)
(* The threads of a block agree on when no thread has enough work for the  *)
(* block: none is left at a barrier of the block's scheduler.              *)
(***************************************************************************)
THEOREM DynamicUniformExit == OneWarp => (Spec => []UniformExit)
<1> SUFFICES ASSUME OneWarp PROVE Spec => []UniformExit
  OBVIOUS
<1>1. Inv => UniformExit
  <2> SUFFICES ASSUME Inv, NEW t \in Thread, NEW u \in Thread, pc[t] \in BlockPoint,
                      pc[u] \in LaterPoint
               PROVE  At(t, "check") /\ localSize[t] < BlockSize
    BY DEF UniformExit
  <2>1. pc[u] \notin BlockPoint
    BY DEF LaterPoint, BlockPoint, Behind
  <2>2. pc[t] \notin LaterPoint
    BY DEF LaterPoint, BlockPoint, Behind
  <2>3. ~Starting /\ ~Competing
    BY <2>1 DEF Starting, Competing, AllIn, BlockPoint, Behind
  <2>4. \A s \in Thread : ~Winning(s) /\ ~Reading(s) /\ ~Working(s)
    BY <2>1 DEF Winning, Reading, Working, AllIn, BlockPoint, Behind
  <2>5. ~Spreading
    BY <2>2 DEF Spreading, AllIn, LaterPoint
  <2>6. Sharing
    BY <2>3, <2>4, <2>5 DEF Inv, Together
  <2> QED  BY <2>2, <2>6 DEF Sharing, AllIn, At, LaterPoint
<1> QED  BY <1>1, Invariant, PTL

(***************************************************************************)
(* Whoever works on them, every index of every thread's range is worked on *)
(* once, and nothing else is.                                              *)
(***************************************************************************)
THEOREM DynamicEachOnce == OneWarp => (Spec => []EachOnce)
<1> SUFFICES ASSUME OneWarp PROVE Spec => []EachOnce
  OBVIOUS
<1>1. Inv => EachOnce
  <2> SUFFICES ASSUME Inv PROVE EachOnce
    OBVIOUS
  <2>1. TypeOK /\ \A x \in DOMAIN worked : worked[x] = 1 /\ x \in Todo
    BY DEF Inv, Partial
  <2>2. ASSUME Returned, NEW x \in Todo PROVE x \in DOMAIN worked
    <3>1. PICK t \in Thread : \E j \in 0..(Size(t) - 1) : x = Element(t, j)
      BY <2>1, TodoIs
    <3>2. PICK j \in 0..(Size(t) - 1) : x = Element(t, j)
      BY <3>1
    <3>3. \A u \in Thread : pc[u] = "exit"
      BY <2>2 DEF Returned, At
    <3>4. Sharing \/ Spreading
      BY <3>3, Regions DEF Inv
    <3>5. CASE Sharing
      <4>1. ~Taken(t, j)
        <5>1. WarpOf(t) \subseteq Thread
          BY <2>1, Warps DEF TypeOK
        <5> QED  BY <3>3, <5>1 DEF Taken, At
      <4>2. IsWorked(t, j)
        BY <3>3, <3>5, <4>1 DEF Sharing, At
      <4> QED  BY <3>2, <4>2 DEF IsWorked
    <3>6. CASE Spreading
      <4>1. /\ conf \in Config /\ BlockSize = WarpSize /\ WarpSize \in Nat \ {0}
            /\ Thread = 0..(WarpSize - 1)
        BY <2>1, <3>6, Sizes DEF TypeOK, Spreading, Thread
      <4>2. (Place(t) + j) % WarpSize \in Thread
        <5>1. Place(t) \in Nat /\ Size(t) \in Nat
          BY <2>1, <3>6, <4>1, Places, SizeFacts DEF Spreading
        <5>2. Place(t) + j \in Nat
          BY <5>1
        <5> QED  BY <4>1, <5>2, Division
      <4>3. IsWorked(t, j)
        BY <3>3, <3>6, <4>2 DEF Spreading, At
      <4> QED  BY <3>2, <4>3 DEF IsWorked
    <3> QED  BY <3>4, <3>5, <3>6
  <2> QED  BY <2>1, <2>2 DEF EachOnce, BagToSet
<1> QED  BY <1>1, Invariant, PTL
=============================================================================
