-------------------------- MODULE CudaStreamsProofs -------------------------
(***************************************************************************)
(* Proofs about module CudaStreams, for any programs, of any number of     *)
(* states with any number of nodes, and any limits of the streams.         *)
(***************************************************************************)
EXTENDS CudaStreams, FiniteSetTheorems, WellFoundedInduction, TLAPS

(***************************************************************************)
(* Graphs.                                                                 *)
(***************************************************************************)
Index == 1..Len(program)

LEMMA GraphFacts ==
    ASSUME program \in Programs, NEW i \in Index
    PROVE  /\ Len(program) \in Nat /\ Len(program) > 0 /\ program[i] \in Graph
           /\ Len(program[i].kind) \in Nat /\ Len(program[i].kind) <= MaxStreams
           /\ Nodes(i) \subseteq Nat
           /\ \A n \in Nodes(i) : KindOf(i, n) \in Kind
           /\ \A e \in Edges(i) : /\ e \in Nodes(i) \X Nodes(i) /\ e = <<e[1], e[2]>> /\ e[1] < e[2]
                                  /\ IsData(i, e[1]) \/ IsData(i, e[2])
                                  /\ KindOf(i, e[1]) = HostCode => KindOf(i, e[2]) = HostData
                                  /\ KindOf(i, e[2]) = HostCode => KindOf(i, e[1]) = HostData
           /\ \A n \in Nodes(i) : \E e \in Edges(i) : n = e[1] \/ n = e[2]
<1>1. program \in Seq(Graph) /\ program # <<>> /\ GraphType(program[i])
  BY ProgramsAssumption DEF Index
<1>2. program[i] \in Graph /\ Len(program) \in Nat /\ Len(program) > 0
  BY <1>1 DEF Index
<1> DEFINE g == program[i]
<1>3. g.kind \in Seq(Kind) /\ g.edges \in Seq(Nat \X Nat)
  BY <1>2 DEF Graph
<1>4. /\ Len(g.kind) \in Nat /\ Len(g.kind) <= MaxStreams
      /\ DOMAIN g.kind = Nodes(i) /\ Nodes(i) \subseteq Nat
      /\ \A n \in Nodes(i) : KindOf(i, n) \in Kind
  BY <1>1, <1>3 DEF GraphType, Nodes, KindOf
<1>5. \A n \in Nodes(i) : \E e \in Edges(i) : n = e[1] \/ n = e[2]
  BY <1>1, <1>4 DEF GraphType, Edges
<1>6. ASSUME NEW e \in Edges(i)
      PROVE  /\ e \in Nodes(i) \X Nodes(i) /\ e = <<e[1], e[2]>> /\ e[1] < e[2]
             /\ IsData(i, e[1]) \/ IsData(i, e[2])
             /\ KindOf(i, e[1]) = HostCode => KindOf(i, e[2]) = HostData
             /\ KindOf(i, e[2]) = HostCode => KindOf(i, e[1]) = HostData
  <2>1. e \in Nat \X Nat
    BY <1>3 DEF Edges, ToSet
  <2>2. {e[1], e[2]} \subseteq Nodes(i) /\ ValidEdge(g.kind, e)
    BY <1>1, <1>4 DEF GraphType, Edges
  <2> QED  BY <2>1, <2>2 DEF ValidEdge, IsData, KindOf, HostCode, HostData, GPUData
<1> QED  BY <1>2, <1>4, <1>5, <1>6

LEMMA NodeFacts ==
    ASSUME program \in Programs, NEW i \in Index, NEW n \in Nodes(i)
    PROVE  /\ Readers(i, n) \subseteq Nodes(i) /\ Writers(i, n) \subseteq Nodes(i)
           /\ \A m \in Readers(i, n) : n < m /\ <<n, m>> \in Edges(i) /\ n \in Writers(i, m)
           /\ \A m \in Writers(i, n) : m < n /\ <<m, n>> \in Edges(i) /\ n \in Readers(i, m)
           /\ ~IsData(i, n) => \A m \in Readers(i, n) \cup Writers(i, n) : IsData(i, m)
           /\ KindOf(i, n) = HostCode =>
                  \A m \in Readers(i, n) \cup Writers(i, n) : KindOf(i, m) = HostData
           /\ Readers(i, n) # {} \/ Writers(i, n) # {}
           /\ \A m \in Nodes(i) : <<n, m>> \in Edges(i) <=> m \in Readers(i, n)
<1>1. \A e \in Edges(i) : /\ e \in Nodes(i) \X Nodes(i) /\ e = <<e[1], e[2]>> /\ e[1] < e[2]
                          /\ IsData(i, e[1]) \/ IsData(i, e[2])
                          /\ KindOf(i, e[1]) = HostCode => KindOf(i, e[2]) = HostData
                          /\ KindOf(i, e[2]) = HostCode => KindOf(i, e[1]) = HostData
  BY GraphFacts
<1>2. \A m \in Readers(i, n) : m \in Nodes(i) /\ <<n, m>> \in Edges(i)
  BY <1>1 DEF Readers
<1>3. \A m \in Writers(i, n) : m \in Nodes(i) /\ <<m, n>> \in Edges(i)
  BY <1>1 DEF Writers
<1>4. \A a, b : <<a, b>> \in Edges(i) => a \in Writers(i, b) /\ b \in Readers(i, a)
  BY DEF Readers, Writers
<1>5. PICK e \in Edges(i) : n = e[1] \/ n = e[2]
  BY GraphFacts
<1>6. Readers(i, n) # {} \/ Writers(i, n) # {}
  BY <1>1, <1>4, <1>5
<1>7. \A m \in Readers(i, n) : /\ n < m
                               /\ IsData(i, n) \/ IsData(i, m)
                               /\ KindOf(i, n) = HostCode => KindOf(i, m) = HostData
  BY <1>1, <1>2
<1>8. \A m \in Writers(i, n) : /\ m < n
                               /\ IsData(i, n) \/ IsData(i, m)
                               /\ KindOf(i, n) = HostCode => KindOf(i, m) = HostData
  BY <1>1, <1>3
<1>9. \A m \in Readers(i, n) : n < m /\ <<n, m>> \in Edges(i) /\ n \in Writers(i, m)
  BY <1>2, <1>4, <1>7
<1>10. \A m \in Writers(i, n) : m < n /\ <<m, n>> \in Edges(i) /\ n \in Readers(i, m)
  BY <1>3, <1>4, <1>8
<1>11. ~IsData(i, n) => \A m \in Readers(i, n) \cup Writers(i, n) : IsData(i, m)
  BY <1>7, <1>8
<1>12. KindOf(i, n) = HostCode =>
           \A m \in Readers(i, n) \cup Writers(i, n) : KindOf(i, m) = HostData
  BY <1>7, <1>8
<1>13. \A m \in Nodes(i) : <<n, m>> \in Edges(i) <=> m \in Readers(i, n)
  BY <1>2, <1>4
<1> QED  BY <1>2, <1>3, <1>6, <1>9, <1>10, <1>11, <1>12, <1>13

(***************************************************************************)
(* Queues.  Whatever the host puts on the streams leaves what is there     *)
(* already in its place.                                                   *)
(***************************************************************************)
AllWorks == UNION {AllWork(i) : i \in Index}
Item == [work : AllWorks] \cup [of : Stream, count : Nat]
Queues == [Stream -> Seq(Item)]
Counts == [Stream -> Nat]

IsWork(item) == "work" \in DOMAIN item
Holds(q, t, j, w) == q[t][j] = [work |-> w]

LEMMA ItemFacts ==
    /\ \A w \in AllWorks : [work |-> w] \in Item
    /\ \A w : IsWork([work |-> w]) /\ [work |-> w].work = w
    /\ \A s \in Stream, k \in Nat : /\ [of |-> s, count |-> k] \in Item
                                    /\ ~IsWork([of |-> s, count |-> k])
                                    /\ [of |-> s, count |-> k].of = s
                                    /\ [of |-> s, count |-> k].count = k
    /\ \A x \in Item : IsWork(x) => x.work \in AllWorks /\ x = [work |-> x.work]
    /\ \A x \in Item : ~IsWork(x) => x.of \in Stream /\ x.count \in Nat
BY DEF Item, IsWork

Grows(q, r) ==
    \A t \in Stream : /\ Len(q[t]) <= Len(r[t])
                      /\ \A j \in 1..Len(q[t]) : r[t][j] = q[t][j]

(* From q to r the work in W is put on its streams. *)
Emits(q, r, W) ==
    /\ r \in Queues
    /\ Grows(q, r)
    /\ \A t \in Stream : \A j \in 1..Len(r[t]) : \A w :
          j > Len(q[t]) /\ Holds(r, t, j, w) => w \in W /\ t = WorkStream(w)

(* Stream t goes on only when w is done: it is on that stream itself, or   *)
(* an event of another stream that is waited for follows it there.         *)
Signals(q, j, t, w) ==
    /\ ~IsWork(q[t][j])
    /\ \E k \in 1..Len(q[q[t][j].of]) :
          Holds(q, q[t][j].of, k, w) /\ completed[q[t][j].of] + k <= q[t][j].count

Signalled(q, t, w) == \E j \in 1..Len(q[t]) : Holds(q, t, j, w) \/ Signals(q, j, t, w)

LEMMA GrowsTransitive ==
    ASSUME NEW q \in Queues, NEW r \in Queues, NEW u \in Queues, Grows(q, r), Grows(r, u)
    PROVE  Grows(q, u)
<1> SUFFICES ASSUME NEW t \in Stream
             PROVE  Len(q[t]) <= Len(u[t]) /\ \A j \in 1..Len(q[t]) : u[t][j] = q[t][j]
  BY DEF Grows
<1>1. Len(q[t]) \in Nat /\ Len(r[t]) \in Nat /\ Len(u[t]) \in Nat
  BY DEF Queues
<1>2. /\ Len(q[t]) <= Len(r[t]) /\ Len(r[t]) <= Len(u[t])
      /\ \A j \in 1..Len(q[t]) : r[t][j] = q[t][j]
      /\ \A j \in 1..Len(r[t]) : u[t][j] = r[t][j]
  BY DEF Grows
<1> QED  BY <1>1, <1>2

LEMMA EmitsTransitive ==
    ASSUME NEW q \in Queues, NEW r \in Queues, NEW u \in Queues, NEW V, NEW W,
           Emits(q, r, V), Emits(r, u, W)
    PROVE  Emits(q, u, V \cup W)
<1>1. Grows(q, u)
  BY GrowsTransitive DEF Emits
<1>2. ASSUME NEW t \in Stream, NEW j \in 1..Len(u[t]), NEW w, j > Len(q[t]), Holds(u, t, j, w)
      PROVE  w \in V \cup W /\ t = WorkStream(w)
  <2>1. Len(q[t]) \in Nat /\ Len(r[t]) \in Nat /\ Len(u[t]) \in Nat
    BY DEF Queues
  <2>2. CASE j > Len(r[t])
    BY <1>2, <2>2 DEF Emits
  <2>3. CASE ~(j > Len(r[t]))
    <3>1. j \in 1..Len(r[t])
      BY <2>1, <2>3
    <3>2. Holds(r, t, j, w)
      BY <1>2, <3>1 DEF Emits, Grows, Holds
    <3> QED  BY <1>2, <3>1, <3>2 DEF Emits
  <2> QED  BY <2>2, <2>3
<1> QED  BY <1>1, <1>2 DEF Emits

LEMMA SignalledGrows ==
    ASSUME NEW q \in Queues, NEW r \in Queues, Grows(q, r), NEW t \in Stream, NEW w,
           Signalled(q, t, w)
    PROVE  Signalled(r, t, w)
<1>1. \A s \in Stream : /\ Len(q[s]) \in Nat /\ Len(r[s]) \in Nat /\ Len(q[s]) <= Len(r[s])
                        /\ \A k \in 1..Len(q[s]) : k \in 1..Len(r[s]) /\ r[s][k] = q[s][k]
  BY DEF Queues, Grows
<1>2. PICK j \in 1..Len(q[t]) : Holds(q, t, j, w) \/ Signals(q, j, t, w)
  BY DEF Signalled
<1>3. j \in 1..Len(r[t]) /\ r[t][j] = q[t][j]
  BY <1>1
<1>4. CASE Holds(q, t, j, w)
  BY <1>3, <1>4 DEF Signalled, Holds
<1>5. CASE Signals(q, j, t, w)
  <2>1. q[t][j] \in Item /\ ~IsWork(q[t][j])
    BY <1>5 DEF Signals, Queues
  <2>2. q[t][j].of \in Stream
    BY <2>1, ItemFacts
  <2>3. PICK k \in 1..Len(q[q[t][j].of]) :
            Holds(q, q[t][j].of, k, w) /\ completed[q[t][j].of] + k <= q[t][j].count
    BY <1>5 DEF Signals
  <2>4. k \in 1..Len(r[q[t][j].of]) /\ Holds(r, q[t][j].of, k, w)
    BY <1>1, <2>2, <2>3 DEF Holds
  <2>5. Signals(r, j, t, w)
    BY <1>3, <2>1, <2>3, <2>4 DEF Signals
  <2> QED  BY <1>3, <2>5 DEF Signalled
<1> QED  BY <1>2, <1>4, <1>5

LEMMA PutFacts ==
    ASSUME NEW q \in Queues, NEW s \in Stream, NEW w \in AllWorks, WorkStream(w) = s
    PROVE  /\ Put(q, s, [work |-> w]) \in Queues
           /\ Emits(q, Put(q, s, [work |-> w]), {w})
           /\ Signalled(Put(q, s, [work |-> w]), s, w)
           /\ Len(Put(q, s, [work |-> w])[s]) = Len(q[s]) + 1
           /\ Holds(Put(q, s, [work |-> w]), s, Len(q[s]) + 1, w)
<1> DEFINE r == Put(q, s, [work |-> w])
<1>1. r[s] = Append(q[s], [work |-> w]) /\ \A t \in Stream : t # s => r[t] = q[t]
  BY DEF Put, Queues
<1>2. [work |-> w] \in Item
  BY ItemFacts
<1>3. \A t \in Stream : q[t] \in Seq(Item) /\ Len(q[t]) \in Nat
  BY DEF Queues
<1>4. r \in Queues
  BY <1>2 DEF Put, Queues
<1> HIDE DEF r
<1>5. /\ Len(r[s]) = Len(q[s]) + 1 /\ r[s][Len(q[s]) + 1] = [work |-> w]
      /\ \A j \in 1..Len(q[s]) : r[s][j] = q[s][j]
  BY <1>1, <1>2, <1>3
<1>6. Grows(q, r)
  BY <1>1, <1>3, <1>5 DEF Grows
<1>7. ASSUME NEW t \in Stream, NEW j \in 1..Len(r[t]), NEW x, j > Len(q[t]), Holds(r, t, j, x)
      PROVE  x \in {w} /\ t = WorkStream(x)
  <2>1. t = s /\ j = Len(q[s]) + 1
    BY <1>1, <1>3, <1>5, <1>7
  <2>2. x = w
    BY <1>5, <1>7, <2>1, ItemFacts DEF Holds
  <2> QED  BY <2>1, <2>2
<1>8. Emits(q, r, {w})
  BY <1>4, <1>6, <1>7 DEF Emits
<1>9. Len(q[s]) + 1 \in 1..Len(r[s]) /\ Holds(r, s, Len(q[s]) + 1, w)
  BY <1>3, <1>5 DEF Holds
<1>10. Signalled(r, s, w)
  BY <1>9 DEF Signalled
<1> QED  BY <1>4, <1>5, <1>8, <1>9, <1>10 DEF r

LEMMA EventsFacts ==
    ASSUME NEW q \in Queues, completed \in Counts, NEW s \in Stream, NEW S, S \subseteq Stream
    PROVE  /\ Events(q, S, s) \in Queues
           /\ Emits(q, Events(q, S, s), {})
           /\ \A k \in 1..Len(q[s]) : \A w : Holds(q, s, k, w) =>
                  \A t \in S : Signalled(Events(q, S, s), t, w)
<1> DEFINE r == Events(q, S, s)
           x == WaitFor(q, s)
<1>1. \A t \in Stream : q[t] \in Seq(Item) /\ Len(q[t]) \in Nat /\ completed[t] \in Nat
  BY DEF Queues, Counts
<1>2. /\ x \in Item /\ ~IsWork(x) /\ x.of = s /\ x.count = completed[s] + Len(q[s])
      /\ \A w : x # [work |-> w]
  <2>1. completed[s] + Len(q[s]) \in Nat
    BY <1>1
  <2>2. x \in Item /\ ~IsWork(x) /\ x.of = s /\ x.count = completed[s] + Len(q[s])
    BY <2>1, ItemFacts DEF WaitFor
  <2> QED  BY <2>2, ItemFacts
<1> HIDE DEF x
<1>3. \A t \in Stream : r[t] = IF t \in S THEN Append(q[t], x) ELSE q[t]
  BY DEF Events, x
<1>4. r \in Queues
  BY <1>1, <1>2 DEF Events, Queues, x
<1> HIDE DEF r
<1>5. \A t \in S : /\ Len(r[t]) = Len(q[t]) + 1 /\ r[t][Len(q[t]) + 1] = x
                   /\ \A j \in 1..Len(q[t]) : r[t][j] = q[t][j]
  <2> SUFFICES ASSUME NEW t \in S
               PROVE  /\ Len(r[t]) = Len(q[t]) + 1 /\ r[t][Len(q[t]) + 1] = x
                      /\ \A j \in 1..Len(q[t]) : r[t][j] = q[t][j]
    OBVIOUS
  <2>1. q[t] \in Seq(Item) /\ r[t] = Append(q[t], x) /\ x \in Item
    BY <1>1, <1>2, <1>3
  <2> QED  BY <2>1
<1>6. Grows(q, r)
  BY <1>1, <1>3, <1>5 DEF Grows
<1>7. ASSUME NEW t \in Stream, NEW j \in 1..Len(r[t]), NEW w, j > Len(q[t]), Holds(r, t, j, w)
      PROVE  FALSE
  <2>1. t \in S /\ j = Len(q[t]) + 1
    BY <1>1, <1>3, <1>5, <1>7
  <2> QED  BY <1>2, <1>5, <1>7, <2>1 DEF Holds
<1>8. Emits(q, r, {})
  BY <1>4, <1>6, <1>7 DEF Emits
<1>9. ASSUME NEW k \in 1..Len(q[s]), NEW w, Holds(q, s, k, w), NEW t \in S
      PROVE  Signalled(r, t, w)
  <2>1. Len(q[t]) + 1 \in 1..Len(r[t]) /\ r[t][Len(q[t]) + 1] = x
    BY <1>1, <1>5
  <2>2. k \in 1..Len(r[s]) /\ Holds(r, s, k, w)
    BY <1>1, <1>4, <1>6, <1>9 DEF Grows, Holds, Queues
  <2>3. completed[s] + k <= x.count
    BY <1>1, <1>2
  <2>4. Signals(r, Len(q[t]) + 1, t, w)
    BY <1>2, <2>1, <2>2, <2>3 DEF Signals
  <2> QED  BY <2>1, <2>4 DEF Signalled
<1> QED  BY <1>4, <1>8, <1>9 DEF r

(***************************************************************************)
(* Induction over the naturals, for properties that are sets, and the      *)
(* functions that recursion from one number to the next defines.           *)
(***************************************************************************)
Less == {p \in Nat \X Nat : p[1] < p[2]}

LEMMA LessWellFounded == IsWellFoundedOn(Less, Nat)
  BY NatLessThanWellFounded DEF OpToRel, Less

LEMMA NatSetInduction ==
    ASSUME NEW S, 0 \in S, \A n \in Nat : n \in S => n + 1 \in S
    PROVE  Nat \subseteq S
<1> DEFINE T == Nat \ S
<1> SUFFICES ASSUME T # {} PROVE FALSE
  OBVIOUS
<1>1. PICK x \in T : \A y \in T : <<y, x>> \notin Less
  BY LessWellFounded, WFMin
<1>2. x # 0 /\ x - 1 \in Nat /\ x \in Nat /\ x - 1 < x
  OBVIOUS
<1>3. <<x - 1, x>> \in Less
  BY <1>2 DEF Less
<1> HIDE DEF T
<1>4. x - 1 \notin T
  BY <1>1, <1>3
<1>5. x - 1 \in S
  BY <1>2, <1>4 DEF T
<1>6. (x - 1) + 1 \in S
  BY <1>2, <1>5
<1> QED  BY <1>2, <1>6 DEF T

Follows(h, a, F, n) == h[0] = a /\ \A m \in 1..n : h[m] = F[<<m, h[m - 1]>>]

LEMMA Recursion ==
    ASSUME NEW V, NEW a \in V, NEW F \in [Nat \X V -> V], NEW n \in Nat
    PROVE  \E h \in [0..n -> V] : Follows(h, a, F, n)
<1> DEFINE S == {k \in Nat : \E h \in [0..k -> V] : Follows(h, a, F, k)}
<1>1. 0 \in S
  <2>1. [m \in 0..0 |-> a] \in [0..0 -> V] /\ Follows([m \in 0..0 |-> a], a, F, 0)
    BY DEF Follows
  <2> QED  BY <2>1
<1>2. ASSUME NEW k \in Nat, k \in S PROVE k + 1 \in S
  <2>1. PICK h \in [0..k -> V] : Follows(h, a, F, k)
    BY <1>2
  <2> DEFINE g == [m \in 0..(k + 1) |-> IF m = k + 1 THEN F[<<k + 1, h[k]>>] ELSE h[m]]
  <2>2. F[<<k + 1, h[k]>>] \in V
    BY <2>1
  <2>3. g \in [0..(k + 1) -> V]
    BY <2>1, <2>2
  <2>4. g[0] = a
    BY <2>1 DEF Follows
  <2>5. ASSUME NEW m \in 1..(k + 1) PROVE g[m] = F[<<m, g[m - 1]>>]
    <3>1. CASE m = k + 1
      <4>1. (k + 1) - 1 = k /\ k \in 0..(k + 1) /\ k # k + 1 /\ k + 1 \in 0..(k + 1)
        OBVIOUS
      <4>2. g[k] = h[k] /\ g[k + 1] = F[<<k + 1, h[k]>>]
        BY <4>1
      <4> QED  BY <3>1, <4>1, <4>2
    <3>2. CASE m # k + 1
      <4>1. m \in 1..k /\ m \in 0..(k + 1) /\ m - 1 \in 0..(k + 1) /\ m - 1 # k + 1
        BY <3>2
      <4>2. g[m] = h[m] /\ g[m - 1] = h[m - 1]
        BY <3>2, <4>1
      <4> QED  BY <2>1, <4>1, <4>2 DEF Follows
    <3> QED  BY <3>1, <3>2
  <2> HIDE DEF g
  <2>6. Follows(g, a, F, k + 1)
    BY <2>4, <2>5 DEF Follows
  <2> QED  BY <2>3, <2>6
<1> HIDE DEF S
<1>3. n \in S
  BY <1>1, <1>2, NatSetInduction
<1> QED  BY <1>3 DEF S

(***************************************************************************)
(* Among and EmitCopies.                                                   *)
(***************************************************************************)
LEMMA AmongFacts ==
    ASSUME NEW T, NEW seq \in Seq(T), NEW S
    PROVE  /\ Among(seq, S) \in Seq(T)
           /\ ToSet(Among(seq, S)) = ToSet(seq) \cap S
<1> DEFINE F == [p \in Nat \X Seq(T) |->
                    IF p[1] \in 1..Len(seq) /\ seq[p[1]] \in S
                    THEN Append(p[2], seq[p[1]]) ELSE p[2]]
           N == Len(seq)
<1>1. N \in Nat /\ \A m \in 1..N : seq[m] \in T
  OBVIOUS
<1>2. F \in [Nat \X Seq(T) -> Seq(T)]
  <2>1. ASSUME NEW p \in Nat \X Seq(T)
        PROVE  (IF p[1] \in 1..Len(seq) /\ seq[p[1]] \in S
                THEN Append(p[2], seq[p[1]]) ELSE p[2]) \in Seq(T)
    <3>1. p[2] \in Seq(T)
      OBVIOUS
    <3>2. CASE p[1] \in 1..Len(seq) /\ seq[p[1]] \in S
      BY <1>1, <3>1, <3>2
    <3> QED  BY <3>1, <3>2
  <2> QED  BY <2>1
<1>3. \A m \in 1..N : \A x \in Seq(T) :
          F[<<m, x>>] = IF seq[m] \in S THEN Append(x, seq[m]) ELSE x
  OBVIOUS
<1> HIDE DEF F
<1>4. PICK h \in [0..N -> Seq(T)] : Follows(h, <<>>, F, N)
  <2>1. <<>> \in Seq(T)
    OBVIOUS
  <2> QED  BY <1>1, <1>2, <2>1, Recursion
<1>5. ASSUME NEW m \in 1..N
      PROVE  h[m] = IF seq[m] \in S THEN Append(h[m - 1], seq[m]) ELSE h[m - 1]
  <2>1. h[m - 1] \in Seq(T)
    BY <1>1, <1>4
  <2> QED  BY <1>3, <1>4, <2>1 DEF Follows
<1>6. h = [k \in 0..N |-> IF k = 0 THEN <<>>
                          ELSE IF seq[k] \in S THEN Append(h[k - 1], seq[k]) ELSE h[k - 1]]
  <2>1. h[0] = <<>>
    BY <1>4 DEF Follows
  <2>2. \A k \in 0..N : k # 0 => k \in 1..N
    BY <1>1
  <2>3. \A k \in 0..N : h[k] = IF k = 0 THEN <<>> ELSE
                             IF seq[k] \in S THEN Append(h[k - 1], seq[k]) ELSE h[k - 1]
    BY <1>5, <2>1, <2>2
  <2>4. h = [k \in 0..N |-> h[k]]
    BY <1>4
  <2> HIDE DEF N
  <2> QED  BY <2>3, <2>4
<1> DEFINE G(g) == g = [k \in 0..N |-> IF k = 0 THEN <<>>
                          ELSE IF seq[k] \in S THEN Append(g[k - 1], seq[k]) ELSE g[k - 1]]
           a == CHOOSE g : G(g)
<1>7. Among(seq, S) = a[N]
  BY DEF Among
<1>8. G(a)
  <2>1. G(h)
    BY <1>6
  <2> HIDE DEF G
  <2> QED  BY <2>1
<1>9. a = [k \in 0..N |-> IF k = 0 THEN <<>>
                          ELSE IF seq[k] \in S THEN Append(a[k - 1], seq[k]) ELSE a[k - 1]]
  BY <1>8
<1> HIDE DEF a, G
<1>10. a[0] = <<>> /\ \A k \in 0..(N - 1) :
           a[k + 1] = IF seq[k + 1] \in S THEN Append(a[k], seq[k + 1]) ELSE a[k]
  <2> HIDE DEF N
  <2>1. ASSUME NEW k \in 0..(N - 1)
        PROVE  a[k + 1] = IF seq[k + 1] \in S THEN Append(a[k], seq[k + 1]) ELSE a[k]
    <3>1. k + 1 \in 0..N /\ k + 1 # 0 /\ (k + 1) - 1 = k
      BY <1>1
    <3> QED  BY <1>9, <3>1
  <2>2. 0 \in 0..N
    BY <1>1
  <2> QED  BY <1>9, <2>1, <2>2
<1> DEFINE Is(k) == /\ a[k] \in Seq(T)
                    /\ \A x : x \in ToSet(a[k]) <=> x \in S /\ \E j \in 1..k : seq[j] = x
           I == {k \in Nat : k <= N => Is(k)}
<1>11. 0 \in I
  <2>1. <<>> \in Seq(T) /\ ToSet(<<>>) = {}
    BY DEF ToSet
  <2>2. a[0] \in Seq(T) /\ \A x : x \notin ToSet(a[0])
    BY <1>10, <2>1
  <2>3. \A j : j \notin 1..0
    OBVIOUS
  <2>4. Is(0)
    BY <2>2, <2>3
  <2> QED  BY <2>4
<1>12. ASSUME NEW k \in Nat, k \in I PROVE k + 1 \in I
  <2> SUFFICES ASSUME k + 1 <= N PROVE Is(k + 1)
    OBVIOUS
  <2>1. k \in 0..(N - 1) /\ k + 1 \in 1..N /\ Is(k) /\ seq[k + 1] \in T
    BY <1>1, <1>12
  <2>2. a[k + 1] = IF seq[k + 1] \in S THEN Append(a[k], seq[k + 1]) ELSE a[k]
    BY <1>10, <2>1
  <2>3. \A j : j \in 1..(k + 1) <=> j \in 1..k \/ j = k + 1
    BY <2>1
  <2>4. CASE seq[k + 1] \in S
    <3>1. a[k] \in Seq(T) /\ a[k + 1] = Append(a[k], seq[k + 1])
      BY <2>1, <2>2, <2>4
    <3>2. a[k + 1] \in Seq(T) /\ ToSet(a[k + 1]) = ToSet(a[k]) \cup {seq[k + 1]}
      <4>1. /\ Len(a[k + 1]) = Len(a[k]) + 1 /\ a[k + 1][Len(a[k]) + 1] = seq[k + 1]
            /\ \A j \in 1..Len(a[k]) : a[k + 1][j] = a[k][j]
            /\ a[k + 1] \in Seq(T) /\ Len(a[k]) \in Nat
        BY <2>1, <3>1
      <4>2. \A j : j \in 1..Len(a[k + 1]) <=> j \in 1..Len(a[k]) \/ j = Len(a[k]) + 1
        BY <4>1
      <4>3. DOMAIN a[k + 1] = 1..Len(a[k + 1]) /\ DOMAIN a[k] = 1..Len(a[k])
        BY <3>1, <4>1
      <4> QED  BY <4>1, <4>2, <4>3 DEF ToSet
    <3> QED  BY <2>1, <2>3, <2>4, <3>2
  <2>5. CASE ~(seq[k + 1] \in S)
    BY <2>1, <2>2, <2>3, <2>5
  <2> QED  BY <2>4, <2>5
<1> HIDE DEF I
<1>13. Nat \subseteq I
  BY <1>11, <1>12, NatSetInduction
<1>14. Is(N)
  <2>1. N \in I /\ N <= N
    BY <1>1, <1>13
  <2> QED  BY <2>1 DEF I
<1>15. \A x : x \in ToSet(seq) <=> \E j \in 1..N : seq[j] = x
  BY DEF ToSet
<1> QED  BY <1>7, <1>14, <1>15

(* A copy that may be put on a stream. *)
Copyable(e) ==
    /\ <<at, e[1], e[2]>> \in AllWorks
    /\ CopyStream(at, e[1], e[2]) \in Stream
    /\ WorkStream(<<at, e[1], e[2]>>) = CopyStream(at, e[1], e[2])
    /\ SyncWith(at, e[1], e[2]) \subseteq Stream

CopySignalled(q, e) ==
    /\ Signalled(q, CopyStream(at, e[1], e[2]), <<at, e[1], e[2]>>)
    /\ ~IsSync(at, e[1], e[2]) =>
          \A t \in SyncWith(at, e[1], e[2]) : Signalled(q, t, <<at, e[1], e[2]>>)

LEMMA EmitCopyFacts ==
    ASSUME NEW q \in Queues, completed \in Counts, NEW e, Copyable(e)
    PROVE  /\ EmitCopy(q, e) \in Queues
           /\ Emits(q, EmitCopy(q, e), {<<at, e[1], e[2]>>})
           /\ CopySignalled(EmitCopy(q, e), e)
<1> DEFINE s == CopyStream(at, e[1], e[2])
           w == <<at, e[1], e[2]>>
           r == Put(q, s, [work |-> w])
           S == SyncWith(at, e[1], e[2])
<1>1. s \in Stream /\ w \in AllWorks /\ WorkStream(w) = s /\ S \subseteq Stream
  BY DEF Copyable
<1>2. EmitCopy(q, e) = IF IsSync(at, e[1], e[2]) THEN r ELSE Events(r, S, s)
  BY DEF EmitCopy, Work
<1>3. CopySignalled(EmitCopy(q, e), e) <=>
          /\ Signalled(EmitCopy(q, e), s, w)
          /\ ~IsSync(at, e[1], e[2]) => \A t \in S : Signalled(EmitCopy(q, e), t, w)
  BY DEF CopySignalled
<1> HIDE DEF s, w, S
<1>4. /\ r \in Queues /\ Emits(q, r, {w}) /\ Signalled(r, s, w)
      /\ Len(r[s]) = Len(q[s]) + 1 /\ Holds(r, s, Len(q[s]) + 1, w)
  BY <1>1, PutFacts
<1> HIDE DEF r
<1>5. CASE IsSync(at, e[1], e[2])
  BY <1>2, <1>3, <1>4, <1>5 DEF w
<1>6. CASE ~IsSync(at, e[1], e[2])
  <2>1. /\ Events(r, S, s) \in Queues
        /\ Emits(r, Events(r, S, s), {})
        /\ \A k \in 1..Len(r[s]) : \A x : Holds(r, s, k, x) =>
               \A t \in S : Signalled(Events(r, S, s), t, x)
    BY <1>1, <1>4, EventsFacts
  <2>2. Len(q[s]) \in Nat
    BY <1>1 DEF Queues
  <2>3. \A t \in S : Signalled(Events(r, S, s), t, w)
    BY <1>4, <2>1, <2>2
  <2>4. Emits(q, Events(r, S, s), {w} \cup {})
    BY <1>4, <2>1, EmitsTransitive
  <2>5. Signalled(Events(r, S, s), s, w)
    BY <1>1, <1>4, <2>1, SignalledGrows DEF Emits
  <2>6. {w} \cup {} = {w}
    OBVIOUS
  <2> QED  BY <1>2, <1>3, <1>6, <2>1, <2>3, <2>4, <2>5, <2>6 DEF w
<1> QED  BY <1>5, <1>6

CopySignalledGrow(q, r) == \A e : Copyable(e) /\ CopySignalled(q, e) => CopySignalled(r, e)

LEMMA CopySignalledGrows ==
    ASSUME NEW q \in Queues, NEW r \in Queues, Grows(q, r)
    PROVE  CopySignalledGrow(q, r)
<1> SUFFICES ASSUME NEW e, Copyable(e), CopySignalled(q, e) PROVE CopySignalled(r, e)
  BY DEF CopySignalledGrow
<1> DEFINE w == <<at, e[1], e[2]>>
<1>1. CopyStream(at, e[1], e[2]) \in Stream /\ SyncWith(at, e[1], e[2]) \subseteq Stream
  BY DEF Copyable
<1>2. \A t \in Stream : Signalled(q, t, w) => Signalled(r, t, w)
  BY SignalledGrows
<1> QED  BY <1>1, <1>2 DEF CopySignalled

CopyWorks(E) == {<<at, e[1], e[2]>> : e \in E}

LEMMA EmitCopiesFacts ==
    ASSUME NEW q \in Queues, completed \in Counts, NEW T, NEW copies \in Seq(T),
           \A e \in T : Copyable(e)
    PROVE  /\ EmitCopies(q, copies) \in Queues
           /\ Emits(q, EmitCopies(q, copies), CopyWorks(ToSet(copies)))
           /\ \A e \in ToSet(copies) : CopySignalled(EmitCopies(q, copies), e)
<1> DEFINE N == Len(copies)
           F == [p \in Nat \X Queues |->
                    IF p[1] \in 1..Len(copies) THEN EmitCopy(p[2], copies[p[1]]) ELSE p[2]]
<1>1. N \in Nat /\ \A m \in 1..N : copies[m] \in T /\ Copyable(copies[m])
  OBVIOUS
<1>2. \A p \in Queues : \A m \in 1..N :
          /\ EmitCopy(p, copies[m]) \in Queues
          /\ Emits(p, EmitCopy(p, copies[m]), {<<at, copies[m][1], copies[m][2]>>})
          /\ CopySignalled(EmitCopy(p, copies[m]), copies[m])
  BY <1>1, EmitCopyFacts
<1>3. F \in [Nat \X Queues -> Queues]
  BY <1>2
<1>4. \A m \in 1..N : \A x \in Queues : F[<<m, x>>] = EmitCopy(x, copies[m])
  OBVIOUS
<1> HIDE DEF F
<1>5. PICK h \in [0..N -> Queues] : Follows(h, q, F, N)
  BY <1>1, <1>3, Recursion
<1>6. ASSUME NEW m \in 1..N PROVE h[m] = EmitCopy(h[m - 1], copies[m])
  <2>1. h[m - 1] \in Queues
    BY <1>1, <1>5
  <2> QED  BY <1>4, <1>5, <2>1 DEF Follows
<1>7. h = [k \in 0..N |-> IF k = 0 THEN q ELSE EmitCopy(h[k - 1], copies[k])]
  <2>1. h[0] = q
    BY <1>5 DEF Follows
  <2>2. \A k \in 0..N : k # 0 => k \in 1..N
    BY <1>1
  <2>3. \A k \in 0..N : h[k] = IF k = 0 THEN q ELSE EmitCopy(h[k - 1], copies[k])
    BY <1>6, <2>1, <2>2
  <2>4. h = [k \in 0..N |-> h[k]]
    BY <1>5
  <2> HIDE DEF N
  <2> QED  BY <2>3, <2>4
<1> DEFINE G(g) == g = [k \in 0..N |-> IF k = 0 THEN q ELSE EmitCopy(g[k - 1], copies[k])]
           a == CHOOSE g : G(g)
<1>8. EmitCopies(q, copies) = a[N]
  BY DEF EmitCopies
<1>9. G(a)
  <2>1. G(h)
    BY <1>7
  <2> HIDE DEF G
  <2> QED  BY <2>1
<1>10. a = [k \in 0..N |-> IF k = 0 THEN q ELSE EmitCopy(a[k - 1], copies[k])]
  BY <1>9
<1> HIDE DEF a, G
<1>11. a[0] = q /\ \A k \in 0..(N - 1) : a[k + 1] = EmitCopy(a[k], copies[k + 1])
  <2> HIDE DEF N
  <2>1. ASSUME NEW k \in 0..(N - 1) PROVE a[k + 1] = EmitCopy(a[k], copies[k + 1])
    <3>1. k + 1 \in 0..N /\ k + 1 # 0 /\ (k + 1) - 1 = k
      BY <1>1
    <3> QED  BY <1>10, <3>1
  <2>2. 0 \in 0..N
    BY <1>1
  <2> QED  BY <1>10, <2>1, <2>2
<1> DEFINE Sent(k) == CopyWorks({copies[j] : j \in 1..k})
           Is(k) == /\ a[k] \in Queues
                    /\ Emits(q, a[k], Sent(k))
                    /\ \A j \in 1..k : CopySignalled(a[k], copies[j])
           I == {k \in Nat : k <= N => Is(k)}
<1>12. 0 \in I
  <2>1. Grows(q, q) /\ \A W : Emits(q, q, W)
    BY DEF Grows, Emits, Queues
  <2>2. \A j : j \notin 1..0
    OBVIOUS
  <2>3. Is(0)
    BY <1>11, <2>1, <2>2
  <2> QED  BY <2>3
<1>13. ASSUME NEW k \in Nat, k \in I PROVE k + 1 \in I
  <2> SUFFICES ASSUME k + 1 <= N PROVE Is(k + 1)
    OBVIOUS
  <2>1. k \in 0..(N - 1) /\ k + 1 \in 1..N /\ Is(k)
    BY <1>1, <1>13
  <2> DEFINE e == copies[k + 1]
             x == <<at, e[1], e[2]>>
  <2>2. a[k + 1] = EmitCopy(a[k], e) /\ a[k] \in Queues /\ Copyable(e)
    BY <1>1, <1>11, <2>1
  <2>3. a[k + 1] \in Queues /\ Emits(a[k], a[k + 1], {x}) /\ CopySignalled(a[k + 1], e)
    BY <1>2, <2>1, <2>2
  <2>4. Emits(q, a[k + 1], Sent(k) \cup {x})
    <3> HIDE DEF Sent, x
    <3> QED  BY <2>1, <2>2, <2>3, EmitsTransitive
  <2>5. Sent(k + 1) = Sent(k) \cup {x}
    <3>1. \A j : j \in 1..(k + 1) <=> j \in 1..k \/ j = k + 1
      OBVIOUS
    <3>2. {copies[j] : j \in 1..(k + 1)} = {copies[j] : j \in 1..k} \cup {e}
      BY <3>1
    <3> QED  BY <3>2 DEF CopyWorks
  <2>6. ASSUME NEW j \in 1..(k + 1) PROVE CopySignalled(a[k + 1], copies[j])
    <3>1. CASE j = k + 1
      BY <2>3, <3>1
    <3>2. CASE j # k + 1
      <4>1. j \in 1..k /\ j \in 1..N
        BY <2>1, <3>2
      <4>2. CopySignalled(a[k], copies[j]) /\ Copyable(copies[j])
        BY <1>1, <2>1, <4>1
      <4>3. CopySignalledGrow(a[k], a[k + 1])
        BY <2>2, <2>3, CopySignalledGrows DEF Emits
      <4> QED  BY <4>2, <4>3 DEF CopySignalledGrow
    <3> QED  BY <3>1, <3>2
  <2> HIDE DEF Sent, x, e
  <2> QED  BY <2>3, <2>4, <2>5, <2>6
<1> HIDE DEF I
<1>14. Is(N)
  <2>1. N \in I /\ N <= N
    BY <1>1, <1>12, <1>13, NatSetInduction
  <2> QED  BY <2>1 DEF I
<1>15. ToSet(copies) = {copies[j] : j \in 1..N}
  BY DEF ToSet
<1>16. \A e \in ToSet(copies) : CopySignalled(a[N], e)
  BY <1>14, <1>15
<1> QED  BY <1>8, <1>14, <1>15, <1>16

(***************************************************************************)
(* Cuts: how much may be completed of every stream at some later moment,   *)
(* as far as the events that are waited for tell.  Work is done in a cut   *)
(* when it is finished, or among what the cut completes.                   *)
(***************************************************************************)
Position(s) == completed[s] + Len(queue[s])

IsCut(C) ==
    \A t \in Stream :
        /\ C[t] >= completed[t]
        /\ \A j \in 1..Len(queue[t]) :
              completed[t] + j <= C[t] /\ ~IsWork(queue[t][j]) =>
                  C[queue[t][j].of] >= queue[t][j].count

Cuts == {C \in Counts : IsCut(C)}

Done(C, w) ==
    \/ w \in finished
    \/ \E t \in Stream : \E j \in 1..Len(queue[t]) : completed[t] + j <= C[t] /\ Holds(queue, t, j, w)

(* The work is done when all that is on the stream now is completed. *)
Covers(s, w) == \A C \in Cuts : C[s] >= Position(s) => Done(C, w)

Precedes(v, w) == \A C \in Cuts : Done(C, w) => Done(C, v)

QueuesOK == queue \in Queues /\ completed \in Counts

(***************************************************************************)
(* What every step does: there are fewer cuts, and more is done in them.   *)
(***************************************************************************)
Evolves ==
    /\ \A C \in Cuts' : C \in Cuts
    /\ \A C \in Cuts' : \A w : Done(C, w) => Done(C, w)'
    /\ \A s \in Stream : Position(s) <= Position(s)'

LEMMA CompletedIsCut ==
    ASSUME QueuesOK
    PROVE  completed \in Cuts /\ \A w : Done(completed, w) => w \in finished
<1>1. \A t \in Stream : completed[t] \in Nat /\ Len(queue[t]) \in Nat
  BY DEF QueuesOK, Counts, Queues
<1>2. \A t \in Stream : \A j \in 1..Len(queue[t]) : ~(completed[t] + j <= completed[t])
  BY <1>1
<1>3. IsCut(completed)
  BY <1>1, <1>2 DEF IsCut
<1> QED  BY <1>2, <1>3 DEF QueuesOK, Cuts, Done

LEMMA CoversEvolves ==
    ASSUME QueuesOK, QueuesOK', Evolves, NEW s \in Stream, NEW w, Covers(s, w)
    PROVE  Covers(s, w)'
<1> SUFFICES ASSUME NEW C \in Cuts', C[s] >= Position(s)' PROVE Done(C, w)'
  BY DEF Covers
<1>1. C \in Cuts
  BY DEF Evolves
<1>2. C[s] \in Nat /\ Position(s) \in Nat /\ Position(s)' \in Nat /\ Position(s) <= Position(s)'
  <2>1. C \in Counts /\ completed' \in [Stream -> Nat] /\ queue' \in [Stream -> Seq(Item')]
    BY <1>1 DEF Cuts, QueuesOK, Counts, Queues
  <2>2. completed \in [Stream -> Nat] /\ queue \in [Stream -> Seq(Item)]
    BY DEF QueuesOK, Counts, Queues
  <2>3. Len(queue'[s]) \in Nat /\ completed'[s] \in Nat /\ Len(queue[s]) \in Nat /\ completed[s] \in Nat
    BY <2>1, <2>2
  <2> QED  BY <2>1, <2>3 DEF Position, Counts, Evolves
<1>3. C[s] >= Position(s)
  BY <1>2
<1>4. Done(C, w)
  BY <1>1, <1>3 DEF Covers
<1> QED  BY <1>4 DEF Evolves

LEMMA SignalledCovers ==
    ASSUME QueuesOK, NEW t \in Stream, NEW w, Signalled(queue, t, w)
    PROVE  Covers(t, w)
<1> SUFFICES ASSUME NEW C \in Cuts, C[t] >= Position(t) PROVE Done(C, w)
  BY DEF Covers
<1>1. \A s \in Stream : completed[s] \in Nat /\ Len(queue[s]) \in Nat /\ C[s] \in Nat
  BY DEF QueuesOK, Counts, Queues, Cuts
<1>2. PICK j \in 1..Len(queue[t]) : Holds(queue, t, j, w) \/ Signals(queue, j, t, w)
  BY DEF Signalled
<1>3. completed[t] + j <= C[t]
  BY <1>1 DEF Position
<1>4. CASE Holds(queue, t, j, w)
  BY <1>3, <1>4 DEF Done
<1>5. CASE Signals(queue, j, t, w)
  <2> DEFINE x == queue[t][j]
             u == x.of
  <2>1. x \in Item /\ ~IsWork(x)
    BY <1>5 DEF Signals, QueuesOK, Queues
  <2>2. u \in Stream /\ x.count \in Nat
    BY <2>1, ItemFacts
  <2>3. PICK k \in 1..Len(queue[u]) : Holds(queue, u, k, w) /\ completed[u] + k <= x.count
    BY <1>5 DEF Signals
  <2>4. C[u] >= x.count
    BY <1>3, <2>1 DEF Cuts, IsCut
  <2> HIDE DEF u, x
  <2>5. completed[u] + k <= C[u]
    BY <1>1, <2>2, <2>3, <2>4
  <2> QED  BY <2>2, <2>3, <2>5 DEF Done
<1> QED  BY <1>2, <1>4, <1>5

(***************************************************************************)
(* A step of the host.                                                     *)
(***************************************************************************)
Emission(W) ==
    /\ Emits(queue, queue', W)
    /\ completed' = completed
    /\ finished \subseteq finished'
    /\ program' = program

LEMMA EmissionEvolves ==
    ASSUME QueuesOK, NEW W, Emission(W)
    PROVE  /\ QueuesOK' /\ Evolves
           /\ \A C \in Cuts' : \A w : Done(C, w)' =>
                 \/ Done(C, w)
                 \/ w \in finished'
                 \/ /\ w \in W /\ WorkStream(w) \in Stream
                    /\ C[WorkStream(w)] >= Position(WorkStream(w))
<1>1. /\ queue' \in Queues /\ Grows(queue, queue') /\ completed' = completed
      /\ finished \subseteq finished' /\ completed \in Counts /\ queue \in Queues
  BY DEF Emission, Emits, QueuesOK
<1>2. Queues' = Queues /\ Counts' = Counts
  BY DEF Emission, Queues, Counts, Item, AllWorks, AllWork, CodeWork, CopyWork, Nodes, IsData, Edges,
         KindOf, Index
<1>3. QueuesOK'
  BY <1>1, <1>2 DEF QueuesOK
<1>4. \A t \in Stream : /\ completed[t] \in Nat /\ Len(queue[t]) \in Nat /\ Len(queue'[t]) \in Nat
                        /\ Len(queue[t]) <= Len(queue'[t])
                        /\ \A j \in 1..Len(queue[t]) : j \in 1..Len(queue'[t]) /\ queue'[t][j] = queue[t][j]
  BY <1>1 DEF Counts, Queues, Grows
<1>5. ASSUME NEW C \in Cuts' PROVE C \in Cuts
  <2>1. C \in Counts /\ IsCut(C)'
    BY <1>2 DEF Cuts
  <2>2. IsCut(C)
    BY <1>1, <1>4, <2>1 DEF IsCut
  <2> QED  BY <2>1, <2>2 DEF Cuts
<1>6. ASSUME NEW C \in Cuts', NEW w, Done(C, w) PROVE Done(C, w)'
  BY <1>1, <1>4, <1>6 DEF Done, Holds
<1>7. \A s \in Stream : Position(s) <= Position(s)'
  BY <1>1, <1>4 DEF Position
<1>8. Evolves
  BY <1>5, <1>6, <1>7 DEF Evolves
<1>9. ASSUME NEW C \in Cuts', NEW w, Done(C, w)', ~Done(C, w), w \notin finished'
      PROVE  /\ w \in W /\ WorkStream(w) \in Stream
             /\ C[WorkStream(w)] >= Position(WorkStream(w))
  <2>0. PICK t \in Stream :
            \E j \in 1..Len(queue'[t]) : completed[t] + j <= C[t] /\ Holds(queue', t, j, w)
    BY <1>1, <1>9 DEF Done, Holds
  <2>1. PICK j \in 1..Len(queue'[t]) : completed[t] + j <= C[t] /\ Holds(queue', t, j, w)
    BY <2>0
  <2>2. C[t] \in Nat
    BY <1>2, <1>5 DEF Cuts, Counts
  <2>3. j > Len(queue[t])
    <3>1. j \in 1..Len(queue[t]) => queue'[t][j] = queue[t][j]
      BY <1>4
    <3>2. j \in 1..Len(queue[t]) => Done(C, w)
      BY <2>1, <3>1 DEF Done, Holds
    <3> QED  BY <1>4, <1>9, <3>2
  <2>4. w \in W /\ t = WorkStream(w)
    BY <2>1, <2>3 DEF Emission, Emits
  <2> QED  BY <1>4, <2>1, <2>2, <2>3, <2>4 DEF Position
<1> QED  BY <1>3, <1>8, <1>9

(***************************************************************************)
(* A step of the GPU.                                                      *)
(***************************************************************************)
LEMMA ExecuteEvolves ==
    ASSUME QueuesOK, NEW s \in Stream, Execute(s)
    PROVE  /\ QueuesOK' /\ Evolves
           /\ \A C \in Cuts' : \A w : Done(C, w)' => Done(C, w)
<1> DEFINE item == Head(queue[s])
<1>1. \A t \in Stream : completed[t] \in Nat /\ queue[t] \in Seq(Item) /\ Len(queue[t]) \in Nat
  BY DEF QueuesOK, Counts, Queues
<1>2. /\ queue[s] # <<>> /\ program' = program
      /\ queue' = [queue EXCEPT ![s] = Tail(@)] /\ completed' = [completed EXCEPT ![s] = @ + 1]
  BY DEF Execute
<1>3. /\ item = queue[s][1] /\ item \in Item /\ Len(queue[s]) > 0
      /\ Len(Tail(queue[s])) = Len(queue[s]) - 1 /\ Tail(queue[s]) \in Seq(Item)
      /\ \A j \in 1..(Len(queue[s]) - 1) : Tail(queue[s])[j] = queue[s][j + 1]
  BY <1>1, <1>2
<1>4. /\ Len(queue'[s]) = Len(queue[s]) - 1 /\ completed'[s] = completed[s] + 1
      /\ \A j \in 1..(Len(queue[s]) - 1) : queue'[s][j] = queue[s][j + 1]
      /\ \A t \in Stream : t # s => queue'[t] = queue[t] /\ completed'[t] = completed[t]
  BY <1>2, <1>3 DEF QueuesOK, Queues, Counts
<1>5. queue' \in Queues /\ completed' \in Counts
  BY <1>1, <1>2, <1>3 DEF QueuesOK, Queues, Counts
<1>6. Queues' = Queues /\ Counts' = Counts
  BY <1>2 DEF Queues, Counts, Item, AllWorks, AllWork, CodeWork, CopyWork, Nodes, IsData, Edges,
              KindOf, Index
<1>7. QueuesOK'
  BY <1>5, <1>6 DEF QueuesOK
<1>8. /\ IsWork(item) => finished' = finished \cup {item.work}
      /\ ~IsWork(item) => completed[item.of] >= item.count /\ finished' = finished
  BY DEF Execute, IsWork
<1> HIDE DEF item
<1>9. ASSUME NEW t \in Stream PROVE Position(t)' = Position(t)
  <2>1. CASE t # s
    BY <1>4, <2>1 DEF Position
  <2>2. CASE t = s
    <3>1. completed'[s] + Len(queue'[s]) = completed[s] + Len(queue[s])
      <4>1. /\ completed[s] \in Nat /\ completed'[s] = completed[s] + 1
            /\ Len(queue[s]) \in Nat /\ Len(queue'[s]) = Len(queue[s]) - 1
        BY <1>1, <1>4
      <4> QED  BY <4>1
    <3> QED  BY <2>2, <3>1 DEF Position
  <2> QED  BY <2>1, <2>2
<1>10. ASSUME NEW C \in Cuts' PROVE C \in Cuts
  <2>1. C \in Counts /\ IsCut(C)'
    BY <1>6 DEF Cuts
  <2>2. \A t \in Stream : C[t] \in Nat /\ C[t] >= completed'[t]
    BY <2>1 DEF Counts, IsCut
  <2>3. \A t \in Stream : C[t] >= completed[t]
    BY <1>1, <1>4, <2>2
  <2>4. ASSUME NEW t \in Stream, NEW j \in 1..Len(queue[t]),
               completed[t] + j <= C[t], ~IsWork(queue[t][j])
        PROVE  C[queue[t][j].of] >= queue[t][j].count
    <3>1. CASE t # s
      BY <1>4, <2>1, <2>4, <3>1 DEF IsCut
    <3>2. CASE t = s /\ j = 1
      <4>1. queue[t][j] = item /\ ~IsWork(item) /\ item.of \in Stream /\ item.count \in Nat
        BY <1>3, <2>4, <3>2, ItemFacts
      <4>2. completed[item.of] >= item.count /\ C[item.of] >= completed[item.of]
        BY <1>8, <2>3, <4>1
      <4> QED  BY <1>1, <2>2, <4>1, <4>2
    <3>3. CASE t = s /\ j # 1
      <4>1. j - 1 \in 1..Len(queue'[s]) /\ queue'[s][j - 1] = queue[s][j]
            /\ completed'[s] + (j - 1) <= C[s]
        <5>1. j - 1 \in 1..(Len(queue[s]) - 1) /\ (j - 1) + 1 = j
          BY <1>1, <3>3
        <5>2. completed'[s] + (j - 1) = completed[s] + j
          BY <1>1, <1>4, <3>3
        <5> QED  BY <1>4, <2>4, <3>3, <5>1, <5>2
      <4> QED  BY <2>1, <2>4, <3>3, <4>1 DEF IsCut
    <3> QED  BY <3>1, <3>2, <3>3
  <2>5. IsCut(C)
    BY <2>3, <2>4 DEF IsCut
  <2> QED  BY <2>1, <2>5 DEF Cuts
<1>11. ASSUME NEW C \in Cuts', NEW w, Done(C, w) PROVE Done(C, w)'
  <2>1. CASE w \in finished
    BY <1>8, <2>1 DEF Done
  <2>2. CASE w \notin finished
    <3>0. PICK t \in Stream :
              \E j \in 1..Len(queue[t]) : completed[t] + j <= C[t] /\ Holds(queue, t, j, w)
      BY <1>11, <2>2 DEF Done
    <3>1. PICK j \in 1..Len(queue[t]) : completed[t] + j <= C[t] /\ Holds(queue, t, j, w)
      BY <3>0
    <3>2. CASE t # s
      BY <1>4, <3>1, <3>2 DEF Done, Holds
    <3>3. CASE t = s /\ j = 1
      <4>1. IsWork(item) /\ item.work = w
        BY <1>3, <3>1, <3>3, ItemFacts DEF Holds
      <4> QED  BY <1>8, <4>1 DEF Done
    <3>4. CASE t = s /\ j # 1
      <4>1. j - 1 \in 1..(Len(queue[s]) - 1) /\ (j - 1) + 1 = j
        BY <1>1, <3>4
      <4>2. completed'[s] + (j - 1) = completed[s] + j
        BY <1>1, <1>4, <3>4
      <4>3. j - 1 \in 1..Len(queue'[s]) /\ Holds(queue', s, j - 1, w) /\ completed'[s] + (j - 1) <= C[s]
        BY <1>4, <3>1, <3>4, <4>1, <4>2 DEF Holds
      <4> QED  BY <4>3 DEF Done, Holds
    <3> QED  BY <3>2, <3>3, <3>4
  <2> QED  BY <2>1, <2>2
<1>12. \A t \in Stream : Position(t) <= Position(t)'
  BY <1>1, <1>9 DEF Position
<1>13. Evolves
  BY <1>10, <1>11, <1>12 DEF Evolves
<1>14. ASSUME NEW C \in Cuts', NEW w, Done(C, w)' PROVE Done(C, w)
  <2>1. C \in Counts /\ \A t \in Stream : C[t] \in Nat /\ C[t] >= completed'[t]
    BY <1>6 DEF Cuts, Counts, IsCut
  <2>2. CASE w \in finished
    BY <2>2 DEF Done
  <2>3. CASE w \in finished' \ finished
    <3>1. IsWork(item) /\ w = item.work
      BY <1>8, <2>3
    <3>2. Holds(queue, s, 1, w)
      BY <1>3, <3>1, ItemFacts DEF Holds
    <3>3. completed[s] + 1 <= C[s] /\ 1 \in 1..Len(queue[s])
      BY <1>1, <1>3, <1>4, <2>1
    <3> QED  BY <3>2, <3>3 DEF Done
  <2>4. CASE w \notin finished'
    <3>0. PICK t \in Stream :
              \E j \in 1..Len(queue'[t]) : completed'[t] + j <= C[t] /\ Holds(queue', t, j, w)
      BY <1>14, <2>4 DEF Done, Holds
    <3>1. PICK j \in 1..Len(queue'[t]) : completed'[t] + j <= C[t] /\ Holds(queue', t, j, w)
      BY <3>0
    <3>2. CASE t # s
      BY <1>4, <3>1, <3>2 DEF Done, Holds
    <3>3. CASE t = s
      <4>1. j \in 1..(Len(queue[s]) - 1) /\ j + 1 \in 1..Len(queue[s])
        BY <1>1, <1>4, <3>1, <3>3
      <4>2. completed'[s] + j = completed[s] + (j + 1)
        <5>1. completed[s] \in Nat /\ completed'[s] = completed[s] + 1 /\ j \in Nat
          BY <1>1, <1>4, <4>1
        <5> QED  BY <5>1
      <4>3. Holds(queue, s, j + 1, w) /\ completed[s] + (j + 1) <= C[s]
        BY <1>4, <3>1, <3>3, <4>1, <4>2 DEF Holds
      <4> QED  BY <4>1, <4>3 DEF Done
    <3> QED  BY <3>2, <3>3
  <2> QED  BY <2>2, <2>3, <2>4
<1> QED  BY <1>7, <1>13, <1>14

(***************************************************************************)
(* What depends on the program only, and on the streams of its nodes.      *)
(***************************************************************************)
LEMMA SameGraph ==
    ASSUME program' = program
    PROVE  /\ Index' = Index /\ AllWorks' = AllWorks /\ Queues' = Queues /\ Counts' = Counts
           /\ \A i : /\ Nodes(i)' = Nodes(i) /\ Edges(i)' = Edges(i)
                     /\ Sources(i)' = Sources(i) /\ Sinks(i)' = Sinks(i)
                     /\ AllWork(i)' = AllWork(i) /\ HostWork(i)' = HostWork(i)
           /\ \A i, n : /\ KindOf(i, n)' = KindOf(i, n) /\ IsData(i, n)' = IsData(i, n)
                        /\ Readers(i, n)' = Readers(i, n) /\ Writers(i, n)' = Writers(i, n)
                        /\ OutEdges(i, n)' = OutEdges(i, n) /\ CodeReaders(i, n)' = CodeReaders(i, n)
                        /\ OnGPU(i, n)' = OnGPU(i, n) /\ KeepsStream(i, n)' = KeepsStream(i, n)
                        /\ OnHost(i, n)' = OnHost(i, n) /\ Writes(i, n)' = Writes(i, n)
           /\ \A w : Needs(w)' = Needs(w)
<1>1. /\ Index' = Index
      /\ \A i : Nodes(i)' = Nodes(i) /\ Edges(i)' = Edges(i)
      /\ \A i, n : KindOf(i, n)' = KindOf(i, n)
  BY DEF Index, Nodes, Edges, KindOf
<1>2. \A i, n : IsData(i, n)' = IsData(i, n) /\ OnGPU(i, n)' = OnGPU(i, n) /\ OnHost(i, n)' = OnHost(i, n)
  BY <1>1 DEF IsData, OnGPU, OnHost
<1>3. \A i, n : Readers(i, n)' = Readers(i, n) /\ Writers(i, n)' = Writers(i, n)
  BY <1>1 DEF Readers, Writers
<1>4. \A i, n : OutEdges(i, n)' = OutEdges(i, n)
  BY <1>1 DEF OutEdges
<1>5. \A i, n : CodeReaders(i, n)' = CodeReaders(i, n) /\ KeepsStream(i, n)' = KeepsStream(i, n)
  BY <1>2, <1>3 DEF CodeReaders, KeepsStream
<1>6. \A i : Sources(i)' = Sources(i) /\ Sinks(i)' = Sinks(i)
  BY <1>1, <1>3 DEF Sources, Sinks
<1>7. \A i : AllWork(i)' = AllWork(i)
  BY <1>1, <1>2 DEF AllWork, CodeWork, CopyWork
<1>8. \A i : HostWork(i)' = HostWork(i)
  BY <1>1, <1>2, <1>7 DEF HostWork
<1>9. AllWorks' = AllWorks
  BY <1>1, <1>7 DEF AllWorks
<1>10. Queues' = Queues /\ Counts' = Counts
  BY <1>9 DEF Queues, Item, Counts
<1>11. \A i, n : Writes(i, n)' = Writes(i, n)
  BY <1>2, <1>3 DEF Writes
<1>12. \A w : Needs(w)' = Needs(w)
  BY <1>3, <1>11 DEF Needs
<1> QED  BY <1>1, <1>2, <1>3, <1>4, <1>5, <1>6, <1>7, <1>8, <1>9, <1>10, <1>11, <1>12

LEMMA SameStreams ==
    ASSUME program' = program, stream' = stream
    PROVE  /\ \A i, N : StreamsOf(i, N)' = StreamsOf(i, N)
           /\ \A i, n : HasStream(i, n)' = HasStream(i, n)
           /\ \A i : /\ BeginStreams(i)' = BeginStreams(i) /\ StreamsToSync(i)' = StreamsToSync(i)
                     /\ Relaxed(i)' = Relaxed(i)
                     /\ Sound(i)' = Sound(i) /\ BeginsIdle(i)' = BeginsIdle(i)
           /\ \A w : WorkStream(w)' = WorkStream(w)
<1>1. \A i, n : HasStream(i, n)' = HasStream(i, n)
  BY DEF HasStream
<1>2. \A i, N : StreamsOf(i, N)' = StreamsOf(i, N)
  BY <1>1 DEF StreamsOf
<1>3. \A i : BeginStreams(i)' = BeginStreams(i) /\ StreamsToSync(i)' = StreamsToSync(i)
  BY <1>1, <1>2, SameGraph DEF BeginStreams, StreamsToSync
<1>4. \A i : Relaxed(i)' = Relaxed(i)
  BY <1>3 DEF Relaxed
<1>5. \A w : WorkStream(w)' = WorkStream(w)
  BY <1>1 DEF WorkStream, CopyStream
<1>6. \A i : BeginsIdle(i)' = BeginsIdle(i)
  BY <1>3, <1>5, SameGraph DEF BeginsIdle
<1>7. \A i, a, b : /\ CopyStream(i, a, b)' = CopyStream(i, a, b)
                   /\ HasEvent(i, a, b)' = HasEvent(i, a, b)
  BY <1>1 DEF CopyStream, HasEvent
<1>8. \A i, a, b : SyncWith(i, a, b)' = SyncWith(i, a, b) /\ IsSync(i, a, b)' = IsSync(i, a, b)
  BY <1>1, <1>2, <1>7, SameGraph DEF SyncWith, IsSync
<1>9. \A i, e : DropsEvents(i, e)' = DropsEvents(i, e)
  BY <1>8, SameGraph DEF DropsEvents
<1>10. \A i, e : CopiesUnsynced(i, e)' = CopiesUnsynced(i, e)
  BY SameGraph DEF CopiesUnsynced
<1>11. \A i, d : ThirdStream(i, d)' = ThirdStream(i, d)
  BY <1>1, SameGraph DEF ThirdStream
<1>12. \A i : Sound(i)' = Sound(i)
  BY <1>9, <1>10, <1>11, SameGraph DEF Sound
<1> QED  BY <1>1, <1>2, <1>3, <1>4, <1>5, <1>6, <1>12

(***************************************************************************)
(* The annotation.                                                         *)
(***************************************************************************)
Usable == IF limit > 0 THEN 0..(limit - 1) ELSE Stream
StreamsOK ==
    /\ stream = [i \in Index |-> stream[i]]
    /\ \A i \in Index : stream[i] \in [Nodes(i) -> {NoStream} \cup Usable]

Base ==
    /\ program \in Programs /\ limit \in Limits /\ at \in Index
    /\ phase \in {"sources", "walk", "run", "done"}
    /\ emitted \subseteq Nodes(at) /\ finished \subseteq AllWorks
    /\ QueuesOK /\ StreamsOK

Needed(i, n) == Writers(i, n) # {} \/ ~IsData(i, n)

(* What only one kernel writes has the stream of that kernel. *)
Follow(i) == \A d \in Nodes(i) : \A m \in Nodes(i) :
    HasStream(i, d) /\ Writers(i, d) = {m} /\ KindOf(i, m) = Kernel => stream[i][d] = stream[i][m]

Unneeded(i) == \A n \in Nodes(i) : ~Needed(i, n) => ~HasStream(i, n)

(* A state before it is annotated, after that and in the end. *)
Blank(i) == \A n \in Nodes(i) : ~HasStream(i, n)
Complete(i) == (\A n \in Nodes(i) : Needed(i, n) => HasStream(i, n)) /\ Unneeded(i) /\ Follow(i)
Final(i) ==
    /\ \A n \in Nodes(i) : Needed(i, n) /\ KeepsStream(i, n) => HasStream(i, n)
    /\ \A n \in Nodes(i) : KindOf(i, n) = HostCode => ~HasStream(i, n)
    /\ Unneeded(i)
    /\ Follow(i)

(* The nodes that are visited have visited readers, but for those whose    *)
(* edges the walk has not followed to the end.                             *)
OnStack(n) == \E k \in 1..Len(walk) :
    /\ walk[k][1] = n
    /\ \A x \in 1..Len(OutEdges(at, n)) : x < walk[k][2] => OutEdges(at, n)[x][2] \in visited

Walking ==
    /\ walk \in Seq(Nodes(at) \X (Nat \ {0}))
    /\ visited \subseteq Nodes(at)
    /\ childpath \subseteq Nodes(at) /\ \A n \in childpath : KindOf(at, n) # Kernel
    /\ \A k \in 1..Len(walk) : walk[k][1] \in visited
    /\ \A n \in visited : Readers(at, n) \subseteq visited \/ OnStack(n)
    /\ \A n \in Nodes(at) : Needed(at, n) /\ (n \in visited \/ Writers(at, n) = {}) => HasStream(at, n)
    /\ Unneeded(at)
    /\ Follow(at)

FreshOK ==
    /\ fresh \in Nat
    /\ limit > 0 => fresh < limit
    /\ limit = 0 => fresh <= Cardinality({n \in Nodes(at) : HasStream(at, n)})

Annotating ==
    /\ phase = "walk" => Walking /\ FreshOK
    /\ phase # "walk" => walk = <<>> /\ visited = {} /\ childpath = {}
    /\ phase \in {"sources", "walk"} =>
          /\ \A i \in 1..(at - 1) : Complete(i)
          /\ \A i \in (at + 1)..Len(program) : Blank(i)
          /\ emitted = {} /\ finished = {} /\ queue = [s \in Stream |-> <<>>]
    /\ phase = "sources" => Blank(at)
    /\ phase \in {"run", "done"} => \A i \in Index : Final(i)

LEMMA SameAnnotation ==
    ASSUME program' = program, stream' = stream
    PROVE  \A i : /\ Final(i)' = Final(i) /\ Complete(i)' = Complete(i) /\ Blank(i)' = Blank(i)
                  /\ Unneeded(i)' = Unneeded(i) /\ Follow(i)' = Follow(i)
<1>1. \A i, n : Needed(i, n)' = Needed(i, n)
  BY SameGraph DEF Needed
<1>2. \A i : Unneeded(i)' = Unneeded(i) /\ Follow(i)' = Follow(i) /\ Blank(i)' = Blank(i)
  BY <1>1, SameGraph, SameStreams DEF Unneeded, Follow, Blank
<1>3. \A i : Complete(i)' = Complete(i)
  BY <1>1, <1>2, SameGraph, SameStreams DEF Complete
<1>4. \A i : Final(i)' = Final(i)
  BY <1>1, <1>2, SameGraph, SameStreams DEF Final
<1> QED  BY <1>2, <1>3, <1>4

LEMMA StreamFacts ==
    ASSUME Base
    PROVE  /\ MaxStreams \in Nat /\ limit \in Nat /\ Usable \subseteq Stream
           /\ NoStream \notin Stream /\ NoStream = -1
           /\ \A i \in Index : \A n \in Nodes(i) :
                 /\ HasStream(i, n) => stream[i][n] \in Usable /\ stream[i][n] \in Stream
                 /\ ~HasStream(i, n) => stream[i][n] = NoStream
<1>1. MaxStreams \in Nat /\ limit \in Nat /\ limit <= MaxStreams
  BY LimitsAssumption DEF Base
<1>2. Usable \subseteq Stream
  BY <1>1 DEF Usable, Stream
<1>3. NoStream \notin Stream /\ NoStream = -1
  BY <1>1 DEF Stream, NoStream
<1>4. \A i \in Index : stream[i] \in [Nodes(i) -> {NoStream} \cup Usable]
  BY DEF Base, StreamsOK
<1> QED  BY <1>1, <1>2, <1>3, <1>4 DEF HasStream

LEMMA NthFacts ==
    ASSUME Base, NEW k \in Nat
    PROVE  /\ Nth(k) \in Nat /\ increment(k) \in Nat
           /\ limit > 0 => Nth(k) < limit /\ increment(k) < limit
           /\ limit = 0 => Nth(k) = k /\ increment(k) = k + 1
<1>1. limit \in Nat
  BY StreamFacts
<1>2. CASE limit > 0
  <2>1. k % limit \in 0..(limit - 1) /\ (k + 1) % limit \in 0..(limit - 1)
    BY <1>1, <1>2
  <2> QED  BY <1>1, <1>2, <2>1 DEF Nth, increment
<1>3. CASE limit = 0
  BY <1>3 DEF Nth, increment
<1> QED  BY <1>1, <1>2, <1>3

LEMMA CountFacts ==
    ASSUME program \in Programs, NEW i \in Index, NEW S \in SUBSET Nodes(i)
    PROVE  /\ IsFiniteSet(S) /\ Cardinality(S) \in Nat /\ Cardinality(S) <= MaxStreams
           /\ \A n \in Nodes(i) \ S : /\ Cardinality(S) < MaxStreams
                                      /\ Cardinality(S \cup {n}) = Cardinality(S) + 1
<1> DEFINE N == Len(program[i].kind)
<1>1. N \in Nat /\ N <= MaxStreams /\ Nodes(i) = 1..N
  BY GraphFacts DEF Nodes
<1>2. MaxStreams \in Nat
  BY LimitsAssumption
<1>3. IsFiniteSet(Nodes(i)) /\ Cardinality(Nodes(i)) = N
  <2>1. 1 \in Int /\ N \in Int
    BY <1>1
  <2>2. IsFiniteSet(1..N) /\ Cardinality(1..N) = IF 1 > N THEN 0 ELSE (N - 1) + 1
    BY <2>1, FS_Interval
  <2> QED  BY <1>1, <2>2
<1> HIDE DEF N
<1>4. IsFiniteSet(S) /\ Cardinality(S) \in Nat /\ Cardinality(S) <= N
  BY <1>3, FS_Subset, FS_CardinalityType
<1>5. ASSUME NEW n \in Nodes(i) \ S
      PROVE  Cardinality(S) < N /\ Cardinality(S \cup {n}) = Cardinality(S) + 1
  <2>1. Cardinality(S \cup {n}) = Cardinality(S) + 1
    BY <1>4, FS_AddElement
  <2>2. (S \cup {n}) \subseteq Nodes(i)
    BY <1>5
  <2>3. Cardinality(S \cup {n}) <= N
    BY <1>3, <2>2, FS_Subset
  <2> QED  BY <1>1, <1>4, <2>1, <2>3
<1>6. Cardinality(S) <= MaxStreams
  BY <1>1, <1>2, <1>4
<1>7. ASSUME NEW n \in Nodes(i) \ S PROVE Cardinality(S) < MaxStreams
  <2>1. Cardinality(S) < N
    BY <1>5
  <2> QED  BY <1>1, <1>2, <1>4, <2>1
<1> QED  BY <1>4, <1>5, <1>6, <1>7

LEMMA InitInv ==
    ASSUME Init
    PROVE  Base /\ Annotating
<1>1. /\ program \in Programs /\ limit \in Limits /\ phase = "sources" /\ at = 1
      /\ walk = <<>> /\ visited = {} /\ childpath = {} /\ emitted = {} /\ finished = {}
      /\ queue = [s \in Stream |-> <<>>] /\ completed = [s \in Stream |-> 0]
      /\ stream = [i \in Index |-> [n \in Nodes(i) |-> NoStream]]
  BY DEF Init, Index
<1>2. 1 \in Index /\ Len(program) \in Nat /\ Len(program) > 0
  <2>1. program \in Seq(Graph) /\ program # <<>>
    BY <1>1, ProgramsAssumption
  <2> QED  BY <2>1 DEF Index
<1>3. QueuesOK
  BY <1>1 DEF QueuesOK, Queues, Counts
<1>4. \A i \in Index : Blank(i) /\ stream[i] \in [Nodes(i) -> {NoStream} \cup Usable]
  BY <1>1 DEF Blank, HasStream
<1>5. StreamsOK
  BY <1>1, <1>4 DEF StreamsOK
<1>6. Base
  BY <1>1, <1>2, <1>3, <1>5 DEF Base
<1>7. Annotating
  BY <1>1, <1>2, <1>4 DEF Annotating, Index
<1> QED  BY <1>6, <1>7

LEMMA AnnotationBase ==
    ASSUME Base, emitted = {}, program' = program, limit' = limit, UNCHANGED execution,
           at' \in Index, StreamsOK', phase' \in {"sources", "walk", "run", "done"}
    PROVE  Base' /\ emitted' = {} /\ finished' = finished /\ queue' = queue /\ limit' = limit
<1>1. emitted' = emitted /\ queue' = queue /\ completed' = completed /\ finished' = finished
  BY DEF execution
<1>2. QueuesOK'
  BY <1>1, SameGraph DEF Base, QueuesOK
<1> QED  BY <1>1, <1>2, SameGraph DEF Base

LEMMA WalkStep ==
    ASSUME Base, Annotating, phase \in {"sources", "walk"}, phase' = "walk",
           program' = program, limit' = limit, at' = at, UNCHANGED execution, StreamsOK',
           \A i \in Index : i # at => stream'[i] = stream[i],
           Walking', FreshOK'
    PROVE  Base' /\ Annotating'
<1>1. /\ \A i \in 1..(at - 1) : Complete(i)
      /\ \A i \in (at + 1)..Len(program) : Blank(i)
      /\ emitted = {} /\ finished = {} /\ queue = [s \in Stream |-> <<>>]
  BY DEF Annotating
<1>2. at \in Index /\ program \in Programs /\ phase' \in {"sources", "walk", "run", "done"}
  BY DEF Base
<1>3. Base' /\ emitted' = {} /\ finished' = finished /\ queue' = queue
  BY <1>1, <1>2, AnnotationBase
<1>4. \A i \in Index : i # at => (Complete(i) => Complete(i)') /\ (Blank(i) => Blank(i)')
  <2> SUFFICES ASSUME NEW i \in Index, i # at
               PROVE  (Complete(i) => Complete(i)') /\ (Blank(i) => Blank(i)')
    OBVIOUS
  <2>1. \A n : HasStream(i, n)' = HasStream(i, n)
    BY DEF HasStream
  <2> QED  BY <2>1, SameGraph DEF Complete, Blank, Unneeded, Follow, Needed
<1>5. \A i \in 1..(at - 1) : i \in Index /\ i # at
  BY <1>2, GraphFacts DEF Index
<1>6. \A i \in (at + 1)..Len(program) : i \in Index /\ i # at
  BY <1>2, GraphFacts DEF Index
<1> QED  BY <1>1, <1>3, <1>4, <1>5, <1>6 DEF Annotating

LEMMA AnnotateSourcesInv ==
    ASSUME Base, Annotating, AnnotateSources
    PROVE  Base' /\ Annotating'
<1> DEFINE code == {n \in Sources(at) : ~IsData(at, n)}
           Below(n) == {m \in code : m < n}
           F == [n \in Nodes(at) |-> IF n \in code THEN Nth(Cardinality(Below(n))) ELSE NoStream]
<1>1. /\ phase = "sources" /\ phase' = "walk" /\ program' = program /\ limit' = limit /\ at' = at
      /\ walk' = walk /\ visited' = visited /\ childpath' = childpath
      /\ stream' = [stream EXCEPT ![at] = F] /\ fresh' = Nth(Cardinality(code))
      /\ UNCHANGED execution
  BY DEF AnnotateSources
<1>2. /\ walk = <<>> /\ visited = {} /\ childpath = {} /\ Blank(at)
      /\ \A i \in 1..(at - 1) : Complete(i)
      /\ \A i \in (at + 1)..Len(program) : Blank(i)
      /\ emitted = {} /\ finished = {} /\ queue = [s \in Stream |-> <<>>]
  BY <1>1 DEF Annotating
<1>3. at \in Index /\ program \in Programs /\ limit \in Nat /\ Usable \subseteq Stream /\ NoStream \notin Stream
  BY StreamFacts DEF Base
<1>4. code \subseteq Nodes(at) /\ \A n \in code : Below(n) \subseteq Nodes(at) /\ n \in Nodes(at) \ Below(n)
  <2>1. code \subseteq Nodes(at) /\ \A n \in code : Below(n) \subseteq Nodes(at)
    BY DEF Sources
  <2>2. Nodes(at) \subseteq Nat
    BY <1>3, GraphFacts
  <2> QED  BY <2>1, <2>2
<1>5. \A n \in code : Nth(Cardinality(Below(n))) \in Usable
  <2> SUFFICES ASSUME NEW n \in code PROVE Nth(Cardinality(Below(n))) \in Usable
    OBVIOUS
  <2>1. Below(n) \in SUBSET Nodes(at) /\ n \in Nodes(at) \ Below(n)
    BY <1>4
  <2> HIDE DEF Below
  <2>2. Cardinality(Below(n)) \in Nat /\ Cardinality(Below(n)) < MaxStreams
    BY <1>3, <2>1, CountFacts
  <2>3. /\ Nth(Cardinality(Below(n))) \in Nat
        /\ limit > 0 => Nth(Cardinality(Below(n))) < limit
        /\ limit = 0 => Nth(Cardinality(Below(n))) = Cardinality(Below(n))
    BY <2>2, NthFacts
  <2> HIDE DEF code
  <2> QED  BY <1>3, <2>2, <2>3, StreamFacts DEF Usable, Stream
<1>6. F \in [Nodes(at) -> {NoStream} \cup Usable]
  BY <1>5
<1>7. \A n \in Nodes(at) : (F[n] # NoStream <=> n \in code)
  BY <1>3, <1>5
<1> HIDE DEF F
<1>8. /\ stream = [i \in Index |-> stream[i]]
      /\ \A i \in Index : stream[i] \in [Nodes(i) -> {NoStream} \cup Usable]
  BY DEF Base, StreamsOK
<1>9. stream'[at] = F /\ \A i \in Index : i # at => stream'[i] = stream[i]
  BY <1>1, <1>3, <1>8
<1>10. StreamsOK'
  <2>1. stream' = [i \in Index |-> stream'[i]]
    BY <1>1, <1>8
  <2>2. Usable' = Usable /\ Index' = Index /\ \A i : Nodes(i)' = Nodes(i)
    BY <1>1, SameGraph DEF Usable
  <2>3. \A i \in Index : stream'[i] \in [Nodes(i) -> {NoStream} \cup Usable]
    BY <1>6, <1>8, <1>9
  <2> QED  BY <2>1, <2>2, <2>3 DEF StreamsOK
<1>12. \A n \in Nodes(at) : HasStream(at, n)' <=> n \in code
  BY <1>1, <1>7, <1>9 DEF HasStream
<1>14. \A n \in Nodes(at) : n \in code <=> Writers(at, n) = {} /\ ~IsData(at, n)
  BY DEF Sources
<1> HIDE DEF code
<1>15. Walking'
  <2>1. Unneeded(at)' /\ Follow(at)'
    BY <1>1, <1>12, <1>14, SameGraph DEF Unneeded, Follow, Needed
  <2>2. \A n \in Nodes(at) : Needed(at, n)' /\ Writers(at, n)' = {} => HasStream(at, n)'
    BY <1>1, <1>12, <1>14, SameGraph DEF Needed
  <2>3. walk' = <<>> /\ visited' = {} /\ childpath' = {} /\ at' = at /\ Len(<<>>) = 0
    BY <1>1, <1>2
  <2>4. walk' \in Seq(Nodes(at) \X (Nat \ {0}))
    BY <2>3
  <2> QED  BY <1>1, <2>1, <2>2, <2>3, <2>4, SameGraph DEF Walking
<1>16. FreshOK'
  <2>1. code \in SUBSET Nodes(at)
    BY <1>4
  <2>2. Cardinality(code) \in Nat
    BY <1>3, <2>1, CountFacts
  <2>3. {n \in Nodes(at) : HasStream(at, n)'} = code
    BY <1>12, <2>1
  <2>4. {n \in Nodes(at) : HasStream(at, n)}' = code
    BY <1>1, <2>3, SameGraph
  <2>5. /\ fresh' \in Nat
        /\ limit > 0 => fresh' < limit
        /\ limit = 0 => fresh' = Cardinality(code)
    BY <1>1, <2>2, NthFacts
  <2> QED  BY <1>1, <2>2, <2>4, <2>5 DEF FreshOK
<1> QED  BY <1>1, <1>9, <1>10, <1>15, <1>16, WalkStep

LEMMA OutEdgesFacts ==
    ASSUME program \in Programs, NEW i \in Index, NEW n
    PROVE  /\ Len(OutEdges(i, n)) \in Nat
           /\ \A x \in 1..Len(OutEdges(i, n)) : OutEdges(i, n)[x][2] \in Readers(i, n)
           /\ \A m \in Readers(i, n) : \E x \in 1..Len(OutEdges(i, n)) : OutEdges(i, n)[x][2] = m
<1>1. program[i].edges \in Seq(Nat \X Nat)
  BY GraphFacts DEF Graph
<1> DEFINE S == {e \in Edges(i) : e[1] = n}
           o == OutEdges(i, n)
<1>2. o \in Seq(Nat \X Nat) /\ ToSet(o) = Edges(i) \cap S
  BY <1>1, AmongFacts DEF OutEdges, Edges
<1>3. ToSet(o) = {o[x] : x \in 1..Len(o)} /\ Len(o) \in Nat
  BY <1>2 DEF ToSet
<1>4. Readers(i, n) = {e[2] : e \in S}
  BY DEF Readers
<1> HIDE DEF o
<1>5. \A x \in 1..Len(o) : o[x][2] \in Readers(i, n)
  BY <1>2, <1>3, <1>4
<1>6. \A m \in Readers(i, n) : \E x \in 1..Len(o) : o[x][2] = m
  BY <1>2, <1>3, <1>4
<1> QED  BY <1>3, <1>5, <1>6 DEF o

LEMMA StartWalkInv ==
    ASSUME Base, Annotating, NEW n \in Sources(at), StartWalk(n)
    PROVE  Base' /\ Annotating'
<1>1. /\ phase = "walk" /\ phase' = "walk" /\ program' = program /\ limit' = limit /\ at' = at
      /\ walk = <<>> /\ walk' = << <<n, 1>> >> /\ visited' = visited \cup {n}
      /\ stream' = stream /\ childpath' = childpath /\ fresh' = fresh /\ UNCHANGED execution
  BY DEF StartWalk
<1>2. Walking /\ FreshOK /\ n \in Nodes(at) /\ Writers(at, n) = {}
  BY <1>1 DEF Annotating, Sources
<1>3. StreamsOK' /\ \A i \in Index : stream'[i] = stream[i]
  BY <1>1, SameGraph DEF Base, StreamsOK, Usable
<1>4. /\ walk' \in Seq(Nodes(at) \X (Nat \ {0})) /\ Len(walk') = 1
      /\ walk'[1] = <<n, 1>> /\ Len(walk) = 0
  BY <1>1, <1>2
<1>5. \A m \in visited' : Readers(at, m) \subseteq visited' \/ OnStack(m)'
  <2>1. OnStack(n)'
    BY <1>1, <1>4, SameGraph, OutEdgesFacts DEF OnStack, Base
  <2>2. \A m \in visited : Readers(at, m) \subseteq visited
    BY <1>2, <1>4 DEF Walking, OnStack
  <2> QED  BY <1>1, <2>1, <2>2
<1>6. Walking'
  <2>1. \A m : HasStream(at, m)' = HasStream(at, m) /\ Needed(at, m)' = Needed(at, m)
    BY <1>1, SameStreams, SameGraph DEF Needed
  <2>2. Unneeded(at)' /\ Follow(at)'
    BY <1>1, <1>2, SameAnnotation DEF Walking
  <2>3. \A k \in 1..Len(walk') : walk'[k][1] \in visited'
    BY <1>1, <1>4
  <2> QED  BY <1>1, <1>2, <1>4, <1>5, <2>1, <2>2, <2>3, SameGraph DEF Walking
<1>7. FreshOK'
  BY <1>1, <1>2, SameGraph, SameStreams DEF FreshOK
<1> QED  BY <1>1, <1>3, <1>6, <1>7, WalkStep

LEMMA LeaveNodeInv ==
    ASSUME Base, Annotating, LeaveNode
    PROVE  Base' /\ Annotating'
<1>1. /\ phase = "walk" /\ phase' = "walk" /\ program' = program /\ limit' = limit /\ at' = at
      /\ walk # <<>> /\ walk' = Front(walk) /\ visited' = visited
      /\ Top[2] > Len(OutEdges(at, Top[1]))
      /\ stream' = stream /\ childpath' = childpath /\ fresh' = fresh /\ UNCHANGED execution
  BY DEF LeaveNode
<1>2. Walking /\ FreshOK
  BY <1>1 DEF Annotating
<1>3. StreamsOK' /\ \A i \in Index : stream'[i] = stream[i]
  BY <1>1, SameGraph DEF Base, StreamsOK, Usable
<1> DEFINE L == Len(walk)
           T == Nodes(at) \X (Nat \ {0})
<1>4. walk \in Seq(T) /\ L \in Nat /\ L > 0 /\ Top = walk[L] /\ Top \in T
  BY <1>1, <1>2 DEF Walking, Top
<1>5. walk' \in Seq(T) /\ Len(walk') = L - 1 /\ \A k \in 1..(L - 1) : walk'[k] = walk[k]
  <2>1. walk' = [k \in 1..(L - 1) |-> walk[k]]
    BY <1>1, <1>4 DEF Front
  <2>2. L - 1 \in Nat /\ \A k \in 1..(L - 1) : walk[k] \in T
    BY <1>4
  <2> HIDE DEF T, L
  <2> QED  BY <2>1, <2>2
<1> HIDE DEF L
<1>6. ASSUME NEW m \in visited PROVE Readers(at, m) \subseteq visited \/ OnStack(m)'
  <2> SUFFICES ASSUME ~(Readers(at, m) \subseteq visited) PROVE OnStack(m)'
    OBVIOUS
  <2>1. PICK k \in 1..L : /\ walk[k][1] = m
                          /\ \A x \in 1..Len(OutEdges(at, m)) :
                                x < walk[k][2] => OutEdges(at, m)[x][2] \in visited
    BY <1>2 DEF Walking, OnStack, L
  <2>2. k # L
    <3> SUFFICES ASSUME k = L PROVE FALSE
      OBVIOUS
    <3>1. Len(OutEdges(at, m)) \in Nat /\ walk[k][2] > Len(OutEdges(at, m)) /\ walk[k][2] \in Nat
      BY <1>1, <1>4, <2>1, OutEdgesFacts DEF Base
    <3>2. \A x \in 1..Len(OutEdges(at, m)) : OutEdges(at, m)[x][2] \in visited
      BY <2>1, <3>1
    <3> QED  BY <3>2, OutEdgesFacts DEF Base
  <2>3. k \in 1..Len(walk') /\ walk'[k] = walk[k]
    BY <1>4, <1>5, <2>2
  <2> QED  BY <1>1, <2>1, <2>3, SameGraph DEF OnStack
<1>7. Walking'
  <2>1. \A m : HasStream(at, m)' = HasStream(at, m) /\ Needed(at, m)' = Needed(at, m)
    BY <1>1, SameStreams, SameGraph DEF Needed
  <2>2. Unneeded(at)' /\ Follow(at)'
    BY <1>1, <1>2, SameAnnotation DEF Walking
  <2>3. \A k \in 1..Len(walk') : walk'[k][1] \in visited'
    <3>1. \A k \in 1..(L - 1) : k \in 1..L
      BY <1>4
    <3>2. \A k \in 1..L : walk[k][1] \in visited
      BY <1>2 DEF Walking, L
    <3> QED  BY <1>1, <1>5, <3>1, <3>2
  <2> QED  BY <1>1, <1>2, <1>5, <1>6, <2>1, <2>2, <2>3, SameGraph DEF Walking
<1>8. FreshOK'
  <2>1. \A m : HasStream(at, m)' = HasStream(at, m)
    BY <1>1, SameStreams
  <2>2. {m \in Nodes(at) : HasStream(at, m)}' = {m \in Nodes(at) : HasStream(at, m)}
    BY <1>1, <2>1, SameGraph
  <2> QED  BY <1>1, <1>2, <2>2 DEF FreshOK
<1> QED  BY <1>1, <1>3, <1>7, <1>8, WalkStep

LEMMA WalkEdgeInv ==
    ASSUME Base, Annotating, WalkEdge
    PROVE  Base' /\ Annotating'
<1> DEFINE a == Top[1]
           b == OutEdges(at, Top[1])[Top[2]][2]
           rest == Append(Front(walk), <<Top[1], Top[2] + 1>>)
           inherits == Annotated(a) /\ a \notin childpath
           c == IF inherits THEN stream[at][a] ELSE fresh
           T == Nodes(at) \X (Nat \ {0})
           L == Len(walk)
<1>1. /\ phase = "walk" /\ phase' = "walk" /\ program' = program /\ limit' = limit /\ at' = at
      /\ walk # <<>> /\ Top[2] <= Len(OutEdges(at, a))
      /\ walk' = IF b \in visited THEN rest ELSE Append(rest, <<b, 1>>)
      /\ visited' = visited \cup {b} /\ Annotate(a, b) /\ UNCHANGED execution
  <2>1. WalkEdge => UNCHANGED <<program, limit, phase, at, execution>>
    BY DEF WalkEdge
  <2> QED  BY <2>1 DEF WalkEdge
<1>2. Walking /\ FreshOK /\ at \in Index /\ program \in Programs
  BY <1>1 DEF Annotating, Base
<1>3. walk \in Seq(T) /\ L \in Nat /\ L > 0 /\ Top = walk[L] /\ Top \in T
  BY <1>1, <1>2 DEF Walking, Top
<1>4. a \in Nodes(at) /\ Top[2] \in 1..Len(OutEdges(at, a))
  BY <1>1, <1>2, <1>3, OutEdgesFacts
<1>5. b \in Readers(at, a)
  BY <1>2, <1>4, OutEdgesFacts
<1>6. b \in Nodes(at) /\ a \in Writers(at, b) /\ a \in visited /\ a # b
  <2>1. \A m \in Readers(at, a) : a < m /\ a \in Writers(at, m)
    BY <1>2, <1>4, NodeFacts
  <2>2. Readers(at, a) \subseteq Nodes(at) /\ Nodes(at) \subseteq Nat
    BY <1>2, <1>4, NodeFacts, GraphFacts
  <2>3. a \in visited
    BY <1>2, <1>3 DEF Walking
  <2> QED  BY <1>4, <1>5, <2>1, <2>2, <2>3
(* The stack. *)
<1>7. /\ walk' \in Seq(T) /\ Len(walk') \in Nat /\ L <= Len(walk')
      /\ \A k \in 1..(L - 1) : walk'[k] = walk[k]
      /\ walk'[L] = <<a, Top[2] + 1>>
      /\ b \notin visited => Len(walk') = L + 1 /\ walk'[L + 1] = <<b, 1>>
      /\ b \in visited => Len(walk') = L
  <2>1. Front(walk) \in Seq(T) /\ Len(Front(walk)) = L - 1 /\ \A k \in 1..(L - 1) : Front(walk)[k] = walk[k]
    <3>1. Front(walk) = [k \in 1..(L - 1) |-> walk[k]]
      BY <1>3 DEF Front
    <3>2. L - 1 \in Nat /\ \A k \in 1..(L - 1) : walk[k] \in T
      BY <1>3
    <3> HIDE DEF T, L
    <3> QED  BY <3>1, <3>2
  <2>2. <<a, Top[2] + 1>> \in T /\ <<b, 1>> \in T
    BY <1>3, <1>4, <1>6
  <2> HIDE DEF T, a, b, L
  <2>3. /\ rest \in Seq(T) /\ Len(rest) = L /\ rest[L] = <<a, Top[2] + 1>>
        /\ \A k \in 1..(L - 1) : rest[k] = walk[k]
    BY <1>3, <2>1, <2>2 DEF a
  <2> HIDE DEF rest
  <2>4. CASE b \in visited
    BY <1>1, <1>3, <2>3, <2>4
  <2>5. CASE b \notin visited
    <3>1. walk' = Append(rest, <<b, 1>>)
      BY <1>1, <2>5
    <3>2. /\ walk' \in Seq(T) /\ Len(walk') = L + 1 /\ walk'[L + 1] = <<b, 1>>
          /\ \A k \in 1..L : walk'[k] = rest[k]
      BY <1>3, <2>2, <2>3, <3>1
    <3> QED  BY <1>3, <2>3, <2>5, <3>2
  <2> QED  BY <2>4, <2>5
<1> HIDE DEF rest
<1>8. \A k \in 1..Len(walk') : walk'[k][1] \in visited'
  <2>1. \A k \in 1..(L - 1) : k \in 1..L
    BY <1>3
  <2>2. \A k \in 1..L : walk[k][1] \in visited
    BY <1>2 DEF Walking
  <2>3. walk'[L][1] = a /\ (b \notin visited => walk'[L + 1][1] = b)
    BY <1>7
  <2> HIDE DEF a, b, L, T
  <2>4. ASSUME NEW k \in 1..Len(walk') PROVE walk'[k][1] \in visited'
    <3>1. CASE k \in 1..(L - 1)
      BY <1>1, <1>7, <2>1, <2>2, <3>1
    <3>2. CASE k = L
      BY <1>1, <1>6, <2>3, <3>2
    <3>3. CASE k \notin 1..(L - 1) /\ k # L
      <4>1. k = L + 1 /\ b \notin visited
        BY <1>3, <1>7, <3>3
      <4> QED  BY <1>1, <2>3, <4>1
    <3> QED  BY <3>1, <3>2, <3>3
  <2> QED  BY <2>4
<1>9. ASSUME NEW m \in visited' PROVE Readers(at, m) \subseteq visited' \/ OnStack(m)'
  <2> SUFFICES ASSUME ~(Readers(at, m) \subseteq visited') PROVE OnStack(m)'
    OBVIOUS
  <2>1. OnStack(m)' <=> \E k \in 1..Len(walk') :
            /\ walk'[k][1] = m
            /\ \A x \in 1..Len(OutEdges(at, m)) : x < walk'[k][2] => OutEdges(at, m)[x][2] \in visited'
    BY <1>1, SameGraph DEF OnStack
  <2>2. CASE m \in visited
    <3>1. PICK k \in 1..L : /\ walk[k][1] = m
                            /\ \A x \in 1..Len(OutEdges(at, m)) :
                                  x < walk[k][2] => OutEdges(at, m)[x][2] \in visited
      BY <1>1, <1>2, <2>2 DEF Walking, OnStack
    <3>2. CASE k # L
      <4>1. k \in 1..(L - 1) /\ k \in 1..Len(walk')
        BY <1>3, <1>7, <3>2
      <4>2. walk'[k] = walk[k]
        BY <1>7, <4>1
      <4> QED  BY <1>1, <2>1, <3>1, <4>1, <4>2
    <3>3. CASE k = L
      <4>1. m = a /\ walk'[L][1] = a /\ walk'[L][2] = Top[2] + 1 /\ L \in 1..Len(walk')
        BY <1>3, <1>7, <3>1, <3>3
      <4>2. ASSUME NEW x \in 1..Len(OutEdges(at, m)), x < Top[2] + 1
            PROVE  OutEdges(at, m)[x][2] \in visited'
        <5>1. CASE x = Top[2]
          BY <1>1, <4>1, <5>1
        <5>2. CASE x # Top[2]
          <6>1. x < walk[k][2]
            <7>1. x \in Nat /\ Top[2] \in Nat /\ walk[k][2] = Top[2]
              BY <1>3, <1>4, <3>3
            <7> HIDE DEF L, T
            <7> QED  BY <4>2, <5>2, <7>1
          <6> QED  BY <1>1, <3>1, <6>1
        <5> QED  BY <5>1, <5>2
      <4> QED  BY <2>1, <4>1, <4>2
    <3> QED  BY <3>2, <3>3
  <2>3. CASE m \notin visited
    <3>1. m = b /\ Len(walk') = L + 1 /\ walk'[L + 1] = <<b, 1>>
      BY <1>1, <1>7, <2>3
    <3>2. L + 1 \in 1..Len(walk') /\ walk'[L + 1][1] = m /\ walk'[L + 1][2] = 1
      BY <1>3, <3>1
    <3>3. \A x \in 1..Len(OutEdges(at, m)) : ~(x < walk'[L + 1][2])
      BY <3>2
    <3> QED  BY <2>1, <3>2, <3>3
  <2> QED  BY <2>2, <2>3
(* The streams. *)
<1>10. /\ limit \in Nat /\ MaxStreams \in Nat /\ NoStream \notin Stream
       /\ Usable \subseteq Stream
       /\ \A n \in Nodes(at) : /\ HasStream(at, n) => stream[at][n] \in Usable
                               /\ ~HasStream(at, n) => stream[at][n] = NoStream
  BY <1>2, StreamFacts
<1>11. Annotated(a) <=> HasStream(at, a)
  BY DEF Annotated, HasStream
<1>12. Annotated(b) <=> HasStream(at, b)
  BY DEF Annotated, HasStream
<1>13. Needed(at, b) /\ (KindOf(at, a) = Kernel => HasStream(at, a) /\ inherits)
  <2>1. KindOf(at, a) = Kernel => Needed(at, a)
    BY DEF Needed, IsData, Kernel, GPUData, HostData
  <2>2. KindOf(at, a) = Kernel => HasStream(at, a)
    BY <1>2, <1>6, <2>1 DEF Walking
  <2>3. KindOf(at, a) = Kernel => a \notin childpath
    BY <1>2 DEF Walking
  <2> QED  BY <1>6, <1>11, <2>2, <2>3 DEF Needed
<1> DEFINE Given == {n \in Nodes(at) : HasStream(at, n)}
<1>14. CASE HasStream(at, b)
  <2>1. stream' = stream /\ childpath' = childpath /\ fresh' = fresh
    BY <1>12, <1>14, <1>1 DEF Annotate
  <2>2. StreamsOK' /\ \A i \in Index : stream'[i] = stream[i]
    BY <1>1, <2>1, SameGraph DEF Base, StreamsOK, Usable
  <2>3. \A m : HasStream(at, m)' = HasStream(at, m) /\ Needed(at, m)' = Needed(at, m)
    BY <1>1, <2>1, SameStreams, SameGraph DEF Needed
  <2>4. Walking'
    <3>1. Unneeded(at)' /\ Follow(at)'
      BY <1>1, <1>2, <2>1, SameAnnotation DEF Walking
    <3>2. visited' \subseteq Nodes(at)' /\ Nodes(at)' = Nodes(at)
      BY <1>1, <1>2, <1>6, SameGraph DEF Walking
    <3>3. walk' \in Seq(Nodes(at)' \X (Nat \ {0}))
      BY <1>7, <3>2
    <3>4. \A n \in Nodes(at) : Needed(at, n)' /\ (n \in visited' \/ Writers(at, n)' = {}) => HasStream(at, n)'
      <4>1. \A n : Writers(at, n)' = Writers(at, n)
        BY <1>1, SameGraph
      <4>2. \A n \in Nodes(at) : Needed(at, n) /\ (n \in visited \/ Writers(at, n) = {}) => HasStream(at, n)
        BY <1>2 DEF Walking
      <4> HIDE DEF a, b
      <4> QED  BY <1>1, <1>14, <2>3, <4>1, <4>2
    <3>5. childpath' \subseteq Nodes(at)' /\ \A n \in childpath' : KindOf(at, n)' # Kernel
      BY <1>1, <1>2, <2>1, SameGraph DEF Walking
    <3>6. \A m \in visited' : Readers(at, m)' \subseteq visited' \/ OnStack(m)'
      BY <1>1, <1>9, SameGraph
    <3> HIDE DEF a, b, T, L
    <3> QED  BY <1>1, <1>8, <3>1, <3>2, <3>3, <3>4, <3>5, <3>6 DEF Walking
  <2>5. FreshOK'
    <3>1. Given' = Given
      BY <1>1, <2>3, SameGraph
    <3> QED  BY <1>1, <1>2, <2>1, <3>1 DEF FreshOK
  <2> QED  BY <1>1, <2>2, <2>4, <2>5, WalkStep
<1>15. CASE ~HasStream(at, b)
  <2>1. /\ stream' = [stream EXCEPT ![at][b] = c]
        /\ fresh' = IF inherits THEN fresh ELSE increment(fresh)
        /\ childpath' = IF Annotated(a) /\ KindOf(at, a) # Kernel THEN childpath \cup {a} ELSE childpath
    BY <1>12, <1>15, <1>1 DEF Annotate
  <2>2. Given \in SUBSET Nodes(at) /\ b \in Nodes(at) \ Given
    BY <1>6, <1>15
  <2>3. /\ Cardinality(Given) \in Nat /\ Cardinality(Given) < MaxStreams
        /\ Cardinality(Given \cup {b}) = Cardinality(Given) + 1
    <3> HIDE DEF Given, b
    <3> QED  BY <1>2, <2>2, CountFacts
  <2>4. fresh \in Usable
    <3>1. /\ fresh \in Nat /\ (limit > 0 => fresh < limit)
          /\ (limit = 0 => fresh <= Cardinality(Given))
      BY <1>2 DEF FreshOK
    <3> HIDE DEF Given
    <3> QED  BY <1>10, <2>3, <3>1 DEF Usable, Stream
  <2>5. c \in Usable /\ c # NoStream
    BY <1>4, <1>10, <1>11, <2>4
  <2>6. /\ stream = [i \in Index |-> stream[i]]
        /\ \A i \in Index : stream[i] \in [Nodes(i) -> {NoStream} \cup Usable]
    BY DEF Base, StreamsOK
  <2> HIDE DEF c, T, L
  <2>7. /\ stream' = [i \in Index |-> stream'[i]]
        /\ \A i \in Index : i # at => stream'[i] = stream[i]
        /\ stream'[at] = [stream[at] EXCEPT ![b] = c]
    <3> HIDE DEF a, b
    <3> QED  BY <1>2, <2>1, <2>6
  <2>8. /\ stream'[at] \in [Nodes(at) -> {NoStream} \cup Usable]
        /\ stream'[at][b] = c /\ \A n \in Nodes(at) : n # b => stream'[at][n] = stream[at][n]
    <3> HIDE DEF a, b
    <3> QED  BY <1>2, <1>6, <2>5, <2>6, <2>7
  <2>9. StreamsOK'
    <3>1. Usable' = Usable /\ Index' = Index /\ \A i : Nodes(i)' = Nodes(i)
      BY <1>1, SameGraph DEF Usable
    <3>2. \A i \in Index : stream'[i] \in [Nodes(i) -> {NoStream} \cup Usable]
      BY <2>6, <2>7, <2>8
    <3> QED  BY <2>7, <3>1, <3>2 DEF StreamsOK
  <2>10. \A n \in Nodes(at) : HasStream(at, n)' <=> HasStream(at, n) \/ n = b
    <3>1. \A n : HasStream(at, n)' <=> stream'[at][n] # NoStream
      BY <1>1 DEF HasStream
    <3> HIDE DEF a, b
    <3> QED  BY <2>5, <2>8, <3>1 DEF HasStream
  <2>11. /\ \A n : Needed(at, n)' = Needed(at, n) /\ Writers(at, n)' = Writers(at, n)
                   /\ KindOf(at, n)' = KindOf(at, n) /\ Readers(at, n)' = Readers(at, n)
         /\ Nodes(at)' = Nodes(at)
    BY <1>1, SameGraph DEF Needed
  <2>12. Unneeded(at)'
    <3>1. Unneeded(at)
      BY <1>2 DEF Walking
    <3> HIDE DEF a, b
    <3> QED  BY <1>1, <1>13, <2>10, <2>11, <3>1 DEF Unneeded
  <2>13. Follow(at)'
    <3> SUFFICES ASSUME NEW d \in Nodes(at), NEW m \in Nodes(at),
                        HasStream(at, d)', Writers(at, d) = {m}, KindOf(at, m) = Kernel
                 PROVE  stream'[at][d] = stream'[at][m]
      BY <1>1, <2>11 DEF Follow
    <3>1. Follow(at)
      BY <1>2 DEF Walking
    <3>2. CASE d = b
      <4>1. m = a
        BY <1>6, <3>2
      <4>2. c = stream[at][a]
        BY <1>13, <4>1 DEF c
      <4> HIDE DEF a, b
      <4> QED  BY <1>6, <2>8, <3>2, <4>1, <4>2
    <3>3. CASE d # b
      <4> HIDE DEF a, b
      <4>1. HasStream(at, d) /\ stream[at][d] = stream[at][m]
        BY <2>10, <3>1, <3>3 DEF Follow
      <4>2. m # b
        BY <1>15, <4>1 DEF HasStream
      <4> QED  BY <2>8, <3>3, <4>1, <4>2
    <3> QED  BY <3>2, <3>3
  <2>14. Walking'
    <3>1. visited' \subseteq Nodes(at)
      BY <1>1, <1>2, <1>6 DEF Walking
    <3>2. walk' \in Seq(Nodes(at) \X (Nat \ {0}))
      BY <1>7 DEF T
    <3>3. \A n \in Nodes(at) : Needed(at, n) /\ (n \in visited' \/ Writers(at, n) = {}) => HasStream(at, n)'
      <4>1. \A n \in Nodes(at) : Needed(at, n) /\ (n \in visited \/ Writers(at, n) = {}) => HasStream(at, n)
        BY <1>2 DEF Walking
      <4> HIDE DEF a, b
      <4> QED  BY <1>1, <2>10, <4>1
    <3>4. childpath' \subseteq Nodes(at) /\ \A n \in childpath' : KindOf(at, n) # Kernel
      <4>1. childpath \subseteq Nodes(at) /\ \A n \in childpath : KindOf(at, n) # Kernel
        BY <1>2 DEF Walking
      <4> HIDE DEF a, b
      <4> QED  BY <1>4, <2>1, <4>1
    <3>5. \A m \in visited' : Readers(at, m)' \subseteq visited' \/ OnStack(m)'
      BY <1>9, <2>11
    <3> HIDE DEF a, b
    <3> QED  BY <1>1, <1>8, <2>11, <2>12, <2>13, <3>1, <3>2, <3>3, <3>4, <3>5 DEF Walking
  <2>15. FreshOK'
    <3>1. Given' = Given \cup {b}
      <4>1. {n \in Nodes(at) : HasStream(at, n)}' = {n \in Nodes(at) : HasStream(at, n)'}
        BY <1>1, <2>11
      <4>2. b \in Nodes(at)
        BY <1>6
      <4> HIDE DEF b
      <4> QED  BY <2>10, <4>1, <4>2
    <3>2. /\ fresh \in Nat /\ (limit > 0 => fresh < limit)
          /\ (limit = 0 => fresh <= Cardinality(Given))
      BY <1>2 DEF FreshOK
    <3>3. /\ increment(fresh) \in Nat /\ (limit > 0 => increment(fresh) < limit)
          /\ (limit = 0 => increment(fresh) = fresh + 1)
      BY <3>2, NthFacts
    <3>4. Cardinality(Given') = Cardinality(Given) + 1
      BY <2>3, <3>1
    <3>5. /\ fresh' \in Nat /\ (limit > 0 => fresh' < limit)
          /\ (limit = 0 => fresh' <= Cardinality(Given'))
      <4> HIDE DEF Given, a, b
      <4> QED  BY <2>1, <2>3, <3>2, <3>3, <3>4
    <3> QED  BY <1>1, <3>5 DEF FreshOK
  <2> QED  BY <1>1, <2>7, <2>9, <2>14, <2>15, WalkStep
<1> QED  BY <1>14, <1>15

(***************************************************************************)
(* The walk visits all nodes: the least one that it had not visited would  *)
(* have a writer that was.                                                 *)
(***************************************************************************)
LEMMA WalkIsComplete ==
    ASSUME Base, Annotating, phase = "walk", walk = <<>>, Sources(at) \subseteq visited
    PROVE  Complete(at)
<1>1. Walking /\ at \in Index /\ program \in Programs
  BY DEF Annotating, Base
<1>2. \A n \in visited : Readers(at, n) \subseteq visited
  <2>1. Len(walk) = 0
    OBVIOUS
  <2>2. \A k : k \notin 1..Len(walk)
    BY <2>1
  <2> QED  BY <1>1, <2>2 DEF Walking, OnStack
<1> DEFINE Left == Nodes(at) \ visited
<1>3. Left = {}
  <2> SUFFICES ASSUME Left # {} PROVE FALSE
    OBVIOUS
  <2>1. Nodes(at) \subseteq Nat
    BY <1>1, GraphFacts
  <2>2. PICK n \in Left : \A m \in Left : <<m, n>> \notin Less
    <3>1. Left \subseteq Nat
      BY <2>1
    <3> HIDE DEF Left
    <3> QED  BY <3>1, LessWellFounded, WFMin
  <2>3. n \in Nodes(at) /\ Writers(at, n) # {}
    BY DEF Sources
  <2>4. PICK m \in Writers(at, n) : TRUE
    BY <2>3
  <2>5. m < n /\ m \in Nodes(at) /\ n \in Readers(at, m)
    BY <1>1, <2>3, <2>4, NodeFacts
  <2>6. m \notin Left
    BY <2>1, <2>2, <2>3, <2>5 DEF Less
  <2> QED  BY <1>2, <2>5, <2>6
<1>4. \A n \in Nodes(at) : Needed(at, n) => HasStream(at, n)
  BY <1>1, <1>3 DEF Walking
<1> QED  BY <1>1, <1>4 DEF Complete, Walking

LEMMA NextStateInv ==
    ASSUME Base, Annotating, NextState
    PROVE  Base' /\ Annotating'
<1>1. /\ phase = "walk" /\ phase' = "sources" /\ program' = program /\ limit' = limit
      /\ walk = <<>> /\ Sources(at) \subseteq visited
      /\ at < Len(program) /\ at' = at + 1 /\ walk' = walk /\ visited' = {} /\ childpath' = {}
      /\ stream' = stream /\ UNCHANGED execution
  BY DEF NextState, WalkOver
<1>2. /\ \A i \in 1..(at - 1) : Complete(i)
      /\ \A i \in (at + 1)..Len(program) : Blank(i)
      /\ emitted = {} /\ finished = {} /\ queue = [s \in Stream |-> <<>>]
  BY <1>1 DEF Annotating
<1>3. at \in Index /\ program \in Programs
  BY DEF Base
<1>4. Len(program) \in Nat /\ at \in 1..Len(program)
  BY <1>3, GraphFacts DEF Index
<1>5. Complete(at)
  BY <1>1, WalkIsComplete
<1>6. StreamsOK'
  BY <1>1, SameGraph DEF Base, StreamsOK, Usable
<1>7. at' \in Index /\ phase' \in {"sources", "walk", "run", "done"}
  BY <1>1, <1>4 DEF Index
<1>8. Base' /\ emitted' = {} /\ finished' = {} /\ queue' = queue
  BY <1>1, <1>2, <1>6, <1>7, AnnotationBase
<1>9. \A i \in 1..(at' - 1) : Complete(i)'
  <2>1. \A i \in 1..(at' - 1) : i \in 1..(at - 1) \/ i = at
    BY <1>1, <1>4
  <2> QED  BY <1>1, <1>2, <1>5, <2>1, SameAnnotation
<1>10. \A i \in at'..Len(program) : Blank(i)'
  <2>1. \A i \in at'..Len(program) : i \in (at + 1)..Len(program)
    BY <1>1
  <2> QED  BY <1>1, <1>2, <2>1, SameAnnotation
<1>11. Blank(at)' /\ \A i \in (at' + 1)..Len(program) : i \in at'..Len(program)
  <2>1. at' \in at'..Len(program)
    BY <1>1, <1>4
  <2>2. Blank(at)'
    <3>1. PICK j : j = at'
      OBVIOUS
    <3>2. Blank(j)'
      BY <1>10, <2>1, <3>1
    <3> QED  BY <3>1, <3>2 DEF Blank, Nodes, HasStream
  <2>3. \A i \in (at' + 1)..Len(program) : i \in at'..Len(program)
    BY <1>1, <1>4
  <2> QED  BY <2>2, <2>3
<1> QED  BY <1>1, <1>2, <1>8, <1>9, <1>10, <1>11 DEF Annotating

LEMMA RemoveStreamsInv ==
    ASSUME Base, Annotating, RemoveStreams
    PROVE  Base' /\ Annotating'
<1>1. /\ phase = "walk" /\ phase' = "run" /\ program' = program /\ limit' = limit
      /\ walk = <<>> /\ Sources(at) \subseteq visited
      /\ at = Len(program) /\ at' = 1 /\ walk' = walk /\ visited' = {} /\ childpath' = {}
      /\ stream' = [i \in Index |->
                       [n \in Nodes(i) |-> IF KeepsStream(i, n) THEN stream[i][n] ELSE NoStream]]
      /\ UNCHANGED execution
  BY DEF RemoveStreams, WalkOver, Index
<1>2. /\ \A i \in 1..(at - 1) : Complete(i)
      /\ emitted = {} /\ finished = {} /\ queue = [s \in Stream |-> <<>>]
  BY <1>1 DEF Annotating
<1>3. at \in Index /\ program \in Programs
  BY DEF Base
<1>4. Len(program) \in Nat /\ at \in 1..Len(program)
  BY <1>3, GraphFacts DEF Index
<1>5. \A i \in Index : Complete(i)
  <2>1. \A i \in Index : i \in 1..(at - 1) \/ i = at
    BY <1>1, <1>4 DEF Index
  <2> QED  BY <1>1, <1>2, <2>1, WalkIsComplete
<1>6. /\ Index' = Index /\ \A i : Nodes(i)' = Nodes(i)
      /\ Usable' = Usable
  BY <1>1, SameGraph DEF Usable
<1>7. \A i \in Index : stream[i] \in [Nodes(i) -> {NoStream} \cup Usable]
  BY DEF Base, StreamsOK
<1>8. \A i \in Index : \A n \in Nodes(i) :
          stream'[i][n] = IF KeepsStream(i, n) THEN stream[i][n] ELSE NoStream
  BY <1>1
<1>9. \A i \in Index : stream'[i] \in [Nodes(i) -> {NoStream} \cup Usable]
  <2> SUFFICES ASSUME NEW i \in Index
               PROVE  stream'[i] \in [Nodes(i) -> {NoStream} \cup Usable]
    OBVIOUS
  <2>1. stream'[i] = [n \in Nodes(i) |-> IF KeepsStream(i, n) THEN stream[i][n] ELSE NoStream]
    BY <1>1
  <2> QED  BY <1>7, <2>1
<1>10. StreamsOK'
  <2>1. stream' = [i \in Index |-> stream'[i]]
    BY <1>1
  <2> QED  BY <1>6, <1>9, <2>1 DEF StreamsOK
<1>11. at' \in Index /\ phase' \in {"sources", "walk", "run", "done"}
  BY <1>1, <1>4 DEF Index
<1>12. Base' /\ emitted' = {} /\ finished' = {} /\ queue' = queue
  BY <1>1, <1>2, <1>10, <1>11, AnnotationBase
<1>13. ASSUME NEW i \in Index PROVE Final(i)'
  <2>1. \A n \in Nodes(i) : HasStream(i, n)' <=> HasStream(i, n) /\ KeepsStream(i, n)
    BY <1>1, <1>8 DEF HasStream
  <2>2. \A n : /\ Needed(i, n)' = Needed(i, n) /\ KeepsStream(i, n)' = KeepsStream(i, n)
               /\ KindOf(i, n)' = KindOf(i, n) /\ Writers(i, n)' = Writers(i, n)
    BY <1>1, SameGraph DEF Needed
  <2>3. Complete(i)
    BY <1>5
  <2>4. \A n \in Nodes(i) : Needed(i, n)' /\ KeepsStream(i, n)' => HasStream(i, n)'
    BY <2>1, <2>2, <2>3 DEF Complete
  <2>5. ASSUME NEW n \in Nodes(i), KindOf(i, n) = HostCode PROVE ~HasStream(i, n)'
    <3>1. \A m \in Readers(i, n) \cup Writers(i, n) : KindOf(i, m) = HostData
      BY <1>3, <2>5, NodeFacts
    <3>2. ~KeepsStream(i, n)
      BY <2>5, <3>1 DEF KeepsStream, OnGPU, HostCode, HostData, Kernel, GPUData
    <3> QED  BY <2>1, <3>2
  <2>6. Unneeded(i)'
    BY <1>6, <2>1, <2>2, <2>3 DEF Unneeded, Complete
  <2>7. Follow(i)'
    <3> SUFFICES ASSUME NEW d \in Nodes(i), NEW m \in Nodes(i),
                        HasStream(i, d)', Writers(i, d) = {m}, KindOf(i, m) = Kernel
                 PROVE  stream'[i][d] = stream'[i][m]
      BY <1>6, <2>2 DEF Follow
    <3>1. HasStream(i, d) /\ KeepsStream(i, d) /\ stream[i][d] = stream[i][m]
      BY <2>1, <2>3 DEF Complete, Follow
    <3>2. KeepsStream(i, m)
      BY DEF KeepsStream, OnGPU
    <3> QED  BY <1>8, <3>1, <3>2
  <2> QED  BY <1>6, <2>2, <2>4, <2>5, <2>6, <2>7 DEF Final
<1> QED  BY <1>1, <1>2, <1>6, <1>12, <1>13 DEF Annotating

(***************************************************************************)
(* The work of a state.                                                    *)
(***************************************************************************)
GPUWork(i) == AllWork(i) \ HostWork(i)

LEMMA CodeWorkFacts ==
    ASSUME Base, NEW i \in Index, Final(i), NEW n \in Nodes(i), ~IsData(i, n)
    PROVE  /\ <<i, n, n>> \in AllWork(i)
           /\ KindOf(i, n) = HostCode => <<i, n, n>> \in HostWork(i)
           /\ KindOf(i, n) = Kernel =>
                  /\ <<i, n, n>> \in GPUWork(i)
                  /\ HasStream(i, n) /\ WorkStream(<<i, n, n>>) = stream[i][n]
           /\ KindOf(i, n) \in {Kernel, HostCode}
<1>1. KindOf(i, n) \in {Kernel, HostCode} /\ program \in Programs
  BY GraphFacts DEF Base, IsData, Kind
<1>2. <<i, n, n>> \in AllWork(i)
  BY DEF AllWork, CodeWork
<1>3. <<i, n, n>> \in HostWork(i) <=> KindOf(i, n) = HostCode
  BY <1>1, <1>2 DEF HostWork, OnHost, HostData, HostCode, Kernel
<1>4. KindOf(i, n) = Kernel => HasStream(i, n)
  BY DEF Final, Needed, KeepsStream, OnGPU
<1>5. WorkStream(<<i, n, n>>) = stream[i][n]
  BY DEF WorkStream
<1> QED  BY <1>1, <1>2, <1>3, <1>4, <1>5 DEF GPUWork, Kernel, HostCode

LEMMA CopyWorkFacts ==
    ASSUME Base, NEW i \in Index, Final(i), NEW a \in Nodes(i), NEW b \in Readers(i, a),
           IsData(i, a), IsData(i, b)
    PROVE  /\ <<i, a, b>> \in AllWork(i) /\ a # b
           /\ OnHost(i, <<a, b>>) => <<i, a, b>> \in HostWork(i)
           /\ ~OnHost(i, <<a, b>>) =>
                  /\ <<i, a, b>> \in GPUWork(i) /\ WorkStream(<<i, a, b>>) = CopyStream(i, a, b)
                  /\ HasStream(i, b)
                  /\ HasStream(i, a) <=> Writers(i, a) # {}
<1>1. /\ a < b /\ <<a, b>> \in Edges(i) /\ a \in Writers(i, b) /\ b \in Nodes(i)
      /\ Nodes(i) \subseteq Nat
  BY NodeFacts, GraphFacts DEF Base
<1>2. a # b
  BY <1>1
<1>3. <<i, a, b>> \in AllWork(i)
  BY <1>1 DEF AllWork, CopyWork
<1>4. <<i, a, b>> \in HostWork(i) <=> OnHost(i, <<a, b>>)
  BY <1>3 DEF HostWork, OnHost, IsData, HostCode, HostData, GPUData
<1>5. WorkStream(<<i, a, b>>) = CopyStream(i, a, b)
  BY <1>2 DEF WorkStream
<1>6. ASSUME ~OnHost(i, <<a, b>>)
      PROVE  HasStream(i, b) /\ (HasStream(i, a) <=> Writers(i, a) # {})
  <2>1. OnGPU(i, a) \/ OnGPU(i, b)
    BY <1>6 DEF OnHost, OnGPU, IsData
  <2>2. KeepsStream(i, a) /\ KeepsStream(i, b)
    BY <1>1, <2>1 DEF KeepsStream
  <2>3. HasStream(i, b)
    BY <1>1, <2>2 DEF Final, Needed
  <2>4. Writers(i, a) # {} => HasStream(i, a)
    BY <2>2 DEF Final, Needed
  <2>5. Writers(i, a) = {} => ~HasStream(i, a)
    BY DEF Final, Unneeded, Needed
  <2> QED  BY <2>3, <2>4, <2>5
<1> QED  BY <1>2, <1>3, <1>4, <1>5, <1>6 DEF GPUWork

LEMMA WorkFacts ==
    ASSUME Base, NEW i \in Index, NEW w \in AllWork(i)
    PROVE  /\ w = <<i, w[2], w[3]>> /\ w[2] \in Nodes(i)
           /\ \/ w[3] = w[2] /\ ~IsData(i, w[2])
              \/ w[3] \in Readers(i, w[2]) /\ IsData(i, w[2]) /\ IsData(i, w[3])
           /\ w \in AllWorks
<1>1. w \in AllWorks
  BY DEF AllWorks
<1>2. CASE w \in CodeWork(i)
  BY <1>1, <1>2 DEF CodeWork
<1>3. CASE w \in CopyWork(i)
  <2>1. PICK e \in Edges(i) : w = <<i, e[1], e[2]>> /\ IsData(i, e[1]) /\ IsData(i, e[2])
    BY <1>3 DEF CopyWork
  <2>2. e[1] \in Nodes(i) /\ e[2] \in Readers(i, e[1])
    BY GraphFacts DEF Base, Readers
  <2> QED  BY <1>1, <2>1, <2>2
<1> QED  BY <1>2, <1>3 DEF AllWork

(* What m writes to d. *)
Output(i, m, d) == <<i, m, IF IsData(i, m) THEN d ELSE m>>

LEMMA OutputFacts ==
    ASSUME Base, NEW i \in Index, Final(i), NEW d \in Nodes(i), IsData(i, d)
    PROVE  /\ Writes(i, d) = {Output(i, m, d) : m \in Writers(i, d)}
           /\ \A m \in Writers(i, d) :
                 /\ Output(i, m, d) \in AllWork(i)
                 /\ Output(i, m, d) \in GPUWork(i) => HasStream(i, d)
                 /\ ~OnGPU(i, m) /\ ~OnGPU(i, d) => Output(i, m, d) \in HostWork(i)
<1>1. Writes(i, d) = {Output(i, m, d) : m \in Writers(i, d)}
  BY DEF Writes, Output
<1> SUFFICES ASSUME NEW m \in Writers(i, d)
             PROVE  /\ Output(i, m, d) \in AllWork(i)
                    /\ Output(i, m, d) \in GPUWork(i) => HasStream(i, d)
                    /\ ~OnGPU(i, m) /\ ~OnGPU(i, d) => Output(i, m, d) \in HostWork(i)
  BY <1>1
<1>2. m \in Nodes(i) /\ d \in Readers(i, m)
  BY NodeFacts DEF Base
<1>3. CASE IsData(i, m)
  <2>1. Output(i, m, d) = <<i, m, d>>
    BY <1>3 DEF Output
  <2>2. ~OnGPU(i, m) /\ ~OnGPU(i, d) => OnHost(i, <<m, d>>)
    BY <1>3 DEF OnGPU, OnHost, IsData
  <2>3. OnHost(i, <<m, d>>) => Output(i, m, d) \notin GPUWork(i)
    BY <1>2, <1>3, <2>1, CopyWorkFacts DEF GPUWork
  <2> QED  BY <1>2, <1>3, <2>1, <2>2, <2>3, CopyWorkFacts
<1>4. CASE ~IsData(i, m)
  <2>1. Output(i, m, d) = <<i, m, m>>
    BY <1>4 DEF Output
  <2>2. CASE KindOf(i, m) = HostCode
    BY <1>2, <1>4, <2>1, <2>2, CodeWorkFacts DEF GPUWork
  <2>3. CASE KindOf(i, m) = Kernel
    <3>1. OnGPU(i, m) /\ KeepsStream(i, d)
      BY <2>3 DEF KeepsStream, OnGPU
    <3>2. HasStream(i, d)
      BY <3>1 DEF Final, Needed
    <3> QED  BY <1>2, <1>4, <2>1, <3>1, <3>2, CodeWorkFacts
  <2> QED  BY <1>2, <1>4, <2>2, <2>3, CodeWorkFacts
<1> QED  BY <1>3, <1>4

(* What a kernel, host code and a copy need. *)
LEMMA NeedsFacts ==
    ASSUME Base, NEW i \in Index, NEW w \in AllWork(i), NEW v \in Needs(w), Final(i)
    PROVE  /\ v \in AllWork(i)
           /\ \E d \in Nodes(i) : \E m \in Writers(i, d) :
                 /\ IsData(i, d) /\ v = Output(i, m, d)
                 /\ w[2] = w[3] => d \in Writers(i, w[2])
                 /\ w[2] # w[3] => d = w[2]
<1>1. /\ w = <<i, w[2], w[3]>> /\ w[2] \in Nodes(i)
      /\ \/ w[3] = w[2] /\ ~IsData(i, w[2])
         \/ w[3] \in Readers(i, w[2]) /\ IsData(i, w[2]) /\ IsData(i, w[3])
  BY WorkFacts
<1>2. w[1] = i
  BY <1>1
<1>3. \E d \in Nodes(i) : /\ IsData(i, d) /\ v \in Writes(i, d)
                          /\ w[2] = w[3] => d \in Writers(i, w[2])
                          /\ w[2] # w[3] => d = w[2]
  <2>1. CASE w[2] = w[3]
    <3>1. ~IsData(i, w[2])
      <4>1. w[3] \notin Readers(i, w[2])
        <5>1. PICK n \in Nodes(i) : n = w[2]
          BY <1>1
        <5>2. program \in Programs /\ n \in Nat
          BY GraphFacts DEF Base
        <5>3. \A m \in Readers(i, n) : n < m
          BY <5>2, NodeFacts
        <5> QED  BY <2>1, <5>1, <5>2, <5>3
      <4> QED  BY <1>1, <4>1
    <3>2. PICK d \in Writers(i, w[2]) : v \in Writes(i, d)
      BY <1>2, <2>1 DEF Needs
    <3>3. d \in Nodes(i) /\ IsData(i, d)
      <4>1. PICK n \in Nodes(i) : n = w[2]
        BY <1>1
      <4>2. program \in Programs
        BY DEF Base
      <4> QED  BY <3>1, <3>2, <4>1, <4>2, NodeFacts
    <3> QED  BY <2>1, <3>2, <3>3
  <2>2. CASE w[2] # w[3]
    BY <1>1, <1>2, <2>2 DEF Needs
  <2> QED  BY <2>1, <2>2
<1>4. PICK d \in Nodes(i) : /\ IsData(i, d) /\ v \in Writes(i, d)
                            /\ w[2] = w[3] => d \in Writers(i, w[2])
                            /\ w[2] # w[3] => d = w[2]
  BY <1>3
<1>5. PICK m \in Writers(i, d) : v = Output(i, m, d)
  BY <1>4, OutputFacts
<1> QED  BY <1>4, <1>5, OutputFacts

(***************************************************************************)
(* The invariant of the generated code.  What a node that was generated    *)
(* writes is done, or the stream of the data and those of the code that    *)
(* reads it reach the end of their queues only after it.                   *)
(***************************************************************************)
Published(v, d) ==
    /\ v \in HostWork(at) => v \in finished
    /\ v \in GPUWork(at) =>
          /\ Covers(stream[at][d], v)
          /\ \A s \in StreamsOf(at, CodeReaders(at, d)) : Covers(s, v)

EmittedOK(n) ==
    /\ Writers(at, n) \subseteq emitted
    /\ KindOf(at, n) = HostCode => <<at, n, n>> \in finished
    /\ KindOf(at, n) = Kernel => Covers(stream[at][n], <<at, n, n>>)
    /\ \A d \in Readers(at, n) : IsData(at, d) => Published(Output(at, n, d), d)

AllEmittedOK == \A n \in emitted : EmittedOK(n)

NeedsPrecede == \A i \in Index : \A w \in AllWork(i) : \A v \in Needs(w) : Precedes(v, w)

(* The states before the one that is run. *)
Earlier == \A i \in 1..(at - 1) : \A v \in AllWork(i) :
    \/ v \in finished
    \/ \E k \in Index : k + 1 = at /\ Relaxed(k) /\ \A s \in BeginStreams(k + 1) : Covers(s, v)

(* The work that comes after all that of the states before. *)
Waits(i, w) == HostWork(i) = {} \/ (w \in GPUWork(i) /\ WorkStream(w) \in BeginStreams(i))

StatesPrecede == \A i \in Index : \A w \in AllWork(i) : Waits(i, w) =>
    \A j \in 1..(i - 1) : \A v \in AllWork(j) : Precedes(v, w)

RunInv ==
    /\ AllSound => NeedsPrecede
    /\ AllSound /\ phase = "run" => AllEmittedOK
    /\ AllOrdered /\ phase = "run" => Earlier
    /\ AllOrdered => StatesPrecede
    /\ AllOrdered /\ phase = "done" => \A i \in Index : AllWork(i) \subseteq finished

LEMMA WriterPublished ==
    ASSUME Base, AllEmittedOK, NEW d \in Nodes(at), IsData(at, d), Writers(at, d) \subseteq emitted,
           NEW m \in Writers(at, d)
    PROVE  Published(Output(at, m, d), d)
<1>1. program \in Programs /\ at \in Index
  BY DEF Base
<1>2. m \in emitted /\ d \in Readers(at, m)
  BY <1>1, NodeFacts
<1> QED  BY <1>2 DEF AllEmittedOK, EmittedOK

LEMMA SourceWork ==
    ASSUME Base, NEW i \in Index, Final(i), HostWork(i) = {}, NEW w \in AllWork(i), Needs(w) = {}
    PROVE  WorkStream(w) \in BeginStreams(i)
<1>0. program \in Programs
  BY DEF Base
<1>1. /\ w = <<i, w[2], w[3]>> /\ w[2] \in Nodes(i)
      /\ \/ w[3] = w[2] /\ ~IsData(i, w[2])
         \/ w[3] \in Readers(i, w[2]) /\ IsData(i, w[2]) /\ IsData(i, w[3])
  BY WorkFacts
<1>2. PICK n \in Nodes(i) : n = w[2]
  BY <1>1
<1>3. \A d \in Nodes(i) : Writes(i, d) = {} => Writers(i, d) = {}
  BY DEF Writes
(* What reads a source that has no stream has one of those. *)
<1>4. ASSUME NEW d \in Nodes(i), Writers(i, d) = {}, IsData(i, d), NEW m \in Readers(i, d), HasStream(i, m)
      PROVE  stream[i][m] \in BeginStreams(i)
  <2>1. d \in Sources(i) /\ ~HasStream(i, d)
    BY <1>4 DEF Sources, Final, Unneeded, Needed
  <2>2. stream[i][m] \in StreamsOf(i, Readers(i, d))
    BY <1>4 DEF StreamsOf
  <2> QED  BY <2>1, <2>2 DEF BeginStreams
<1>5. CASE w[3] = w[2] /\ ~IsData(i, w[2])
  <2>1. w = <<i, n, n>> /\ ~IsData(i, n) /\ w[1] = i
    BY <1>1, <1>2, <1>5
  <2>2. HasStream(i, n) /\ WorkStream(w) = stream[i][n]
    BY <2>1, CodeWorkFacts
  <2>3. \A d \in Writers(i, n) : Writes(i, d) = {}
    BY <1>2, <1>5, <2>1 DEF Needs
  <2>4. CASE Writers(i, n) = {}
    BY <2>2, <2>4 DEF BeginStreams, Sources
  <2>5. CASE Writers(i, n) # {}
    <3>1. PICK d \in Writers(i, n) : TRUE
      BY <2>5
    <3>2. d \in Nodes(i) /\ IsData(i, d) /\ n \in Readers(i, d) /\ Writers(i, d) = {}
      BY <1>0, <1>3, <2>1, <2>3, <3>1, NodeFacts
    <3> QED  BY <1>4, <2>2, <3>2
  <2> QED  BY <2>4, <2>5
<1>6. CASE w[3] \in Readers(i, w[2]) /\ IsData(i, w[2]) /\ IsData(i, w[3])
  <2>1. PICK b \in Readers(i, n) : b = w[3]
    BY <1>2, <1>6
  <2>2. w = <<i, n, b>> /\ IsData(i, n) /\ IsData(i, b) /\ w[1] = i
    BY <1>1, <1>2, <1>6, <2>1
  <2>3. ~OnHost(i, <<n, b>>)
    BY <2>2, CopyWorkFacts
  <2>4. /\ n # b /\ WorkStream(w) = CopyStream(i, n, b) /\ HasStream(i, b)
        /\ HasStream(i, n) <=> Writers(i, n) # {}
    BY <2>2, <2>3, CopyWorkFacts
  <2>5. Writers(i, n) = {}
    BY <1>2, <1>3, <2>1, <2>2, <2>4 DEF Needs
  <2>6. WorkStream(w) = stream[i][b]
    BY <2>4, <2>5 DEF CopyStream
  <2> QED  BY <1>4, <2>1, <2>2, <2>4, <2>5, <2>6
<1> QED  BY <1>1, <1>5, <1>6

(***************************************************************************)
(* Generating a node puts W on the streams; the host does the rest of the  *)
(* work of the node at once.                                               *)
(***************************************************************************)
Emitting(n, W) ==
    /\ Generate(n) /\ Emission(W) /\ W \subseteq GPUWork(at)
    /\ finished' \subseteq finished \cup HostWork(at)
    /\ AllSound => /\ \A w \in finished' \ finished : Needs(w) \subseteq finished
                   /\ \A w \in W : \A v \in Needs(w) : v \in finished \/ Covers(WorkStream(w), v)
                   /\ EmittedOK(n)'

LEMMA SameSound ==
    ASSUME program' = program, stream' = stream, phase \in {"run", "done"}, phase' \in {"run", "done"}
    PROVE  AllSound' = AllSound /\ AllOrdered' = AllOrdered
<1>1. AllSound' = AllSound
  BY SameStreams DEF AllSound
<1>2. AllOrdered' = AllOrdered
  BY <1>1, SameStreams DEF AllOrdered
<1> QED  BY <1>1, <1>2

(* Work has the number of its state. *)
LEMMA WorkState ==
    ASSUME NEW i, NEW w \in AllWork(i)
    PROVE  w[1] = i
BY DEF AllWork, CodeWork, CopyWork

LEMMA EvolvesPrecedes ==
    ASSUME Evolves, NEW v, NEW w, Precedes(v, w), NEW C \in Cuts', Done(C, w)
    PROVE  Done(C, v)'
<1>1. C \in Cuts
  BY DEF Evolves
<1>2. Done(C, v)
  BY <1>1 DEF Precedes
<1> QED  BY <1>2 DEF Evolves

(* Steps of the generated code leave the annotation alone. *)
LEMMA RunKeepsAnnotating ==
    ASSUME Base, Annotating, phase \in {"run", "done"}, phase' \in {"run", "done"},
           UNCHANGED <<program, limit, annotation>>,
           QueuesOK', at' \in Index, emitted' \subseteq Nodes(at'), finished' \subseteq AllWorks
    PROVE  Base' /\ Annotating'
<1>1. /\ program' = program /\ limit' = limit /\ walk' = walk /\ visited' = visited
      /\ childpath' = childpath /\ stream' = stream
  BY DEF annotation
<1>2. StreamsOK'
  BY <1>1, SameGraph DEF Base, StreamsOK, Usable
<1>3. Base'
  <2>1. Index' = Index /\ AllWorks' = AllWorks /\ \A i : Nodes(i)' = Nodes(i)
    BY <1>1, SameGraph
  <2>2. PICK j : j = at'
    OBVIOUS
  <2>3. Nodes(at)' = Nodes(j)
    BY <1>1, <2>2 DEF Nodes
  <2>4. emitted' \subseteq Nodes(at)'
    BY <1>1, <2>2, <2>3 DEF Nodes
  <2> QED  BY <1>1, <1>2, <2>1, <2>4 DEF Base
<1>4. \A i \in Index : Final(i)'
  BY <1>1, SameAnnotation DEF Annotating
<1>5. Annotating'
  BY <1>1, <1>4, SameGraph DEF Annotating
<1> QED  BY <1>3, <1>5

LEMMA CoversKept ==
    ASSUME QueuesOK, QueuesOK', Evolves, program' = program, stream' = stream, at' = at,
           finished \subseteq finished', emitted \subseteq emitted', Base, Final(at),
           NEW n \in emitted, EmittedOK(n)
    PROVE  EmittedOK(n)'
<1>1. at \in Index /\ program \in Programs /\ n \in Nodes(at)
  BY DEF Base
<1>2. ASSUME NEW d \in Readers(at, n), IsData(at, d), Published(Output(at, n, d), d)
      PROVE  Published(Output(at, n, d), d)'
  <2> DEFINE v == Output(at, n, d)
  <2>1. d \in Nodes(at) /\ n \in Writers(at, d)
    BY <1>1, NodeFacts
  <2>2. v \in GPUWork(at) => stream[at][d] \in Stream
    BY <1>1, <1>2, <2>1, OutputFacts, StreamFacts
  <2>3. StreamsOf(at, CodeReaders(at, d)) \subseteq Stream
    <3>1. CodeReaders(at, d) \subseteq Nodes(at)
      BY <1>1, <2>1, NodeFacts DEF CodeReaders
    <3> QED  BY <1>1, <3>1, StreamFacts DEF StreamsOf
  <2>4. v' = v
    BY SameGraph DEF Output
  <2>5. /\ HostWork(at)' = HostWork(at) /\ GPUWork(at)' = GPUWork(at)
        /\ StreamsOf(at, CodeReaders(at, d))' = StreamsOf(at, CodeReaders(at, d))
        /\ stream'[at'][d] = stream[at][d]
    BY SameGraph, SameStreams DEF GPUWork
  <2> HIDE DEF v
  <2>6. PICK x : x = v
    OBVIOUS
  <2>7. \A s \in Stream : Covers(s, x) => Covers(s, x)'
    BY CoversEvolves
  <2>8. Published(x, d)
    BY <1>2, <2>6 DEF v
  <2>9. Published(x, d)'
    BY <2>2, <2>3, <2>4, <2>5, <2>6, <2>7, <2>8 DEF Published
  <2>10. v' = x
    BY <2>4, <2>6
  <2> QED  BY <2>9, <2>10 DEF v
<1>3. /\ Writers(at, n)' = Writers(at, n) /\ Readers(at, n)' = Readers(at, n)
      /\ KindOf(at, n)' = KindOf(at, n) /\ \A d : IsData(at, d)' = IsData(at, d)
  BY SameGraph
<1>4. ASSUME KindOf(at, n) = Kernel PROVE Covers(stream[at][n], <<at, n, n>>)'
  <2>1. ~IsData(at, n)
    BY <1>4 DEF IsData, Kernel, GPUData, HostData
  <2>2. stream[at][n] \in Stream
    BY <1>1, <1>4, <2>1, CodeWorkFacts, StreamFacts
  <2>3. PICK s \in Stream : s = stream[at][n]
    BY <2>2
  <2>4. PICK v : v = <<at, n, n>>
    OBVIOUS
  <2>5. Covers(s, v)
    BY <1>4, <2>3, <2>4 DEF EmittedOK
  <2>6. Covers(s, v)'
    BY <2>5, CoversEvolves
  <2> QED  BY <2>3, <2>4, <2>6
<1> QED  BY <1>2, <1>3, <1>4 DEF EmittedOK

LEMMA BeginsOnStreams ==
    ASSUME Base, NEW i \in Index
    PROVE  BeginStreams(i) \subseteq Stream /\ StreamsToSync(i) \subseteq Stream
<1>1. program \in Programs
  BY DEF Base
<1>2. \A N : N \subseteq Nodes(i) => StreamsOf(i, N) \subseteq Stream
  BY StreamFacts DEF StreamsOf
<1>3. \A n \in Nodes(i) : Readers(i, n) \subseteq Nodes(i) /\ Writers(i, n) \subseteq Nodes(i)
  BY <1>1, NodeFacts
<1>4. \A n \in Nodes(i) : HasStream(i, n) => stream[i][n] \in Stream
  BY StreamFacts
<1>5. BeginStreams(i) \subseteq Stream
  BY <1>2, <1>3, <1>4 DEF BeginStreams, Sources
<1>6. StreamsToSync(i) \subseteq Stream
  BY <1>2, <1>3, <1>4 DEF StreamsToSync, Sinks
<1> QED  BY <1>5, <1>6

LEMMA EmittingInv ==
    ASSUME Base, Annotating, RunInv, NEW n, NEW W, Emitting(n, W)
    PROVE  Base' /\ Annotating' /\ RunInv'
<1>1. /\ phase = "run" /\ phase' = "run" /\ n \in Nodes(at) /\ emitted' = emitted \cup {n}
      /\ program' = program /\ at' = at /\ stream' = stream /\ completed' = completed
      /\ UNCHANGED <<program, limit, annotation>>
  BY DEF Emitting, Generate, annotation
<1>2. /\ at \in Index /\ program \in Programs /\ QueuesOK /\ Final(at)
      /\ finished \subseteq AllWorks /\ emitted \subseteq Nodes(at)
  BY <1>1 DEF Base, Annotating
<1>3. Emission(W) /\ finished \subseteq finished' /\ W \subseteq GPUWork(at)
  BY DEF Emitting, Emission
<1>4. /\ QueuesOK' /\ Evolves
      /\ \A C \in Cuts' : \A w : Done(C, w)' =>
            \/ Done(C, w)
            \/ w \in finished'
            \/ /\ w \in W /\ WorkStream(w) \in Stream
               /\ C[WorkStream(w)] >= Position(WorkStream(w))
  BY <1>2, <1>3, EmissionEvolves
<1>5. HostWork(at) \subseteq AllWorks /\ finished' \subseteq AllWorks
  BY <1>2 DEF Emitting, HostWork, AllWorks
<1>6. Base' /\ Annotating'
  BY <1>1, <1>2, <1>4, <1>5, RunKeepsAnnotating
<1>7. AllSound' = AllSound /\ AllOrdered' = AllOrdered /\ (AllOrdered => AllSound)
  BY <1>1, SameSound DEF AllOrdered
<1>8. \A C \in Cuts' : C \in Cuts /\ \A w : Done(C, w) => Done(C, w)'
  BY <1>4 DEF Evolves
<1>9. \A C \in Cuts' : \A w : w \in finished' => Done(C, w)'
  BY DEF Done
<1>10. Index' = Index /\ \A i : AllWork(i)' = AllWork(i) /\ HostWork(i)' = HostWork(i) /\ GPUWork(i)' = GPUWork(i)
  BY <1>1, SameGraph DEF GPUWork
(* New work follows what it needs. *)
<1>11. ASSUME AllSound PROVE NeedsPrecede'
  <2>1. NeedsPrecede
    BY <1>11 DEF RunInv
  <2>2. /\ \A w \in finished' \ finished : Needs(w) \subseteq finished
        /\ \A w \in W : \A v \in Needs(w) : v \in finished \/ Covers(WorkStream(w), v)
    BY <1>11 DEF Emitting
  <2>3. ASSUME NEW i \in Index, NEW w \in AllWork(i), NEW v \in Needs(w), NEW C \in Cuts', Done(C, w)'
        PROVE  Done(C, v)'
    <3>1. CASE Done(C, w)
      <4>1. Precedes(v, w)
        BY <2>1 DEF NeedsPrecede
      <4> QED  BY <1>4, <3>1, <4>1, EvolvesPrecedes
    <3>2. CASE w \in finished' /\ w \notin finished
      BY <1>3, <1>9, <2>2, <3>2
    <3>3. CASE w \in W /\ WorkStream(w) \in Stream /\ C[WorkStream(w)] >= Position(WorkStream(w))
      <4>1. CASE v \in finished
        BY <1>3, <1>9, <4>1
      <4>2. CASE Covers(WorkStream(w), v)
        <5>1. Done(C, v)
          BY <1>8, <3>3, <4>2 DEF Covers
        <5> QED  BY <1>8, <5>1
      <4> QED  BY <2>2, <3>3, <4>1, <4>2
    <3>4. w \in finished => Done(C, w)
      BY DEF Done
    <3> QED  BY <1>4, <2>3, <3>1, <3>2, <3>3, <3>4
  <2>4. \A w : Needs(w)' = Needs(w)
    BY <1>1, SameGraph
  <2> QED  BY <1>10, <2>3, <2>4 DEF NeedsPrecede, Precedes
<1>12. ASSUME AllSound PROVE AllEmittedOK'
  <2>1. AllEmittedOK /\ EmittedOK(n)'
    BY <1>1, <1>11, <1>12 DEF RunInv, Emitting
  <2>2. ASSUME NEW m \in emitted PROVE EmittedOK(m)'
    <3>1. EmittedOK(m)
      BY <2>1 DEF AllEmittedOK
    <3>2. emitted \subseteq emitted'
      BY <1>1
    <3> QED  BY <1>1, <1>2, <1>3, <1>4, <3>1, <3>2, CoversKept
  <2>3. \A m \in emitted' : m \in emitted \/ m = n
    BY <1>1
  <2>4. PICK E : E = emitted'
    OBVIOUS
  <2>5. ASSUME NEW m \in E PROVE EmittedOK(m)'
    <3>1. CASE m \in emitted
      BY <2>2, <3>1
    <3>2. CASE m = n
      BY <2>1, <3>2
    <3> QED  BY <2>3, <2>4, <2>5, <3>1, <3>2
  <2> QED  BY <2>4, <2>5 DEF AllEmittedOK
<1>13. ASSUME AllOrdered PROVE Earlier'
  <2>1. Earlier
    BY <1>1, <1>13 DEF RunInv
  <2>2. \A k : Relaxed(k)' = Relaxed(k) /\ BeginStreams(k)' = BeginStreams(k)
    BY <1>1, SameStreams
  <2>3. \A k : k + 1 = at => BeginStreams(k + 1) \subseteq Stream
    BY <1>2, BeginsOnStreams
  <2>4. \A s \in Stream : \A w : Covers(s, w) => Covers(s, w)'
    BY <1>2, <1>4, CoversEvolves
  <2> QED  BY <1>1, <1>3, <1>10, <2>1, <2>2, <2>3, <2>4 DEF Earlier
(* New work follows all work of the states before. *)
<1>14. ASSUME AllOrdered PROVE StatesPrecede'
  <2>1. StatesPrecede /\ Earlier /\ AllSound
    BY <1>1, <1>7, <1>14 DEF RunInv
  <2>2. ASSUME NEW i \in Index, NEW w \in AllWork(i), Waits(i, w), NEW j \in 1..(i - 1), NEW v \in AllWork(j),
               NEW C \in Cuts', Done(C, w)'
        PROVE  Done(C, v)'
    <3>1. CASE Done(C, w)
      <4>1. Precedes(v, w)
        BY <2>1, <2>2 DEF StatesPrecede
      <4> QED  BY <1>4, <3>1, <4>1, EvolvesPrecedes
    <3>2. w \in finished => Done(C, w)
      BY DEF Done
    <3>3. CASE w \in finished' /\ w \notin finished
      <4>1. w \in HostWork(at) /\ w \in AllWork(at)
        BY <3>3 DEF Emitting, HostWork
      <4>2. i = at
        BY <4>1, WorkState
      <4> QED  BY <2>2, <4>1, <4>2 DEF Waits, GPUWork
    <3>4. CASE /\ w \in W /\ WorkStream(w) \in Stream /\ C[WorkStream(w)] >= Position(WorkStream(w))
      <4>1. w \in AllWork(at) /\ w \in GPUWork(at)
        BY <1>3, <3>4 DEF GPUWork
      <4>2. i = at /\ C \in Cuts
        BY <1>8, <4>1, WorkState
      <4>3. v \in finished \/ \A s \in BeginStreams(at) : Covers(s, v)
        BY <2>1, <4>2 DEF Earlier
      <4>4. CASE v \in finished
        BY <1>3, <1>9, <4>4
      <4>5. CASE WorkStream(w) \in BeginStreams(at) /\ v \notin finished
        <5>1. Done(C, v)
          BY <3>4, <4>2, <4>3, <4>5 DEF Covers
        <5> QED  BY <1>8, <5>1
      <4>6. CASE WorkStream(w) \notin BeginStreams(at)
        <5>1. HostWork(at) = {}
          BY <2>2, <4>2, <4>6 DEF Waits
        <5>2. PICK u \in Needs(w) : TRUE
          BY <1>2, <4>1, <4>6, <5>1, SourceWork
        <5>3. u \in AllWork(at)
          BY <1>2, <4>1, NeedsFacts
        <5>4. u \in finished \/ Covers(WorkStream(w), u)
          BY <2>1, <3>4 DEF Emitting
        <5>5. Done(C, u)
          BY <3>4, <4>2, <5>4 DEF Covers, Done
        <5>6. Precedes(v, u)
          BY <1>2, <2>1, <4>2, <5>1, <5>3 DEF StatesPrecede, Waits
        <5> QED  BY <1>4, <5>5, <5>6, EvolvesPrecedes
      <4> QED  BY <4>4, <4>5, <4>6
    <3> QED  BY <1>4, <2>2, <3>1, <3>2, <3>3, <3>4
  <2>3. \A i, w : Waits(i, w)' <=> Waits(i, w)
    <3>1. \A i : BeginStreams(i)' = BeginStreams(i)
      BY <1>1, SameStreams
    <3>2. \A w : WorkStream(w)' = WorkStream(w)
      BY <1>1, SameStreams
    <3> QED  BY <1>10, <3>1, <3>2 DEF Waits
  <2> QED  BY <1>10, <2>2, <2>3 DEF StatesPrecede, Precedes
<1> QED  BY <1>1, <1>6, <1>7, <1>11, <1>12, <1>13, <1>14 DEF RunInv

(***************************************************************************)
(* The handlers.                                                           *)
(***************************************************************************)
SignalsCover == QueuesOK => \A t \in Stream : \A w : Signalled(queue, t, w) => Covers(t, w)

LEMMA SignalsCoverAlways == SignalsCover
BY SignalledCovers DEF SignalsCover

LEMMA SignalsCoverNext == SignalsCover'
BY SignalsCoverAlways, PTL

LEMMA SignalledCoversNext ==
    ASSUME QueuesOK', completed' = completed, NEW t \in Stream, NEW w, Signalled(queue', t, w)
    PROVE  Covers(t, w)'
<1>1. Signalled(queue, t, w)'
  BY DEF Signalled, Signals, Holds
<1> QED  BY <1>1, SignalsCoverNext DEF SignalsCover

LEMMA QueueUnchanged ==
    ASSUME QueuesOK, queue' = queue
    PROVE  Emits(queue, queue', {})
<1>1. \A t \in Stream : Len(queue[t]) \in Nat
  BY DEF QueuesOK, Queues
<1> QED  BY <1>1 DEF Emits, Grows, QueuesOK

(* What the work of a node must have put on the streams. *)
Sends(v, d) ==
    /\ v \in HostWork(at) => v \in finished'
    /\ v \in GPUWork(at) =>
          /\ Signalled(queue', stream[at][d], v)
          /\ \A s \in StreamsOf(at, CodeReaders(at, d)) : Signalled(queue', s, v)

LEMMA SendsPublished ==
    ASSUME Base, Final(at), QueuesOK', completed' = completed,
           program' = program, stream' = stream, at' = at,
           NEW n \in Nodes(at), NEW d \in Readers(at, n), IsData(at, d), Sends(Output(at, n, d), d)
    PROVE  Published(Output(at, n, d), d)'
<1> DEFINE v == Output(at, n, d)
<1>1. at \in Index /\ program \in Programs
  BY DEF Base
<1>2. d \in Nodes(at) /\ n \in Writers(at, d)
  BY <1>1, NodeFacts
<1>3. v \in GPUWork(at) => stream[at][d] \in Stream
  BY <1>1, <1>2, OutputFacts, StreamFacts
<1>4. StreamsOf(at, CodeReaders(at, d)) \subseteq Stream
  <2>1. CodeReaders(at, d) \subseteq Nodes(at)
    BY <1>1, <1>2, NodeFacts DEF CodeReaders
  <2> QED  BY <1>1, <2>1, StreamFacts DEF StreamsOf
<1>5. v' = v
  BY SameGraph DEF Output
<1>6. /\ HostWork(at)' = HostWork(at) /\ GPUWork(at)' = GPUWork(at)
      /\ StreamsOf(at, CodeReaders(at, d))' = StreamsOf(at, CodeReaders(at, d))
      /\ stream'[at'][d] = stream[at][d]
  BY SameGraph, SameStreams DEF GPUWork
<1>7. Sends(v, d)
  OBVIOUS
<1> HIDE DEF v
<1>8. PICK x : x = v
  OBVIOUS
<1>9. \A s \in Stream : Signalled(queue', s, x) => Covers(s, x)'
  BY SignalledCoversNext
<1>10. Published(x, d)'
  BY <1>3, <1>4, <1>5, <1>6, <1>7, <1>8, <1>9 DEF Published, Sends
<1>11. v' = x
  BY <1>5, <1>8
<1> QED  BY <1>10, <1>11 DEF v

LEMMA EmittedNext ==
    ASSUME Base, Final(at), QueuesOK', completed' = completed,
           program' = program, stream' = stream, at' = at,
           NEW n \in Nodes(at), Writers(at, n) \subseteq emitted',
           KindOf(at, n) = HostCode => <<at, n, n>> \in finished',
           KindOf(at, n) = Kernel => Signalled(queue', stream[at][n], <<at, n, n>>),
           \A d \in Readers(at, n) : IsData(at, d) => Sends(Output(at, n, d), d)
    PROVE  EmittedOK(n)'
<1>1. at \in Index
  BY DEF Base
<1>2. \A d \in Readers(at, n) : IsData(at, d) => Published(Output(at, n, d), d)'
  BY SendsPublished
<1>3. /\ Writers(at, n)' = Writers(at, n) /\ Readers(at, n)' = Readers(at, n)
      /\ KindOf(at, n)' = KindOf(at, n) /\ \A d : IsData(at, d)' = IsData(at, d)
  BY SameGraph
<1>4. ASSUME KindOf(at, n) = Kernel PROVE Covers(stream[at][n], <<at, n, n>>)'
  <2>1. ~IsData(at, n)
    BY <1>4 DEF IsData, Kernel, GPUData, HostData
  <2>2. PICK s \in Stream : s = stream[at][n]
    BY <1>1, <1>4, <2>1, CodeWorkFacts, StreamFacts
  <2>3. PICK v : v = <<at, n, n>>
    OBVIOUS
  <2>4. Covers(s, v)'
    BY <1>4, <2>2, <2>3, SignalledCoversNext
  <2> QED  BY <2>2, <2>3, <2>4
<1> QED  BY <1>2, <1>3, <1>4 DEF EmittedOK

(* When the host has waited for the streams of what writes d, or nothing   *)
(* on a GPU does, d is written.                                            *)
LEMMA EmptyCovers ==
    ASSUME QueuesOK, NEW s \in Stream, queue[s] = <<>>, NEW v, Covers(s, v)
    PROVE  v \in finished
<1>1. completed \in Cuts /\ \A w : Done(completed, w) => w \in finished
  BY CompletedIsCut
<1>2. completed[s] >= Position(s)
  <2>1. completed[s] \in Nat /\ Len(queue[s]) = 0
    BY DEF QueuesOK, Counts
  <2> QED  BY <2>1 DEF Position
<1> QED  BY <1>1, <1>2 DEF Covers

LEMMA HostInv ==
    ASSUME Base, Annotating, RunInv, NEW n, Host(n)
    PROVE  Base' /\ Annotating' /\ RunInv'
<1> DEFINE w == <<at, n, n>>
<1>1. /\ Generate(n) /\ phase = "run" /\ n \in Nodes(at) /\ emitted' = emitted \cup {n}
      /\ Writers(at, n) \subseteq emitted
      /\ program' = program /\ at' = at /\ stream' = stream /\ completed' = completed
      /\ KindOf(at, n) = HostCode /\ Presynchronized(n)
      /\ finished' = finished \cup {w} /\ queue' = queue
  BY DEF Host, Generate, annotation
<1>2. at \in Index /\ program \in Programs /\ QueuesOK /\ Final(at)
  BY <1>1 DEF Base, Annotating
<1>3. Emission({}) /\ QueuesOK'
  <2>1. Emission({})
    BY <1>1, <1>2, QueueUnchanged DEF Emission
  <2> QED  BY <1>2, <2>1, EmissionEvolves
<1>4. ~IsData(at, n)
  BY <1>1 DEF IsData, HostCode, GPUData, HostData
<1>5. w \in HostWork(at) /\ w \in AllWork(at) /\ w \notin GPUWork(at)
  BY <1>1, <1>2, <1>4, CodeWorkFacts DEF GPUWork
<1>6. ASSUME AllSound, NEW v \in Needs(w) PROVE v \in finished
  <2>1. v \in AllWork(at) /\ \E d \in Nodes(at) : \E m \in Writers(at, d) :
            IsData(at, d) /\ v = Output(at, m, d) /\ (w[2] = w[3] => d \in Writers(at, w[2]))
    BY <1>2, <1>5, NeedsFacts
  <2>2. PICK d \in Nodes(at) : d \in Writers(at, n) /\ IsData(at, d) /\ \E m \in Writers(at, d) : v = Output(at, m, d)
    BY <2>1
  <2>3. PICK m \in Writers(at, d) : v = Output(at, m, d)
    BY <2>2
  <2>4. AllEmittedOK
    BY <1>1, <1>6 DEF RunInv
  <2>5. Writers(at, d) \subseteq emitted
    BY <1>1, <2>2, <2>4 DEF AllEmittedOK, EmittedOK
  <2>6. Published(v, d)
    BY <2>2, <2>3, <2>4, <2>5, WriterPublished
  <2>7. CASE v \in HostWork(at)
    BY <2>6, <2>7 DEF Published
  <2>8. CASE v \in GPUWork(at)
    <3>1. HasStream(at, d) /\ stream[at][d] \in Stream
      BY <1>2, <2>2, <2>3, <2>8, OutputFacts, StreamFacts
    <3>2. ~HasStream(at, n)
      BY <1>1, <1>2 DEF Final
    <3>3. queue[stream[at][d]] = <<>>
      BY <1>1, <2>2, <3>1, <3>2 DEF Presynchronized, Synchronized, StreamsOf
    <3>4. Covers(stream[at][d], v)
      BY <2>6, <2>8 DEF Published
    <3> QED  BY <1>2, <3>1, <3>3, <3>4, EmptyCovers
  <2> QED  BY <2>1, <2>7, <2>8 DEF GPUWork
<1>7. EmittedOK(n)'
  <2>1. \A d : Output(at, n, d) = w
    BY <1>4 DEF Output
  <2>2. \A d : Sends(Output(at, n, d), d)
    BY <1>1, <1>5, <2>1 DEF Sends
  <2>3. KindOf(at, n) # Kernel /\ w \in finished' /\ Writers(at, n) \subseteq emitted'
    BY <1>1 DEF HostCode, Kernel
  <2> HIDE DEF w
  <2> QED  BY <1>1, <1>2, <1>3, <2>2, <2>3, EmittedNext DEF w
<1>8. Emitting(n, {})
  BY <1>1, <1>3, <1>5, <1>6, <1>7 DEF Emitting
<1> QED  BY <1>8, EmittingInv

LEMMA TwoWriters ==
    ASSUME Base, NEW i \in Index, Final(i), Sound(i), NEW n \in Nodes(i), KindOf(i, n) = Kernel,
           NEW d \in Readers(i, n), IsData(i, d), HasStream(i, d), stream[i][d] # stream[i][n]
    PROVE  StreamsOf(i, CodeReaders(i, d)) \subseteq {stream[i][d]}
<1>1. program \in Programs
  BY DEF Base
<1>2. d \in Nodes(i) /\ n \in Writers(i, d) /\ Writers(i, d) \subseteq Nodes(i)
  BY <1>1, NodeFacts
<1>3. PICK m \in Writers(i, d) : m # n
  <2>1. Writers(i, d) # {n}
    BY <1>2 DEF Final, Follow
  <2> QED  BY <1>2, <2>1
<1>4. Cardinality({n}) = 1 /\ Cardinality({n} \cup {m}) = Cardinality({n}) + 1
  <2>1. Cardinality({n}) = 1
    BY FS_Singleton
  <2>2. {n} \in SUBSET Nodes(i) /\ m \in Nodes(i) \ {n}
    BY <1>2, <1>3
  <2> QED  BY <1>1, <2>1, <2>2, CountFacts
<1>5. IsFiniteSet(Writers(i, d)) /\ Cardinality(Writers(i, d)) \in Nat
  BY <1>1, <1>2, CountFacts
<1>6. Cardinality({n} \cup {m}) <= Cardinality(Writers(i, d))
  BY <1>2, <1>3, <1>5, FS_Subset
<1>7. Cardinality(Writers(i, d)) > 1
  BY <1>4, <1>5, <1>6
<1>8. \A c \in CodeReaders(i, d) : HasStream(i, c) => stream[i][c] = stream[i][d]
  BY <1>2, <1>7 DEF Sound, ThirdStream
<1> QED  BY <1>8 DEF StreamsOf

LEMMA WaitersFacts ==
    ASSUME NEW n, NEW d \in Readers(at, n), HasStream(at, d)
    PROVE  /\ stream[at][d] # stream[at][n] => stream[at][d] \in KernelWaiters(n)
           /\ stream[at][d] = stream[at][n] =>
                  StreamsOf(at, CodeReaders(at, d)) \subseteq KernelWaiters(n) \cup {stream[at][n]}
<1>1. ASSUME NEW x,
             stream[at][d] # stream[at][n] => x = stream[at][d],
             stream[at][d] = stream[at][n] => x \in StreamsOf(at, CodeReaders(at, d)),
             x # stream[at][n]
      PROVE  x \in KernelWaiters(n)
  <2>1. x \in (IF HasStream(at, d) /\ stream[at][d] # stream[at][n]
               THEN {stream[at][d]} ELSE StreamsOf(at, CodeReaders(at, d)))
    BY <1>1
  <2> DEFINE U(c) == IF HasStream(at, c) /\ stream[at][c] # stream[at][n]
                     THEN {stream[at][c]} ELSE StreamsOf(at, CodeReaders(at, c))
             All == {U(c) : c \in Readers(at, n)}
  <2>2. U(d) \in All
    OBVIOUS
  <2>3. x \in UNION All
    <3>1. PICK A : A = U(d)
      OBVIOUS
    <3>2. x \in A /\ A \in All
      BY <2>1, <2>2, <3>1
    <3> HIDE DEF U, All
    <3> QED  BY <3>2
  <2>4. KernelWaiters(n) = (UNION All) \ {stream[at][n]}
    BY Zenon DEF KernelWaiters
  <2> HIDE DEF U, All
  <2> QED  BY <1>1, <2>3, <2>4
<1> QED  BY <1>1

LEMMA LaunchInv ==
    ASSUME Base, Annotating, RunInv, NEW n, Launch(n)
    PROVE  Base' /\ Annotating' /\ RunInv'
<1> DEFINE w == <<at, n, n>>
           s == stream[at][n]
           r == Put(queue, s, [work |-> w])
           S == KernelWaiters(n)
<1>1. /\ Generate(n) /\ phase = "run" /\ n \in Nodes(at) /\ emitted' = emitted \cup {n}
      /\ Writers(at, n) \subseteq emitted
      /\ program' = program /\ at' = at /\ stream' = stream /\ completed' = completed
      /\ KindOf(at, n) = Kernel
      /\ finished' = finished /\ queue' = Events(r, S, s)
  BY DEF Launch, Generate, annotation, Work
<1>2. /\ at \in Index /\ program \in Programs /\ Final(at)
      /\ QueuesOK /\ queue \in Queues /\ completed \in Counts
  BY <1>1 DEF Base, Annotating, QueuesOK
<1>3. ~IsData(at, n)
  BY <1>1 DEF IsData, Kernel, GPUData, HostData
<1>4. /\ w \in GPUWork(at) /\ w \in AllWork(at) /\ w \notin HostWork(at)
      /\ HasStream(at, n) /\ WorkStream(w) = s /\ s \in Stream
  BY <1>1, <1>2, <1>3, CodeWorkFacts, StreamFacts DEF GPUWork
<1>5. \A d \in Readers(at, n) : d \in Nodes(at) /\ IsData(at, d) /\ n \in Writers(at, d)
  BY <1>1, <1>2, <1>3, NodeFacts
<1>6. \A d \in Readers(at, n) : StreamsOf(at, CodeReaders(at, d)) \subseteq Stream
  <2>1. \A d \in Readers(at, n) : CodeReaders(at, d) \subseteq Nodes(at)
    BY <1>2, <1>5, NodeFacts DEF CodeReaders
  <2> QED  BY <1>2, <2>1, StreamFacts DEF StreamsOf
<1>7. S \subseteq Stream
  BY <1>2, <1>5, <1>6, StreamFacts DEF KernelWaiters
<1>8. w \in AllWorks
  BY <1>2, <1>4 DEF AllWorks
<1> HIDE DEF w, s, S
<1>9. /\ r \in Queues /\ Emits(queue, r, {w}) /\ Signalled(r, s, w)
      /\ Len(r[s]) = Len(queue[s]) + 1 /\ Holds(r, s, Len(queue[s]) + 1, w)
  BY <1>2, <1>4, <1>8, PutFacts
<1> HIDE DEF r
<1>10. /\ queue' \in Queues /\ Emits(r, queue', {})
       /\ \A k \in 1..Len(r[s]) : \A x : Holds(r, s, k, x) => \A t \in S : Signalled(queue', t, x)
  BY <1>1, <1>2, <1>4, <1>7, <1>9, EventsFacts
<1>11. Emits(queue, queue', {w})
  <2>1. Emits(queue, queue', {w} \cup {})
    BY <1>2, <1>9, <1>10, EmitsTransitive
  <2>2. {w} \cup {} = {w}
    OBVIOUS
  <2> QED  BY <2>1, <2>2
<1>12. Signalled(queue', s, w)
  BY <1>4, <1>9, <1>10, SignalledGrows DEF Emits
<1>13. \A t \in S : Signalled(queue', t, w)
  <2>1. Len(queue[s]) \in Nat
    BY <1>2, <1>4 DEF Queues
  <2> QED  BY <1>9, <1>10, <2>1
<1>14. Emission({w}) /\ QueuesOK'
  <2>1. Emission({w})
    BY <1>1, <1>11 DEF Emission
  <2> QED  BY <1>2, <2>1, EmissionEvolves
<1>15. ASSUME AllSound, NEW v \in Needs(w) PROVE v \in finished \/ Covers(s, v)
  <2>0. w[1] = at /\ w[2] = n /\ w[3] = n
    BY DEF w
  <2>1. v \in AllWork(at) /\ \E d \in Nodes(at) : \E m \in Writers(at, d) :
            IsData(at, d) /\ v = Output(at, m, d) /\ (w[2] = w[3] => d \in Writers(at, w[2]))
    BY <1>2, <1>4, NeedsFacts
  <2>2. PICK d \in Nodes(at) : d \in Writers(at, n) /\ IsData(at, d) /\ \E m \in Writers(at, d) : v = Output(at, m, d)
    BY <2>0, <2>1
  <2>3. PICK m \in Writers(at, d) : v = Output(at, m, d)
    BY <2>2
  <2>4. AllEmittedOK
    BY <1>1, <1>15 DEF RunInv
  <2>5. Writers(at, d) \subseteq emitted
    BY <1>1, <2>2, <2>4 DEF AllEmittedOK, EmittedOK
  <2>6. Published(v, d)
    BY <2>2, <2>3, <2>4, <2>5, WriterPublished
  <2>7. s \in StreamsOf(at, CodeReaders(at, d))
    <3>1. n \in Readers(at, d)
      BY <1>1, <1>2, <2>2, NodeFacts
    <3> QED  BY <1>3, <1>4, <3>1 DEF StreamsOf, CodeReaders, s
  <2> QED  BY <2>1, <2>6, <2>7 DEF Published, GPUWork
<1>16. ASSUME AllSound PROVE EmittedOK(n)'
  <2>1. \A d : Output(at, n, d) = w
    BY <1>3 DEF Output, w
  <2>2. ASSUME NEW d \in Readers(at, n) PROVE Sends(w, d)
    <3>1. HasStream(at, d) /\ d \in Nodes(at) /\ IsData(at, d)
      BY <1>2, <1>4, <1>5, <2>1, OutputFacts
    <3>2. CASE stream[at][d] = s
      <4>1. StreamsOf(at, CodeReaders(at, d)) \subseteq S \cup {s}
        BY <3>1, <3>2, WaitersFacts DEF S, s
      <4> QED  BY <1>4, <1>12, <1>13, <3>2, <4>1 DEF Sends
    <3>3. CASE stream[at][d] # s
      <4>1. Sound(at)
        BY <1>2, <1>16 DEF AllSound, Index
      <4>2. StreamsOf(at, CodeReaders(at, d)) \subseteq {stream[at][d]}
        BY <1>1, <1>2, <3>1, <3>3, <4>1, TwoWriters DEF s
      <4>3. stream[at][d] \in S
        BY <3>1, <3>3, WaitersFacts DEF S, s
      <4> QED  BY <1>4, <1>13, <4>2, <4>3 DEF Sends
    <3> QED  BY <3>2, <3>3
  <2>3. \A d \in Readers(at, n) : IsData(at, d) => Sends(Output(at, n, d), d)
    BY <2>1, <2>2
  <2>4. Signalled(queue', stream[at][n], <<at, n, n>>)
    BY <1>12 DEF s, w
  <2>5. KindOf(at, n) # HostCode /\ Writers(at, n) \subseteq emitted'
    BY <1>1 DEF HostCode, Kernel
  <2> QED  BY <1>1, <1>2, <1>14, <2>3, <2>4, <2>5, EmittedNext
<1>17. Emitting(n, {w})
  BY <1>1, <1>4, <1>14, <1>15, <1>16 DEF Emitting
<1> QED  BY <1>17, EmittingInv

LEMMA CopyableFacts ==
    ASSUME Base, Final(at), NEW n \in Nodes(at), IsData(at, n),
           NEW b \in Readers(at, n), IsData(at, b), ~OnHost(at, <<n, b>>)
    PROVE  /\ Copyable(<<n, b>>)
           /\ StreamsOf(at, {b} \cup CodeReaders(at, b)) \subseteq Stream
           /\ HasStream(at, b) /\ b \in Nodes(at)
<1>1. at \in Index /\ program \in Programs
  BY DEF Base
<1>2. b \in Nodes(at) /\ CodeReaders(at, b) \subseteq Nodes(at)
  BY <1>1, NodeFacts DEF CodeReaders
<1>3. StreamsOf(at, {b} \cup CodeReaders(at, b)) \subseteq Stream
  BY <1>1, <1>2, StreamFacts DEF StreamsOf
<1>4. /\ <<at, n, b>> \in AllWork(at) /\ HasStream(at, b)
      /\ WorkStream(<<at, n, b>>) = CopyStream(at, n, b)
  BY <1>1, CopyWorkFacts
<1>5. <<at, n, b>> \in AllWorks
  BY <1>1, <1>4 DEF AllWorks
<1>6. CopyStream(at, n, b) \in Stream
  BY <1>1, <1>2, <1>4, StreamFacts DEF CopyStream
<1>7. SyncWith(at, n, b) \subseteq Stream
  BY <1>3 DEF SyncWith
<1> QED  BY <1>2, <1>3, <1>4, <1>5, <1>6, <1>7 DEF Copyable

(* A copy whose events are not dropped is waited for by all streams that   *)
(* have to.                                                                *)
LEMMA CopySends ==
    ASSUME NEW e, NEW q, CopySignalled(q, e), ~DropsEvents(at, e), ~OnHost(at, e),
           IsData(at, e[1]), IsData(at, e[2]),
           NEW t \in StreamsOf(at, {e[2]} \cup CodeReaders(at, e[2]))
    PROVE  Signalled(q, t, <<at, e[1], e[2]>>)
<1>1. CASE t = CopyStream(at, e[1], e[2])
  BY <1>1 DEF CopySignalled
<1>2. CASE t # CopyStream(at, e[1], e[2])
  <2>1. t \in SyncWith(at, e[1], e[2])
    BY <1>2 DEF SyncWith
  <2>2. ~IsSync(at, e[1], e[2])
    BY <2>1 DEF DropsEvents
  <2> QED  BY <2>1, <2>2 DEF CopySignalled
<1> QED  BY <1>1, <1>2

LEMMA AccessNodeInv ==
    ASSUME Base, Annotating, RunInv, NEW n, AccessNode(n)
    PROVE  Base' /\ Annotating' /\ RunInv'
<1> DEFINE E == {e \in Copies(at, n) : ~OnHost(at, e)}
           copies == Among(program[at].edges, E)
           W == CopyWorks(E)
           H == {<<at, n, e[2]>> : e \in {f \in Copies(at, n) : OnHost(at, f)}}
<1>1. /\ Generate(n) /\ phase = "run" /\ n \in Nodes(at) /\ emitted' = emitted \cup {n}
      /\ Writers(at, n) \subseteq emitted
      /\ program' = program /\ at' = at /\ stream' = stream /\ completed' = completed
      /\ IsData(at, n) /\ finished' = finished \cup H /\ queue' = EmitCopies(queue, copies)
  BY DEF AccessNode, Generate, annotation
<1>2. /\ at \in Index /\ program \in Programs /\ Final(at)
      /\ QueuesOK /\ queue \in Queues /\ completed \in Counts
  BY <1>1 DEF Base, Annotating, QueuesOK
<1>3. \A e \in Copies(at, n) : /\ e = <<n, e[2]>> /\ e[1] = n /\ e \in Edges(at)
                               /\ e[2] \in Readers(at, n) /\ IsData(at, e[2])
  BY <1>2, GraphFacts DEF Copies, Readers
<1>4. \A b \in Readers(at, n) : IsData(at, b) => <<n, b>> \in Copies(at, n)
  BY <1>1, <1>2, NodeFacts DEF Copies
<1>5. ASSUME NEW e \in E PROVE Copyable(e)
  <2>1. PICK b \in Readers(at, n) : b = e[2]
    BY <1>3
  <2>2. e = <<n, b>> /\ IsData(at, b) /\ ~OnHost(at, <<n, b>>)
    BY <1>3, <2>1
  <2> QED  BY <1>1, <1>2, <2>2, CopyableFacts
<1>6. copies \in Seq(E) /\ ToSet(copies) = E
  <2>1. program[at].edges \in Seq(Nat \X Nat)
    BY <1>2, GraphFacts DEF Graph
  <2> HIDE DEF E
  <2>2. copies \in Seq(Nat \X Nat) /\ ToSet(copies) = Edges(at) \cap E
    BY <2>1, AmongFacts DEF Edges
  <2>3. ToSet(copies) = E
    BY <1>3, <2>2 DEF E
  <2> HIDE DEF copies
  <2>4. \A x \in 1..Len(copies) : copies[x] \in E
    BY <2>3 DEF ToSet
  <2>5. copies \in Seq(E)
    BY <2>2, <2>4
  <2> QED  BY <2>3, <2>5
<1> HIDE DEF copies
<1>7. /\ queue' \in Queues /\ Emits(queue, queue', W)
      /\ \A e \in E : CopySignalled(queue', e)
  <2> HIDE DEF E
  <2> QED  BY <1>1, <1>2, <1>5, <1>6, EmitCopiesFacts
<1>8. \A w \in W : \E b \in Readers(at, n) : w = <<at, n, b>> /\ IsData(at, b) /\ ~OnHost(at, <<n, b>>)
  BY <1>3 DEF CopyWorks
<1>9. \A w \in H : \E b \in Readers(at, n) : w = <<at, n, b>> /\ IsData(at, b) /\ OnHost(at, <<n, b>>)
  BY <1>3
<1>10. \A b \in Readers(at, n) : IsData(at, b) =>
           /\ OnHost(at, <<n, b>>) => <<at, n, b>> \in H
           /\ ~OnHost(at, <<n, b>>) => <<n, b>> \in E
  BY <1>4
<1> HIDE DEF E, W, H
<1>11. \A b \in Readers(at, n) : IsData(at, b) =>
           /\ <<at, n, b>> \in AllWork(at) /\ n # b
           /\ OnHost(at, <<n, b>>) => <<at, n, b>> \in HostWork(at)
           /\ ~OnHost(at, <<n, b>>) =>
                  /\ <<at, n, b>> \in GPUWork(at) /\ WorkStream(<<at, n, b>>) = CopyStream(at, n, b)
                  /\ HasStream(at, b)
                  /\ HasStream(at, n) <=> Writers(at, n) # {}
  BY <1>1, <1>2, CopyWorkFacts
<1>12. W \subseteq GPUWork(at) /\ H \subseteq HostWork(at)
  BY <1>8, <1>9, <1>11
<1>13. Emission(W) /\ QueuesOK'
  <2>1. Emission(W)
    BY <1>1, <1>7 DEF Emission
  <2> QED  BY <1>2, <2>1, EmissionEvolves
(* What a copy needs is what the writers of n wrote. *)
<1>14. ASSUME AllSound, NEW b \in Readers(at, n), IsData(at, b), NEW v \in Needs(<<at, n, b>>)
       PROVE  /\ v \in AllWork(at) /\ Published(v, n)
              /\ \E m \in Writers(at, n) : v = Output(at, m, n)
  <2> DEFINE w == <<at, n, b>>
  <2>1. w \in AllWork(at) /\ w[2] = n /\ w[3] = b /\ n # b
    BY <1>11, <1>14
  <2> HIDE DEF w
  <2>2. v \in Needs(w)
    BY DEF w
  <2>3. v \in AllWork(at) /\ \E d \in Nodes(at) : \E m \in Writers(at, d) :
            v = Output(at, m, d) /\ (w[2] # w[3] => d = w[2])
    BY <1>2, <2>1, <2>2, NeedsFacts
  <2>4. PICK m \in Writers(at, n) : v = Output(at, m, n)
    BY <2>1, <2>3
  <2>5. AllEmittedOK
    BY <1>1, <1>14 DEF RunInv
  <2>6. Published(Output(at, m, n), n)
    BY <1>1, <2>5, WriterPublished
  <2> QED  BY <2>3, <2>4, <2>6
<1>15. ASSUME AllSound, NEW w \in W, NEW v \in Needs(w) PROVE v \in finished \/ Covers(WorkStream(w), v)
  <2>1. PICK b \in Readers(at, n) : w = <<at, n, b>> /\ IsData(at, b) /\ ~OnHost(at, <<n, b>>)
    BY <1>8
  <2>2. v \in AllWork(at) /\ Published(v, n) /\ Writers(at, n) # {}
    BY <1>14, <1>15, <2>1
  <2>3. WorkStream(w) = stream[at][n]
    BY <1>11, <2>1, <2>2 DEF CopyStream
  <2> QED  BY <2>2, <2>3 DEF Published, GPUWork
<1>16. ASSUME AllSound, NEW w \in H, NEW v \in Needs(w) PROVE v \in finished
  <2>1. PICK b \in Readers(at, n) : w = <<at, n, b>> /\ IsData(at, b) /\ OnHost(at, <<n, b>>)
    BY <1>9
  <2>2. Published(v, n) /\ \E m \in Writers(at, n) : v = Output(at, m, n)
    BY <1>14, <1>16, <2>1
  <2>3. PICK m \in Writers(at, n) : v = Output(at, m, n)
    BY <2>2
  <2>4. ~CopiesUnsynced(at, <<n, b>>)
    <3>1. Sound(at) /\ <<n, b>> \in Edges(at)
      BY <1>1, <1>2, <1>16, NodeFacts DEF AllSound, Index
    <3> QED  BY <3>1 DEF Sound
  <2>5. ~OnGPU(at, m) /\ ~OnGPU(at, n)
    BY <2>1, <2>4 DEF CopiesUnsynced, OnHost, OnGPU, HostData, Kernel, GPUData
  <2>6. v \in HostWork(at)
    BY <1>1, <1>2, <2>3, <2>5, OutputFacts
  <2> QED  BY <2>2, <2>6 DEF Published
<1>17. ASSUME AllSound PROVE EmittedOK(n)'
  <2>1. \A d : Output(at, n, d) = <<at, n, d>>
    BY <1>1 DEF Output
  <2>2. ASSUME NEW d \in Readers(at, n), IsData(at, d) PROVE Sends(<<at, n, d>>, d)
    <3>1. CASE OnHost(at, <<n, d>>)
      BY <1>1, <1>10, <1>11, <2>2, <3>1 DEF Sends, GPUWork
    <3>2. CASE ~OnHost(at, <<n, d>>)
      <4>1. PICK e \in E : e = <<n, d>>
        BY <1>10, <2>2, <3>2
      <4>2. CopySignalled(queue', e) /\ e[1] = n /\ e[2] = d /\ ~OnHost(at, e)
        BY <1>7, <3>2, <4>1
      <4>3. ~DropsEvents(at, e)
        <5>1. Sound(at) /\ e \in Edges(at)
          BY <1>1, <1>2, <1>17, <4>1, NodeFacts DEF AllSound, Index
        <5> QED  BY <5>1 DEF Sound
      <4>4. PICK q : q = queue'
        OBVIOUS
      <4>5. \A t \in StreamsOf(at, {d} \cup CodeReaders(at, d)) : Signalled(q, t, <<at, n, d>>)
        BY <1>1, <2>2, <4>2, <4>3, <4>4, CopySends
      <4>6. HasStream(at, d) /\ <<at, n, d>> \in GPUWork(at)
        BY <1>11, <2>2, <3>2
      <4>7. /\ stream[at][d] \in StreamsOf(at, {d} \cup CodeReaders(at, d))
            /\ StreamsOf(at, CodeReaders(at, d)) \subseteq StreamsOf(at, {d} \cup CodeReaders(at, d))
        BY <4>6 DEF StreamsOf
      <4> QED  BY <4>4, <4>5, <4>6, <4>7 DEF Sends, GPUWork
    <3> QED  BY <3>1, <3>2
  <2>3. \A d \in Readers(at, n) : IsData(at, d) => Sends(Output(at, n, d), d)
    BY <2>1, <2>2
  <2>4. KindOf(at, n) # HostCode /\ KindOf(at, n) # Kernel /\ Writers(at, n) \subseteq emitted'
    BY <1>1 DEF IsData, HostCode, Kernel, GPUData, HostData
  <2> QED  BY <1>1, <1>2, <1>13, <2>3, <2>4, EmittedNext
<1>18. Emitting(n, W)
  BY <1>1, <1>12, <1>13, <1>15, <1>16, <1>17 DEF Emitting
<1> QED  BY <1>18, EmittingInv

(***************************************************************************)
(* The GPU goes on.                                                        *)
(***************************************************************************)
LEMMA ExecuteInv ==
    ASSUME Base, Annotating, RunInv, NEW s \in Stream, Execute(s)
    PROVE  Base' /\ Annotating' /\ RunInv'
<1>1. /\ queue[s] # <<>> /\ phase' = phase /\ at' = at /\ emitted' = emitted
      /\ program' = program /\ stream' = stream /\ UNCHANGED <<program, limit, annotation>>
  BY DEF Execute, annotation
<1>2. /\ at \in Index /\ program \in Programs /\ QueuesOK
      /\ finished \subseteq AllWorks /\ emitted \subseteq Nodes(at)
  BY DEF Base
<1>3. phase \in {"run", "done"} /\ Final(at)
  <2>1. phase \in {"run", "done"}
    BY <1>1 DEF Base, Annotating
  <2> QED  BY <1>2, <2>1 DEF Annotating
<1>4. QueuesOK' /\ Evolves /\ \A C \in Cuts' : \A w : Done(C, w)' => Done(C, w)
  BY <1>2, ExecuteEvolves
<1>5. finished \subseteq finished' /\ finished' \subseteq AllWorks
  <2>1. Head(queue[s]) \in Item
    BY <1>1, <1>2 DEF QueuesOK, Queues
  <2>2. IsWork(Head(queue[s])) => Head(queue[s]).work \in AllWorks
    BY <2>1, ItemFacts
  <2> QED  BY <1>2, <2>2 DEF Execute, IsWork
<1>6. Base' /\ Annotating'
  BY <1>1, <1>2, <1>3, <1>4, <1>5, RunKeepsAnnotating
<1>7. AllSound' = AllSound /\ AllOrdered' = AllOrdered /\ (AllOrdered => AllSound)
  BY <1>1, <1>3, SameSound DEF AllOrdered
<1>8. Index' = Index /\ \A i : AllWork(i)' = AllWork(i) /\ HostWork(i)' = HostWork(i) /\ GPUWork(i)' = GPUWork(i)
  BY <1>1, SameGraph DEF GPUWork
<1>9. ASSUME NEW v, NEW w, Precedes(v, w) PROVE Precedes(v, w)'
  BY <1>4, <1>9, EvolvesPrecedes DEF Precedes
<1>10. ASSUME AllSound PROVE NeedsPrecede'
  <2>1. NeedsPrecede /\ \A w : Needs(w)' = Needs(w)
    BY <1>1, <1>10, SameGraph DEF RunInv
  <2> QED  BY <1>8, <1>9, <2>1 DEF NeedsPrecede
<1>11. ASSUME AllSound, phase = "run" PROVE AllEmittedOK'
  <2>1. AllEmittedOK
    BY <1>11 DEF RunInv
  <2>2. ASSUME NEW m \in emitted PROVE EmittedOK(m)'
    <3>1. EmittedOK(m) /\ emitted \subseteq emitted'
      BY <1>1, <2>1 DEF AllEmittedOK
    <3> QED  BY <1>1, <1>2, <1>3, <1>4, <1>5, <3>1, CoversKept
  <2>3. PICK E : E = emitted
    OBVIOUS
  <2>4. \A m \in E : EmittedOK(m)'
    BY <2>2, <2>3
  <2> QED  BY <1>1, <2>3, <2>4 DEF AllEmittedOK
<1>12. ASSUME AllOrdered, phase = "run" PROVE Earlier'
  <2>1. Earlier
    BY <1>12 DEF RunInv
  <2>2. \A k : Relaxed(k)' = Relaxed(k) /\ BeginStreams(k)' = BeginStreams(k)
    BY <1>1, SameStreams
  <2>3. \A k : k + 1 = at => BeginStreams(k + 1) \subseteq Stream
    BY <1>2, BeginsOnStreams
  <2>4. \A t \in Stream : \A w : Covers(t, w) => Covers(t, w)'
    BY <1>2, <1>4, CoversEvolves
  <2> QED  BY <1>1, <1>5, <1>8, <2>1, <2>2, <2>3, <2>4 DEF Earlier
<1>13. ASSUME AllOrdered PROVE StatesPrecede'
  <2>1. StatesPrecede
    BY <1>13 DEF RunInv
  <2>2. \A i, w : Waits(i, w)' <=> Waits(i, w)
    <3>1. \A i : BeginStreams(i)' = BeginStreams(i)
      BY <1>1, SameStreams
    <3>2. \A w : WorkStream(w)' = WorkStream(w)
      BY <1>1, SameStreams
    <3> QED  BY <1>8, <3>1, <3>2 DEF Waits
  <2> QED  BY <1>8, <1>9, <2>1, <2>2 DEF StatesPrecede
<1> QED  BY <1>1, <1>5, <1>6, <1>7, <1>8, <1>10, <1>11, <1>12, <1>13 DEF RunInv

(***************************************************************************)
(* The end of a state.  When the streams of its sinks have gone as far as  *)
(* they are filled, its work is done: of what is not, the one that comes   *)
(* last has a result that nothing uses.                                    *)
(***************************************************************************)
LEMMA StateIsDone ==
    ASSUME Base, Annotating, phase = "run", emitted = Nodes(at), AllEmittedOK, NeedsPrecede,
           NEW C \in Cuts, \A s \in StreamsToSync(at) : C[s] >= Position(s), NEW z \in AllWork(at)
    PROVE  Done(C, z)
<1>1. /\ at \in Index /\ program \in Programs /\ Final(at)
      /\ \A n \in Nodes(at) : EmittedOK(n)
  BY DEF Base, Annotating, AllEmittedOK
<1> DEFINE N == Len(program[at].kind)
           U == {w \in AllWork(at) : ~Done(C, w)}
           K == {N - w[3] : w \in U}
<1>2. N \in Nat /\ Nodes(at) = 1..N
  BY <1>1, GraphFacts DEF Nodes
<1>3. \A w \in AllWork(at) : w[3] \in Nodes(at)
  <2> SUFFICES ASSUME NEW w \in AllWork(at) PROVE w[3] \in Nodes(at)
    OBVIOUS
  <2>1. PICK n \in Nodes(at) : n = w[2]
    BY <1>1, WorkFacts
  <2>2. w[3] = n \/ w[3] \in Readers(at, n)
    BY <1>1, <2>1, WorkFacts
  <2> QED  BY <1>1, <2>2, NodeFacts
<1> HIDE DEF N
<1> SUFFICES ASSUME z \in U PROVE FALSE
  OBVIOUS
<1>4. PICK k \in K : \A j \in K : <<j, k>> \notin Less
  <2>1. K \subseteq Nat /\ K # {}
    BY <1>2, <1>3
  <2> HIDE DEF K
  <2> QED  BY <2>1, LessWellFounded, WFMin
<1>5. PICK w \in U : k = N - w[3]
  BY <1>4
<1>6. ASSUME NEW u \in AllWork(at), w[3] < u[3] PROVE Done(C, u)
  <2>1. CASE u \in U
    <3>1. N - u[3] \in K
      BY <2>1
    <3>2. u[3] \in Nat /\ w[3] \in Nat /\ u[3] <= N /\ w[3] <= N
      BY <1>2, <1>3, <1>5
    <3>3. N - u[3] \in Nat /\ k \in Nat /\ N - u[3] < k
      BY <1>2, <1>5, <1>6, <3>2
    <3> HIDE DEF K
    <3> QED  BY <1>4, <3>1, <3>3 DEF Less
  <2> QED  BY <2>1
<1> HIDE DEF K
<1>7. PICK n \in Nodes(at) : n = w[2]
  BY <1>1, <1>5, WorkFacts
<1>8. w \in AllWork(at) /\ ~Done(C, w) /\ w \notin finished
  BY <1>5 DEF Done
<1> HIDE DEF U
<1>9. \A s \in StreamsToSync(at) : ~Covers(s, w)
  BY <1>8 DEF Covers
<1>10. \E b \in Readers(at, n) : /\ IsData(at, b) /\ w = Output(at, n, b) /\ w[3] <= b
                                 /\ w \in GPUWork(at)
  <2>1. CASE w[3] = w[2] /\ ~IsData(at, w[2])
    <3>1. w = <<at, n, n>> /\ ~IsData(at, n) /\ w[3] = n
      BY <1>1, <1>7, <1>8, <2>1, WorkFacts
    <3>2. KindOf(at, n) = Kernel /\ w \in GPUWork(at) /\ HasStream(at, n)
      <4>1. KindOf(at, n) # HostCode
        BY <1>1, <1>8, <3>1 DEF EmittedOK
      <4> QED  BY <1>1, <3>1, <4>1, CodeWorkFacts
    <3>3. Readers(at, n) # {}
      <4>1. Covers(stream[at][n], w)
        BY <1>1, <3>1, <3>2 DEF EmittedOK
      <4>2. Readers(at, n) = {} => stream[at][n] \in StreamsToSync(at)
        BY <3>2 DEF StreamsToSync, Sinks
      <4> QED  BY <1>9, <4>1, <4>2
    <3>4. PICK b \in Readers(at, n) : TRUE
      BY <3>3
    <3>5. IsData(at, b) /\ n < b /\ b \in Nodes(at)
      BY <1>1, <3>1, NodeFacts
    <3>6. w = Output(at, n, b)
      BY <3>1 DEF Output
    <3>7. n <= b
      BY <1>2, <3>5
    <3> QED  BY <3>1, <3>2, <3>5, <3>6, <3>7
  <2>2. CASE w[3] \in Readers(at, w[2]) /\ IsData(at, w[2]) /\ IsData(at, w[3])
    <3>1. PICK b \in Readers(at, n) : b = w[3]
      BY <1>7, <2>2
    <3>2. w = <<at, n, b>> /\ IsData(at, n) /\ IsData(at, b) /\ b \in Nodes(at)
      BY <1>1, <1>3, <1>7, <1>8, <2>2, <3>1, WorkFacts
    <3>3. w = Output(at, n, b)
      BY <3>2 DEF Output
    <3>4. w \in GPUWork(at)
      <4>1. Published(w, b)
        BY <1>1, <3>2, <3>3 DEF EmittedOK
      <4> QED  BY <1>8, <4>1 DEF Published, GPUWork
    <3>5. b <= b
      BY <1>2, <3>2
    <3> QED  BY <3>1, <3>2, <3>3, <3>4, <3>5
  <2> QED  BY <1>1, <1>8, <2>1, <2>2, WorkFacts
<1>11. PICK b \in Readers(at, n) : /\ IsData(at, b) /\ w = Output(at, n, b) /\ w[3] <= b
                                   /\ w \in GPUWork(at)
  BY <1>10
<1>12. b \in Nodes(at) /\ n \in Writers(at, b)
  BY <1>1, NodeFacts
<1>13. HasStream(at, b) /\ w \in Writes(at, b)
  BY <1>1, <1>11, <1>12, OutputFacts
<1>14. Readers(at, b) # {}
  <2>1. Published(w, b)
    BY <1>1, <1>11 DEF EmittedOK
  <2>2. Covers(stream[at][b], w)
    BY <1>11, <2>1 DEF Published
  <2>3. Readers(at, b) = {} => stream[at][b] \in StreamsToSync(at)
    BY <1>12, <1>13 DEF StreamsToSync, Sinks
  <2> QED  BY <1>9, <2>2, <2>3
<1>15. PICK m \in Readers(at, b) : TRUE
  BY <1>14
<1>16. m \in Nodes(at) /\ b < m /\ b \in Writers(at, m)
  BY <1>1, <1>12, NodeFacts
<1>17. \E u \in AllWork(at) : u[3] = m /\ w \in Needs(u)
  <2>1. CASE IsData(at, m)
    <3>1. <<at, b, m>> \in AllWork(at) /\ b # m
      BY <1>1, <1>11, <1>12, <2>1, CopyWorkFacts
    <3> QED  BY <1>13, <3>1 DEF Needs
  <2>2. CASE ~IsData(at, m)
    <3>1. <<at, m, m>> \in AllWork(at)
      BY <1>1, <1>16, <2>2, CodeWorkFacts
    <3>2. w \in Needs(<<at, m, m>>)
      BY <1>13, <1>16 DEF Needs
    <3> QED  BY <3>1, <3>2
  <2> QED  BY <2>1, <2>2
<1>18. PICK u \in AllWork(at) : u[3] = m /\ w \in Needs(u)
  BY <1>17
<1>19. w[3] < u[3]
  <2>1. w[3] \in Nat /\ b \in Nat /\ m \in Nat
    BY <1>2, <1>3, <1>8, <1>12, <1>16
  <2> QED  BY <1>11, <1>16, <1>18, <2>1
<1>20. Done(C, u)
  BY <1>6, <1>19
<1>21. Precedes(w, u)
  BY <1>1, <1>18 DEF NeedsPrecede
<1> QED  BY <1>8, <1>20, <1>21 DEF Precedes

(* And that of the states before.                                          *)
LEMMA EarlierIsDone ==
    ASSUME Base, Annotating, RunInv, AllOrdered, phase = "run", emitted = Nodes(at),
           NEW C \in Cuts, \A s \in StreamsToSync(at) : C[s] >= Position(s),
           NEW i \in 1..at, NEW v \in AllWork(i)
    PROVE  Done(C, v)
<1>1. at \in Index /\ program \in Programs
  BY DEF Base
<1>2. AllSound /\ AllEmittedOK /\ NeedsPrecede /\ Earlier /\ StatesPrecede
  BY DEF RunInv, AllOrdered
<1>3. at \in Nat /\ Len(program) \in Nat /\ 1 <= at /\ at <= Len(program)
  BY <1>1, GraphFacts DEF Index
<1>4. \A w \in AllWork(at) : Done(C, w)
  BY <1>2, StateIsDone
<1>5. CASE i = at
  BY <1>4, <1>5
<1>6. CASE v \in finished
  BY <1>6 DEF Done
<1>7. CASE i # at /\ v \notin finished
  <2>1. i \in 1..(at - 1)
    BY <1>3, <1>7
  <2>2. BeginStreams(at) # {}
    <3>1. PICK k \in Index : k + 1 = at /\ Relaxed(k)
      BY <1>2, <1>7, <2>1 DEF Earlier
    <3>2. Cardinality(BeginStreams(at)) = 1
      BY <3>1 DEF Relaxed
    <3> QED  BY <3>2, FS_EmptySet
  <2>3. PICK w \in AllWork(at) \ HostWork(at) : WorkStream(w) \in BeginStreams(at)
    BY <1>1, <2>2 DEF AllOrdered, BeginsIdle, Index
  <2>4. Waits(at, w)
    BY <2>3 DEF Waits, GPUWork
  <2>5. Precedes(v, w)
    BY <1>1, <1>2, <2>1, <2>3, <2>4 DEF StatesPrecede
  <2> QED  BY <1>4, <2>3, <2>5 DEF Precedes
<1> QED  BY <1>5, <1>6, <1>7

LEMMA SynchronizedIsFinished ==
    ASSUME Base, Annotating, RunInv, AllOrdered, phase = "run", emitted = Nodes(at),
           Synchronized(StreamsToSync(at)), NEW i \in 1..at, NEW v \in AllWork(i)
    PROVE  v \in finished
<1>1. QueuesOK /\ at \in Index
  BY DEF Base
<1>2. completed \in Cuts /\ \A w : Done(completed, w) => w \in finished
  BY <1>1, CompletedIsCut
<1>3. ASSUME NEW s \in StreamsToSync(at) PROVE completed[s] >= Position(s)
  <2>1. s \in Stream /\ queue[s] = <<>>
    BY <1>1, BeginsOnStreams DEF Synchronized
  <2>2. completed[s] \in Nat /\ Len(queue[s]) = 0
    BY <1>1, <2>1 DEF QueuesOK, Counts
  <2> QED  BY <2>2 DEF Position
<1>4. Done(completed, v)
  BY <1>2, <1>3, EarlierIsDone
<1> QED  BY <1>2, <1>4

LEMMA RelaxedIsCovered ==
    ASSUME Base, Annotating, RunInv, AllOrdered, phase = "run", emitted = Nodes(at),
           Relaxed(at), NEW s \in BeginStreams(at + 1), NEW i \in 1..at, NEW v \in AllWork(i)
    PROVE  Covers(s, v)
<1> SUFFICES ASSUME NEW C \in Cuts, C[s] >= Position(s) PROVE Done(C, v)
  BY DEF Covers
<1>1. at \in Index /\ program \in Programs
  BY DEF Base
<1>2. s \in StreamsToSync(at) /\ Cardinality(StreamsToSync(at)) = 1
  BY DEF Relaxed
<1>3. IsFiniteSet(StreamsToSync(at))
  <2>1. StreamsToSync(at) \subseteq 0..(MaxStreams - 1)
    BY <1>1, BeginsOnStreams DEF Stream
  <2>2. IsFiniteSet(0..(MaxStreams - 1))
    <3>1. 0 \in Int /\ MaxStreams - 1 \in Int
      BY LimitsAssumption
    <3> QED  BY <3>1, FS_Interval
  <2> QED  BY <2>1, <2>2, FS_Subset
<1>4. \A t \in StreamsToSync(at) : t = s
  BY <1>2, <1>3, FS_Singleton
<1>5. \A t \in StreamsToSync(at) : C[t] >= Position(t)
  BY <1>4
<1> QED  BY <1>5, EarlierIsDone

LEMMA SameQueues ==
    ASSUME program' = program, stream' = stream,
           queue' = queue, completed' = completed, finished' = finished
    PROVE  /\ QueuesOK' = QueuesOK /\ Cuts' = Cuts
           /\ \A C, w : Done(C, w)' <=> Done(C, w)
           /\ \A s, w : Covers(s, w)' <=> Covers(s, w)
           /\ NeedsPrecede' <=> NeedsPrecede
           /\ StatesPrecede' <=> StatesPrecede
<1>1. /\ Index' = Index /\ Queues' = Queues /\ Counts' = Counts
      /\ \A i : /\ AllWork(i)' = AllWork(i) /\ HostWork(i)' = HostWork(i)
                /\ GPUWork(i)' = GPUWork(i)
      /\ \A w : Needs(w)' = Needs(w)
  BY SameGraph DEF GPUWork
<1>2. QueuesOK' = QueuesOK
  BY <1>1 DEF QueuesOK
<1>3. \A C : IsCut(C)' <=> IsCut(C)
  BY DEF IsCut
<1>4. Cuts' = Cuts
  BY <1>1, <1>3 DEF Cuts
<1>5. \A C, w : Done(C, w)' <=> Done(C, w)
  BY DEF Done, Holds
<1>6. \A s, w : Covers(s, w)' <=> Covers(s, w)
  BY <1>4, <1>5 DEF Covers, Position
<1>7. \A v, w : Precedes(v, w)' <=> Precedes(v, w)
  BY <1>4, <1>5 DEF Precedes
<1>8. NeedsPrecede' <=> NeedsPrecede
  BY <1>1, <1>7 DEF NeedsPrecede
<1>9. \A i, w : Waits(i, w)' <=> Waits(i, w)
  <2>1. \A i : BeginStreams(i)' = BeginStreams(i)
    BY SameStreams
  <2>2. \A w : WorkStream(w)' = WorkStream(w)
    BY SameStreams
  <2> QED  BY <1>1, <2>1, <2>2 DEF Waits
<1>10. StatesPrecede' <=> StatesPrecede
  BY <1>1, <1>7, <1>9 DEF StatesPrecede
<1> QED  BY <1>2, <1>4, <1>5, <1>6, <1>8, <1>10

LEMMA EndStateInv ==
    ASSUME Base, Annotating, RunInv, EndState
    PROVE  Base' /\ Annotating' /\ RunInv'
<1>1. /\ phase = "run" /\ emitted = Nodes(at)
      /\ Relaxed(at) \/ Synchronized(StreamsToSync(at))
      /\ at < Len(program) => at' = at + 1 /\ emitted' = {} /\ phase' = "run"
      /\ ~(at < Len(program)) => at' = at /\ emitted' = emitted /\ phase' = "done"
      /\ program' = program /\ stream' = stream /\ UNCHANGED <<program, limit, annotation>>
      /\ queue' = queue /\ completed' = completed /\ finished' = finished
  BY DEF EndState, annotation
<1>2. at \in Index /\ program \in Programs /\ QueuesOK /\ finished \subseteq AllWorks
  BY DEF Base
<1>3. at \in Nat /\ Len(program) \in Nat /\ 1 <= at /\ at <= Len(program)
  BY <1>2, GraphFacts DEF Index
<1>4. /\ QueuesOK' = QueuesOK
      /\ \A s, w : Covers(s, w)' <=> Covers(s, w)
      /\ NeedsPrecede' <=> NeedsPrecede
      /\ StatesPrecede' <=> StatesPrecede
  BY <1>1, SameQueues
<1>5. at' \in Index /\ emitted' \subseteq Nodes(at') /\ phase' \in {"run", "done"}
  <2>1. CASE at < Len(program)
    BY <1>1, <1>3, <2>1 DEF Index
  <2>2. CASE ~(at < Len(program))
    BY <1>1, <1>2, <2>2
  <2> QED  BY <2>1, <2>2
<1>6. Base' /\ Annotating'
  BY <1>1, <1>2, <1>4, <1>5, RunKeepsAnnotating
<1>7. AllSound' = AllSound /\ AllOrdered' = AllOrdered /\ (AllOrdered => AllSound)
  BY <1>1, <1>5, SameSound DEF AllOrdered
<1>8. Index' = Index /\ \A i : AllWork(i)' = AllWork(i)
  BY <1>1, SameGraph
<1>9. ASSUME phase' = "run" PROVE AllEmittedOK'
  <2>1. emitted' = {}
    BY <1>1, <1>9
  <2> QED  BY <2>1 DEF AllEmittedOK
<1>10. ASSUME AllOrdered, phase' = "run" PROVE Earlier'
  <2>1. PICK j \in Index : j = at
    BY <1>2
  <2>2. at' = j + 1 /\ at' - 1 = j
    BY <1>1, <1>3, <1>10, <2>1
  <2>3. ASSUME NEW i \in 1..j, NEW v \in AllWork(i)
        PROVE  v \in finished \/ (Relaxed(j) /\ \A s \in BeginStreams(j + 1) : Covers(s, v))
    <3>1. CASE Relaxed(at)
      BY <1>1, <1>10, <2>1, <2>3, <3>1, RelaxedIsCovered
    <3>2. CASE Synchronized(StreamsToSync(at))
      BY <1>1, <1>10, <2>1, <2>3, <3>2, SynchronizedIsFinished
    <3> QED  BY <1>1, <3>1, <3>2
  <2>4. \A k : Relaxed(k)' = Relaxed(k) /\ BeginStreams(k)' = BeginStreams(k)
    BY <1>1, SameStreams
  <2>5. ASSUME NEW i \in 1..j, NEW v \in AllWork(i)'
        PROVE  \/ v \in finished'
               \/ /\ j + 1 = at' /\ Relaxed(j)'
                  /\ \A s \in BeginStreams(j + 1)' : Covers(s, v)'
    BY <1>1, <1>4, <1>8, <2>2, <2>3, <2>4
  <2> QED  BY <1>8, <2>2, <2>5 DEF Earlier
<1>11. ASSUME AllOrdered, phase' = "done" PROVE \A i \in Index : AllWork(i) \subseteq finished
  <2>1. at = Len(program)
    BY <1>1, <1>3, <1>11
  <2>2. Synchronized(StreamsToSync(at)) /\ Index = 1..at
    BY <1>1, <1>3, <2>1 DEF Relaxed, Index
  <2> QED  BY <1>1, <1>11, <2>2, SynchronizedIsFinished
<1> QED  BY <1>1, <1>4, <1>6, <1>7, <1>8, <1>9, <1>10, <1>11 DEF RunInv

(***************************************************************************)
(* The whole.                                                              *)
(***************************************************************************)
Inv == Base /\ Annotating /\ RunInv

(* Nothing is claimed of the run before it begins. *)
LEMMA NotYet ==
    ASSUME phase' \notin {"run", "done"}
    PROVE  RunInv'
BY DEF RunInv, AllOrdered, AllSound

LEMMA RunBegins ==
    ASSUME Base, Annotating, RemoveStreams
    PROVE  RunInv'
<1>1. /\ phase = "walk" /\ phase' = "run" /\ at' = 1 /\ program' = program
      /\ emitted' = emitted /\ finished' = finished /\ queue' = queue
  BY DEF RemoveStreams, WalkOver, execution
<1>2. emitted' = {} /\ finished' = {} /\ queue' = [s \in Stream |-> <<>>]
  BY <1>1 DEF Annotating
<1>3. \A C, w : ~Done(C, w)'
  <2>1. \A t \in Stream : \A j : j \notin 1..Len(queue'[t])
    BY <1>2
  <2> QED  BY <1>2, <2>1 DEF Done
<1>4. NeedsPrecede' /\ StatesPrecede'
  BY <1>3 DEF NeedsPrecede, StatesPrecede, Precedes
<1>5. AllEmittedOK'
  BY <1>2 DEF AllEmittedOK
<1>6. Earlier'
  <2>1. \A i : i \notin 1..(1 - 1)
    OBVIOUS
  <2> QED  BY <1>1, <2>1 DEF Earlier
<1> QED  BY <1>1, <1>4, <1>5, <1>6 DEF RunInv

LEMMA Stutters ==
    ASSUME Inv, UNCHANGED vars
    PROVE  Inv'
<1>1. /\ program' = program /\ limit' = limit /\ phase' = phase /\ at' = at
      /\ walk' = walk /\ visited' = visited /\ stream' = stream /\ childpath' = childpath
      /\ fresh' = fresh /\ emitted' = emitted /\ queue' = queue /\ completed' = completed
      /\ finished' = finished
  BY DEF vars, annotation, execution
<1>2. /\ Index' = Index /\ AllWorks' = AllWorks
      /\ \A i : /\ Nodes(i)' = Nodes(i) /\ AllWork(i)' = AllWork(i)
                /\ HostWork(i)' = HostWork(i) /\ GPUWork(i)' = GPUWork(i)
  BY <1>1, SameGraph DEF GPUWork
<1>3. \A i, n : /\ KindOf(i, n)' = KindOf(i, n) /\ IsData(i, n)' = IsData(i, n)
                /\ Readers(i, n)' = Readers(i, n) /\ Writers(i, n)' = Writers(i, n)
                /\ OutEdges(i, n)' = OutEdges(i, n) /\ CodeReaders(i, n)' = CodeReaders(i, n)
  BY <1>1, SameGraph
<1>4. /\ QueuesOK' = QueuesOK /\ (NeedsPrecede' <=> NeedsPrecede) /\ (StatesPrecede' <=> StatesPrecede)
      /\ \A s, w : Covers(s, w)' <=> Covers(s, w)
  BY <1>1, SameQueues
<1>5. \A i : /\ Final(i)' = Final(i) /\ Complete(i)' = Complete(i) /\ Blank(i)' = Blank(i)
             /\ Unneeded(i)' = Unneeded(i) /\ Follow(i)' = Follow(i)
  BY <1>1, SameAnnotation
<1>6. /\ \A i, n : HasStream(i, n)' = HasStream(i, n)
      /\ \A i, N : StreamsOf(i, N)' = StreamsOf(i, N)
      /\ \A i : Relaxed(i)' = Relaxed(i) /\ BeginStreams(i)' = BeginStreams(i)
  BY <1>1, SameStreams
<1>7. Base'
  BY <1>1, <1>2, <1>4 DEF Inv, Base, StreamsOK, Usable
<1>8. Annotating'
  <2>1. Walking => Walking'
    <3>1. \A n : OnStack(n) => OnStack(n)'
      BY <1>1, <1>3 DEF OnStack
    <3>2. \A n : Needed(at, n)' = Needed(at, n)
      BY <1>1, <1>3 DEF Needed
    <3> QED  BY <1>1, <1>2, <1>3, <1>5, <1>6, <3>1, <3>2 DEF Walking
  <2>2. FreshOK => FreshOK'
    <3>1. {n \in Nodes(at) : HasStream(at, n)}' = {n \in Nodes(at) : HasStream(at, n)}
      BY <1>1, <1>2, <1>6
    <3> QED  BY <1>1, <3>1 DEF FreshOK
  <2> QED  BY <1>1, <1>2, <1>5, <2>1, <2>2 DEF Inv, Annotating
<1>9. RunInv'
  <2>1. phase \in {"run", "done"} => AllSound' = AllSound /\ AllOrdered' = AllOrdered
    BY <1>1, SameSound
  <2>2. phase \notin {"run", "done"} => RunInv'
    BY <1>1, NotYet
  <2>3. AllEmittedOK => AllEmittedOK'
    <3>1. \A v, d : Published(v, d) => Published(v, d)'
      BY <1>1, <1>2, <1>3, <1>4, <1>6 DEF Published
    <3>2. \A n, d : Output(at, n, d)' = Output(at, n, d)
      BY <1>1, <1>3 DEF Output
    <3>3. \A n : EmittedOK(n) => EmittedOK(n)'
      BY <1>1, <1>3, <1>4, <3>1, <3>2 DEF EmittedOK
    <3> QED  BY <1>1, <3>3 DEF AllEmittedOK
  <2>4. Earlier => Earlier'
    BY <1>1, <1>2, <1>4, <1>6 DEF Earlier
  <2> QED  BY <1>1, <1>2, <1>4, <2>1, <2>2, <2>3, <2>4 DEF Inv, RunInv
<1> QED  BY <1>7, <1>8, <1>9 DEF Inv

LEMMA InvInit == Init => Inv
<1> SUFFICES ASSUME Init PROVE Inv
  OBVIOUS
<1>1. Base /\ Annotating
  BY InitInv
<1>2. phase = "sources"
  BY DEF Init
<1> QED  BY <1>1, <1>2 DEF Inv, RunInv, AllOrdered, AllSound

LEMMA InvNext == Inv /\ [Next]_vars => Inv'
<1> SUFFICES ASSUME Inv, [Next]_vars PROVE Inv'
  OBVIOUS
<1> USE DEF Inv
<1>1. CASE AnnotateSources
  BY <1>1, AnnotateSourcesInv, NotYet DEF AnnotateSources
<1>2. CASE \E n \in Sources(at) : StartWalk(n)
  BY <1>2, StartWalkInv, NotYet DEF StartWalk
<1>3. CASE WalkEdge
  BY <1>3, WalkEdgeInv, NotYet DEF WalkEdge
<1>4. CASE LeaveNode
  BY <1>4, LeaveNodeInv, NotYet DEF LeaveNode
<1>5. CASE NextState
  BY <1>5, NextStateInv, NotYet DEF NextState
<1>6. CASE RemoveStreams
  BY <1>6, RemoveStreamsInv, RunBegins
<1>7. CASE \E n \in Nodes(at) : AccessNode(n)
  BY <1>7, AccessNodeInv
<1>8. CASE \E n \in Nodes(at) : Launch(n)
  BY <1>8, LaunchInv
<1>9. CASE \E n \in Nodes(at) : Host(n)
  BY <1>9, HostInv
<1>10. CASE EndState
  BY <1>10, EndStateInv
<1>11. CASE \E s \in Stream : Execute(s)
  BY <1>11, ExecuteInv
<1>12. CASE UNCHANGED vars
  BY <1>12, Stutters
<1> QED
  BY <1>1, <1>2, <1>3, <1>4, <1>5, <1>6, <1>7, <1>8, <1>9, <1>10, <1>11, <1>12
     DEF Next, Annotation, HostStep, Returned

LEMMA InvAlways == Spec => []Inv
BY InvInit, InvNext, PTL DEF Spec

(* No node is given a stream that is not created, in states of any size    *)
(* and with any limit of the streams, and the walk stays in its state      *)
(* (_compute_cudastreams).                                                 *)
THEOREM TypesAreCorrect == Spec => []TypeOK
<1>1. Inv => TypeOK
  <2> SUFFICES ASSUME Inv PROVE TypeOK
    OBVIOUS
  <2>1. Base /\ Annotating
    BY DEF Inv
  <2>2. /\ walk = <<>> \/ walk \in Seq(Nodes(at) \X (Nat \ {0}))
        /\ visited \subseteq Nodes(at) /\ childpath \subseteq Nodes(at)
    BY <2>1 DEF Annotating, Walking
  <2>3. \A i \in 1..Len(walk) : walk[i] \in Nodes(at) \X Nat
    BY <2>2
  <2>4. \A i \in Index : \A n \in Nodes(i) : stream[i][n] \in {NoStream} \cup Usable
    BY <2>1 DEF Base, StreamsOK
  <2> QED  BY <2>1, <2>2, <2>3, <2>4 DEF Base, TypeOK, QueuesOK, Counts, AllWorks, Index, Usable
<1> QED  BY <1>1, InvAlways, PTL

(* What reads data runs after all that writes it, on any streams: the      *)
(* events that synchronize_streams and _emit_copy record, and the streams  *)
(* that the host waits for, are enough.                                    *)
THEOREM ReadersFollowWriters == Spec => []DependenciesMet
<1>1. Inv => DependenciesMet
  <2> SUFFICES ASSUME Inv, AllSound, NEW w \in finished, NEW v \in Needs(w) PROVE v \in finished
    BY DEF DependenciesMet, ReadersWait
  <2>1. QueuesOK /\ finished \subseteq AllWorks /\ NeedsPrecede
    BY DEF Inv, Base, RunInv
  <2>2. PICK i \in Index : w \in AllWork(i)
    BY <2>1 DEF AllWorks
  <2>3. Precedes(v, w)
    BY <2>1, <2>2 DEF NeedsPrecede
  <2>4. Done(completed, w)
    BY DEF Done
  <2> QED  BY <2>1, <2>3, <2>4, CompletedIsCut DEF Precedes
<1> QED  BY <1>1, InvAlways, PTL

(* The work of a state follows that of all states before it, also when     *)
(* generate_state leaves out their synchronization.                        *)
THEOREM StatesFollowEachOther == Spec => []StatesOrdered
<1>1. Inv => StatesOrdered
  <2> SUFFICES ASSUME Inv, AllOrdered, NEW w \in finished, NEW j \in 1..(w[1] - 1),
                      HostWork(w[1]) = {}, NEW v \in AllWork(j)
               PROVE  v \in finished
    BY DEF StatesOrdered
  <2>1. QueuesOK /\ finished \subseteq AllWorks /\ StatesPrecede
    BY DEF Inv, Base, RunInv
  <2>2. PICK i \in Index : w \in AllWork(i)
    BY <2>1 DEF AllWorks
  <2>3. w[1] = i
    BY <2>2, WorkState
  <2>4. Precedes(v, w)
    BY <2>1, <2>2, <2>3 DEF StatesPrecede, Waits
  <2>5. Done(completed, w)
    BY DEF Done
  <2> QED  BY <2>1, <2>4, <2>5, CompletedIsCut DEF Precedes
<1> QED  BY <1>1, InvAlways, PTL

(* A program that returns has done all of its work: the host waits for the *)
(* streams of the sinks, and these end after everything else.              *)
THEOREM ReturnsWithNothingPending == Spec => []NothingPending
<1>1. Inv => NothingPending
  BY DEF Inv, RunInv, NothingPending, Index
<1> QED  BY <1>1, InvAlways, PTL
=============================================================================
