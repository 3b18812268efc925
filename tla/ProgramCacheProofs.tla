------------------------- MODULE ProgramCacheProofs -------------------------
(***************************************************************************)
(* Proofs about module ProgramCache, for any variables of the closure and  *)
(* values of them, and numbers of hooks, operations and entries.           *)
(***************************************************************************)
EXTENDS ProgramCache, TLAPS

(***************************************************************************)
(* The inductive invariant.  Types says more than TypeOK: the variables of *)
(* the closure have values of their kind, and entries have their fields.   *)
(***************************************************************************)
Globals == {g \in [Name -> Value \cup Binding] : \A n \in Name : g[n] \in Held(n)}
Consts == UNION {[S -> Value] : S \in SUBSET Const}
Descs == UNION {[S -> {Desc[b] : b \in Binding}] : S \in SUBSET Array}
Key == [type : Type, consts : Consts, arrays : Descs, hooks : Seq(Address \cup {0})]
SDFG == [type : Type, consts : Consts, hooks : [Hook -> Nat], origin : {"parsed", "loaded"}]
Entry == [key : Key, prog : SDFG, compiled : BOOLEAN]

Types ==
    /\ size \in Sizes
    /\ globals \in Globals /\ global_vars \in Globals
    /\ closure_keys \in SUBSET Name
    /\ arg_mapping \in [closure_keys \cap Array -> Binding]
    /\ hooks \in Seq({0} \cup Hook) /\ address \in Seq(Address)
    /\ cache \in Seq(Entry)

(* A hook's number is its place in the list, and its identifier.           *)
HookPlaces ==
    /\ Len(hooks) = Len(address) /\ Len(hooks) <= MaxHooks
    /\ \A i \in DOMAIN hooks : hooks[i] \in {0, i}
    /\ DOMAIN open = Active
    /\ \A h \in DOMAIN open : open[h] = h

Distinct == \A i, j \in DOMAIN cache : cache[i].key = cache[j].key => i = j

(* The places of hooks in the ids that are part of a key. *)
Registered(ids) == {i \in DOMAIN ids : ids[i] # 0}

(* An entry that is added before the program is parsed may have a key with *)
(* other variables than those the program uses; if it has the same ones,   *)
(* then it also has the values that the program was parsed with.           *)
SameConstants(e) == DOMAIN e.key.consts = Uses[e.key.type] \cap Const

Correct(e) ==
    /\ e.prog.type = e.key.type
    /\ SameConstants(e) => e.prog.consts = e.key.consts
    /\ RewrittenBy(e.prog) \subseteq Registered(e.key.hooks)
    /\ e.compiled => SameConstants(e)
    /\ e.compiled /\ e.prog.origin = "parsed" => RewrittenBy(e.prog) = Registered(e.key.hooks)

Entries == Distinct /\ Bounded /\ \A i \in DOMAIN cache : Correct(cache[i])

Inv == Types /\ HookPlaces /\ Entries /\ CallIsCurrent

(***************************************************************************)
(* The ids of the hooks tell which hooks are registered: a hook that is    *)
(* removed leaves its place empty, and the places of others stay.          *)
(***************************************************************************)
LEMMA HookFacts ==
    ASSUME Types, HookPlaces
    PROVE  /\ HookIds \in Seq(Address \cup {0})
           /\ Active = Registered(HookIds) /\ Active \in SUBSET Hook
<1>1. /\ hooks \in Seq({0} \cup Hook) /\ address \in Seq(Address)
      /\ DOMAIN hooks = 1..Len(hooks) /\ DOMAIN address = 1..Len(hooks) /\ Len(hooks) \in Nat
      /\ \A i \in DOMAIN hooks : hooks[i] \in {0, i} /\ address[i] \in Address
  BY DEF Types, HookPlaces
<1>2. 0 \notin Address
  BY AddressAssumption
<1>3. \A i \in DOMAIN hooks : /\ HookIds[i] = IF hooks[i] = 0 THEN 0 ELSE address[i]
                              /\ HookIds[i] \in Address \cup {0}
                              /\ HookIds[i] = 0 <=> hooks[i] = 0
  BY <1>1, <1>2 DEF HookIds
<1>4. DOMAIN HookIds = 1..Len(hooks)
  BY <1>1 DEF HookIds
<1>5. HookIds \in [1..Len(hooks) -> Address \cup {0}]
  BY <1>1, <1>3 DEF HookIds
<1>6. HookIds \in Seq(Address \cup {0})
  BY <1>1, <1>5
<1>7. Active = {i \in DOMAIN hooks : hooks[i] # 0}
  BY <1>1 DEF Active, ToSet
<1>8. Active = Registered(HookIds)
  BY <1>1, <1>3, <1>4, <1>7 DEF Registered
<1>9. Active \subseteq Hook
  BY <1>1 DEF Active, ToSet
<1> QED  BY <1>6, <1>8, <1>9

(***************************************************************************)
(* Keys of the cache, and the closure that a program is parsed with.       *)
(***************************************************************************)
LEMMA ConstsFacts ==
    ASSUME NEW keys \in SUBSET Name, NEW gv \in Globals
    PROVE  [c \in keys \cap Const |-> gv[c]] \in Consts
<1> DEFINE S == keys \cap Const
<1>1. S \in SUBSET Const
  OBVIOUS
<1>2. [c \in S |-> gv[c]] \in [S -> Value]
  BY DEF Globals, Held, Name
<1> QED  BY <1>1, <1>2 DEF Consts

LEMMA KeyFacts ==
    ASSUME Types, HookPlaces, NEW t \in Type, NEW keys \in SUBSET Name,
           NEW mapping \in [keys \cap Array -> Binding], NEW gv \in Globals,
           NEW k, k = MakeKey(t, keys, mapping, gv)
    PROVE  /\ k \in Key /\ k.type = t /\ k.hooks = HookIds
           /\ k.consts = [c \in keys \cap Const |-> gv[c]]
           /\ DOMAIN k.consts = keys \cap Const
<1>1. [c \in keys \cap Const |-> gv[c]] \in Consts
  BY ConstsFacts
<1>2. [a \in keys \cap Array |-> Desc[mapping[a]]] \in Descs
  BY DEF Descs
<1>3. HookIds \in Seq(Address \cup {0})
  BY HookFacts
<1>4. k = [type |-> t, consts |-> [c \in keys \cap Const |-> gv[c]],
           arrays |-> [a \in keys \cap Array |-> Desc[mapping[a]]], hooks |-> HookIds]
  BY DEF MakeKey
<1> HIDE DEF HookIds
<1> QED  BY <1>1, <1>2, <1>3, <1>4 DEF Key

LEMMA ClosureFacts ==
    ASSUME NEW t \in Type, NEW gv \in Globals
    PROVE  /\ Closure(t, gv).keys = Uses[t] /\ Uses[t] \in SUBSET Name
           /\ Closure(t, gv).mapping \in [Uses[t] \cap Array -> Binding]
<1>1. Uses[t] \in SUBSET Name
  BY UsesAssumption
<1>2. \A a \in Uses[t] \cap Array : gv[a] \in Binding
  BY <1>1, UsesAssumption DEF Globals, Held
<1> QED  BY <1>1, <1>2 DEF Closure

LEMMA KeyOfFacts ==
    ASSUME Types, HookPlaces, NEW t \in Type, NEW gv \in Globals, NEW k, k = KeyOf(t, gv)
    PROVE  /\ k \in Key /\ k.type = t /\ k.hooks = HookIds
           /\ k.consts = [c \in Uses[t] \cap Const |-> gv[c]]
           /\ DOMAIN k.consts = Uses[t] \cap Const
<1>1. /\ Closure(t, gv).keys = Uses[t] /\ Uses[t] \in SUBSET Name
      /\ Closure(t, gv).mapping \in [Uses[t] \cap Array -> Binding]
  BY ClosureFacts
<1>2. k = MakeKey(t, Uses[t], Closure(t, gv).mapping, gv)
  BY <1>1 DEF KeyOf
<1> QED  BY <1>1, <1>2, KeyFacts

LEMMA CallKeyFacts ==
    ASSUME Types, HookPlaces, NEW t \in Type, NEW k, k = CallKey(t)
    PROVE  /\ k \in Key /\ k.type = t /\ k.hooks = HookIds
           /\ k.consts = [c \in closure_keys \cap Const |-> globals[c]]
           /\ DOMAIN k.consts = closure_keys \cap Const
<1>1. /\ closure_keys \in SUBSET Name /\ arg_mapping \in [closure_keys \cap Array -> Binding]
      /\ globals \in Globals
  BY DEF Types
<1> QED  BY SMTT(30), <1>1, KeyFacts DEF CallKey

(***************************************************************************)
(* The program for types and a closure, parsed or taken from the cache.    *)
(***************************************************************************)
LEMMA GetFacts ==
    ASSUME Types, NEW key, Has(key)
    PROVE  \E i \in DOMAIN cache : /\ Get(key) = cache[i] /\ cache[i].key = key
                                   /\ cache[i] \in Entry
<1>1. \E i \in DOMAIN cache : cache[i].key = key
  BY DEF Has
<1> DEFINE i == CHOOSE i \in DOMAIN cache : cache[i].key = key
<1>2. i \in DOMAIN cache /\ cache[i].key = key
  BY <1>1
<1>3. Get(key) = cache[i]
  BY DEF Get
<1>4. \A j \in DOMAIN cache : cache[j] \in Entry
  BY DEF Types
<1> QED  BY <1>2, <1>3, <1>4

LEMMA FreshFacts ==
    ASSUME NEW t \in Type, NEW gv \in Globals, NEW p,
           p = Fresh(t, gv) \/ p = [Fresh(t, gv) EXCEPT !.origin = "loaded"]
    PROVE  /\ p \in SDFG /\ p.type = t /\ RewrittenBy(p) = {}
           /\ p.consts = [c \in Uses[t] \cap Const |-> gv[c]]
<1>1. [c \in Uses[t] \cap Const |-> gv[c]] \in Consts
  BY UsesAssumption, ConstsFacts
<1>2. Fresh(t, gv) \in SDFG
  BY <1>1 DEF Fresh, SDFG
<1>3. /\ Fresh(t, gv).type = t /\ Fresh(t, gv).hooks = [h \in Hook |-> 0]
      /\ Fresh(t, gv).consts = [c \in Uses[t] \cap Const |-> gv[c]]
  BY DEF Fresh
<1> HIDE DEF Fresh
<1>4. p \in SDFG /\ p.type = t /\ p.hooks = [h \in Hook |-> 0] /\ p.consts = Fresh(t, gv).consts
  BY <1>2, <1>3 DEF SDFG
<1>5. RewrittenBy(p) = {}
  BY <1>4 DEF RewrittenBy
<1> QED  BY <1>3, <1>4, <1>5

LEMMA ParsedFacts ==
    ASSUME Types, HookPlaces, Entries, NEW t \in Type, NEW gv \in Globals,
           NEW p, p = Parsed(t, gv)
    PROVE  /\ p \in SDFG /\ p.type = t /\ RewrittenBy(p) \subseteq Active
           /\ p.consts = [c \in Uses[t] \cap Const |-> gv[c]]
<1> DEFINE k == KeyOf(t, gv)
<1>1. /\ k.type = t /\ k.hooks = HookIds
      /\ k.consts = [c \in Uses[t] \cap Const |-> gv[c]]
      /\ DOMAIN k.consts = Uses[t] \cap Const
  BY KeyOfFacts
<1>2. Active = Registered(HookIds)
  BY HookFacts
<1> HIDE DEF k
<1>3. CASE Has(k)
  <2>1. PICK i \in DOMAIN cache : Get(k) = cache[i] /\ cache[i].key = k /\ cache[i] \in Entry
    BY <1>3, GetFacts
  <2>2. p = cache[i].prog
    BY <1>3, <2>1 DEF Parsed, k
  <2>3. Correct(cache[i])
    BY DEF Entries
  <2> QED  BY <1>1, <1>2, <2>1, <2>2, <2>3 DEF Correct, SameConstants, Entry
<1>4. CASE ~Has(k)
  <2>1. p = Fresh(t, gv)
    BY <1>4 DEF Parsed, k
  <2> QED  BY <2>1, FreshFacts
<1> QED  BY <1>3, <1>4

LEMMA HookedFacts ==
    ASSUME Types, HookPlaces, NEW p \in SDFG, RewrittenBy(p) \subseteq Active, NEW q, q = Hooked(p)
    PROVE  /\ q \in SDFG /\ q.type = p.type /\ q.consts = p.consts /\ RewrittenBy(q) = Active
<1>1. Active \in SUBSET Hook
  BY HookFacts
<1>2. p.hooks \in [Hook -> Nat]
  BY DEF SDFG
<1>3. /\ Rewritten(p.hooks) \in [Hook -> Nat]
      /\ \A h \in Hook : Rewritten(p.hooks)[h] > 0 <=> h \in Active \/ p.hooks[h] > 0
  <2> HIDE DEF Active
  <2> QED  BY <1>2 DEF Rewritten
<1>4. q \in SDFG /\ q.type = p.type /\ q.consts = p.consts /\ q.hooks = Rewritten(p.hooks)
  BY <1>3 DEF Hooked, SDFG
<1>5. RewrittenBy(q) = Active
  <2> HIDE DEF Active
  <2> QED  BY <1>1, <1>3, <1>4 DEF RewrittenBy
<1> QED  BY <1>4, <1>5

(***************************************************************************)
(* An entry that is added keeps the keys distinct and the cache bounded.   *)
(***************************************************************************)
LEMMA AddFacts ==
    ASSUME Types, Entries, NEW key \in Key, NEW prog \in SDFG, NEW compiled \in BOOLEAN,
           Correct([key |-> key, prog |-> prog, compiled |-> compiled]),
           Add(key, prog, compiled), size' = size
    PROVE  cache' \in Seq(Entry) /\ Entries'
<1> DEFINE e == [key |-> key, prog |-> prog, compiled |-> compiled]
           n == Len(cache)
<1>0. /\ cache \in Seq(Entry) /\ n \in Nat /\ DOMAIN cache = 1..n /\ size \in Nat
      /\ \A i \in 1..n : cache[i] \in Entry /\ Correct(cache[i])
      /\ Distinct /\ (size # 0 => n <= size)
  BY SizesAssumption DEF Types, Entries, Bounded
<1>1. e \in Entry /\ Correct(e) /\ e.key = key
  BY DEF Entry
<1> HIDE DEF e
<1>2. CASE Has(key)
  <2>1. cache' = [i \in DOMAIN cache |-> IF cache[i].key = key THEN e ELSE cache[i]]
    BY <1>2 DEF Add, e
  <2>2. cache' \in [1..n -> Entry] /\ \A i \in 1..n : Correct(cache'[i]) /\ cache'[i].key = cache[i].key
    BY <1>0, <1>1, <2>1
  <2>3. cache' \in Seq(Entry) /\ Len(cache') = n /\ DOMAIN cache' = 1..n
    BY <1>0, <2>2
  <2>4. Distinct'
    BY <1>0, <2>2, <2>3 DEF Distinct
  <2> QED  BY <1>0, <2>2, <2>3, <2>4 DEF Entries, Bounded
<1>3. CASE ~Has(key)
  <2> DEFINE c == Append(cache, e)
  <2>1. /\ c \in Seq(Entry) /\ Len(c) = n + 1 /\ DOMAIN c = 1..(n + 1)
        /\ \A i \in 1..n : c[i] = cache[i]
        /\ c[n + 1] = e
    BY <1>0, <1>1
  <2>2. \A i \in 1..(n + 1) : Correct(c[i])
    <3> TAKE i \in 1..(n + 1)
    <3>1. i \in 1..n \/ i = n + 1
      BY <1>0
    <3> HIDE DEF c
    <3> QED  BY <1>0, <1>1, <2>1, <3>1
  <2>3. \A i, j \in 1..(n + 1) : c[i].key = c[j].key => i = j
    <3> SUFFICES ASSUME NEW i \in 1..(n + 1), NEW j \in 1..(n + 1), c[i].key = c[j].key
                 PROVE  i = j
      OBVIOUS
    <3> HIDE DEF c
    <3>1. \A m \in 1..n : cache[m].key # key
      BY <1>0, <1>3 DEF Has
    <3>2. /\ i \in 1..n \/ i = n + 1
          /\ j \in 1..n \/ j = n + 1
      BY <1>0
    <3>3. CASE i \in 1..n /\ j \in 1..n
      BY <1>0, <2>1, <3>3 DEF Distinct
    <3> QED  BY <1>1, <2>1, <3>1, <3>2, <3>3
  <2>4. cache' = IF size # 0 /\ n + 1 > size THEN SubSeq(c, (n + 1) - size + 1, n + 1) ELSE c
    <3>1. cache' = CheckSizeLimit(c)
      BY <1>3 DEF Add, e
    <3>2. Len(c) = n + 1
      BY <2>1
    <3> HIDE DEF c, n
    <3>3. CheckSizeLimit(c) = IF size # 0 /\ Len(c) > size
                              THEN SubSeq(c, Len(c) - size + 1, Len(c)) ELSE c
      BY DEF CheckSizeLimit
    <3> QED  BY <3>1, <3>2, <3>3
  <2> HIDE DEF c, n
  <2>5. CASE size # 0 /\ n + 1 > size
    <3> DEFINE a == (n + 1) - size
    <3>1. a \in Nat /\ a + size = n + 1 /\ cache' = SubSeq(c, a + 1, n + 1)
      <4>1. cache' = SubSeq(c, a + 1, n + 1)
        BY <2>4, <2>5
      <4>2. n \in Nat /\ size \in Nat
        BY <1>0
      <4> QED  BY <2>5, <4>1, <4>2
    <3> HIDE DEF a
    <3>2. cache' \in Seq(Entry) /\ Len(cache') = size /\ \A i \in 1..size : cache'[i] = c[i + a]
      BY <1>0, <2>1, <3>1, <2>5
    <3>3. \A i \in 1..size : i + a \in 1..(n + 1)
      BY <1>0, <3>1
    <3>4. DOMAIN cache' = 1..size
      BY <3>2
    <3>5. \A i \in 1..size : Correct(cache'[i])
      BY <2>2, <3>2, <3>3
    <3>6. \A i, j \in 1..size : cache'[i].key = cache'[j].key => i = j
      <4> SUFFICES ASSUME NEW i \in 1..size, NEW j \in 1..size, cache'[i].key = cache'[j].key
                   PROVE  i = j
        OBVIOUS
      <4>1. i + a = j + a
        BY <2>3, <3>2, <3>3
      <4> QED  BY <1>0, <3>1, <4>1
    <3> QED  BY <1>0, <3>2, <3>4, <3>5, <3>6 DEF Entries, Distinct, Bounded
  <2>6. CASE ~(size # 0 /\ n + 1 > size)
    <3>1. cache' = c /\ (size # 0 => n + 1 <= size)
      BY <1>0, <2>4, <2>6
    <3> QED  BY <2>1, <2>2, <2>3, <3>1 DEF Entries, Distinct, Bounded
  <2> QED  BY <2>5, <2>6
<1> QED  BY <1>2, <1>3

(***************************************************************************)
(* Every operation keeps the invariant.                                    *)
(***************************************************************************)
LEMMA SetClosureFacts ==
    ASSUME NEW t \in Type, NEW gv \in Globals, SetClosure(t, gv)
    PROVE  closure_keys' \in SUBSET Name /\ arg_mapping' \in [closure_keys' \cap Array -> Binding]
  BY ClosureFacts DEF SetClosure

LEMMA HooksKept ==
    ASSUME HookPlaces, UNCHANGED <<hooks, address, open>>
    PROVE  HookPlaces'
  BY DEF HookPlaces, Active

LEMMA EntriesKept ==
    ASSUME Entries, UNCHANGED <<cache, size>>
    PROVE  Entries'
  BY DEF Entries, Distinct, Bounded

LEMMA CallHitInv ==
    ASSUME Inv, NEW t \in Type, CallHit(t)
    PROVE  Inv'
<1> DEFINE k == CallKey(t)
<1>0. Types /\ HookPlaces /\ Entries
  BY DEF Inv
<1>1. /\ Has(k) /\ Get(k).compiled /\ global_vars' = globals
      /\ Ran(t, Get(k).prog, arg_mapping)
      /\ UNCHANGED <<size, globals, closure_keys, arg_mapping, hooks, address, open, cache>>
  BY DEF CallHit, CallHits
<1>2. /\ k.type = t /\ k.hooks = HookIds
      /\ k.consts = [c \in closure_keys \cap Const |-> globals[c]]
      /\ DOMAIN k.consts = closure_keys \cap Const
  BY <1>0, CallKeyFacts
<1>3. Active = Registered(HookIds)
  BY <1>0, HookFacts
<1> HIDE DEF k
<1>4. PICK i \in DOMAIN cache : Get(k) = cache[i] /\ cache[i].key = k
  BY <1>0, <1>1, GetFacts
<1>5. Correct(cache[i]) /\ cache[i].compiled
  BY <1>0, <1>1, <1>4 DEF Entries
<1> DEFINE p == Get(k).prog
<1>6. /\ p.type = t /\ p.consts = [c \in Uses[t] \cap Const |-> globals[c]]
      /\ p.origin = "parsed" => RewrittenBy(p) = Active
  BY <1>2, <1>3, <1>4, <1>5 DEF Correct, SameConstants
<1>7. CallIsCurrent'
  <2> HIDE DEF p
  <2>1. last' = [type |-> t, prog |-> p, arrays |-> arg_mapping,
                 closure |-> [n \in Uses[t] |-> globals[n]], hooks |-> Active]
    BY <1>1 DEF Ran, p
  <2> HIDE DEF Active
  <2> QED  BY <1>6, <2>1 DEF CallIsCurrent
<1>8. Types'
  BY <1>0, <1>1 DEF Types
<1> QED  BY <1>0, <1>1, <1>7, <1>8, HooksKept, EntriesKept DEF Inv

LEMMA CallMissInv ==
    ASSUME Inv, NEW t \in Type, CallMiss(t)
    PROVE  Inv'
<1> DEFINE k == KeyOf(t, globals)
           p == Parsed(t, globals)
           q == Hooked(p)
           m == Closure(t, globals).mapping
<1>0. Types /\ HookPlaces /\ Entries /\ globals \in Globals
  BY DEF Inv, Types
<1>1. /\ global_vars' = globals /\ SetClosure(t, globals)
      /\ Add(k, q, TRUE) /\ Ran(t, q, m)
      /\ UNCHANGED <<size, globals, hooks, address, open>>
  BY DEF CallMiss
<1>2. /\ k \in Key /\ k.type = t /\ k.hooks = HookIds
      /\ k.consts = [c \in Uses[t] \cap Const |-> globals[c]]
      /\ DOMAIN k.consts = Uses[t] \cap Const
  BY <1>0, KeyOfFacts
<1>3. Active = Registered(HookIds)
  BY <1>0, HookFacts
<1>4. /\ p \in SDFG /\ p.type = t /\ RewrittenBy(p) \subseteq Active
      /\ p.consts = [c \in Uses[t] \cap Const |-> globals[c]]
  BY <1>0, ParsedFacts
<1> HIDE DEF k, p, m
<1>5. /\ q \in SDFG /\ q.type = t /\ RewrittenBy(q) = Active
      /\ q.consts = [c \in Uses[t] \cap Const |-> globals[c]]
  BY <1>0, <1>4, HookedFacts
<1> HIDE DEF q
<1>6. Correct([key |-> k, prog |-> q, compiled |-> TRUE])
  BY <1>2, <1>3, <1>5 DEF Correct, SameConstants
<1>7. cache' \in Seq(Entry) /\ Entries'
  BY <1>0, <1>1, <1>2, <1>5, <1>6, AddFacts
<1>8. Types'
  BY <1>0, <1>1, <1>7, SetClosureFacts DEF Types
<1>9. CallIsCurrent'
  <2>1. last' = [type |-> t, prog |-> q, arrays |-> m,
                 closure |-> [n \in Uses[t] |-> globals[n]], hooks |-> Active]
    BY <1>1 DEF Ran
  <2> HIDE DEF Active
  <2> QED  BY <1>5, <2>1 DEF CallIsCurrent
<1> QED  BY <1>0, <1>1, <1>7, <1>8, <1>9, HooksKept DEF Inv

LEMMA CallFailsInv ==
    ASSUME Inv, NEW t \in Type, CallFails(t)
    PROVE  Inv'
<1>0. Types /\ HookPlaces /\ Entries /\ globals \in Globals
  BY DEF Inv, Types
<1>1. /\ global_vars' = globals /\ SetClosure(t, globals) /\ last' = NoCall
      /\ UNCHANGED <<size, globals, hooks, address, open, cache>>
  BY DEF CallFails
<1>2. Types'
  BY <1>0, <1>1, SetClosureFacts DEF Types
<1> QED  BY <1>0, <1>1, <1>2, HooksKept, EntriesKept DEF Inv, CallIsCurrent

LEMMA ToSDFGInv ==
    ASSUME Inv, NEW t \in Type, ToSDFG(t)
    PROVE  Inv'
<1>0. Types /\ HookPlaces /\ Entries /\ global_vars \in Globals
  BY DEF Inv, Types
<1>1. /\ SetClosure(t, global_vars)
      /\ UNCHANGED <<size, globals, global_vars, hooks, address, open, cache, last>>
  BY DEF ToSDFG
<1>2. Types'
  BY <1>0, <1>1, SetClosureFacts DEF Types
<1> QED  BY <1>0, <1>1, <1>2, HooksKept, EntriesKept DEF Inv, CallIsCurrent

LEMMA ToSDFGCachedInv ==
    ASSUME Inv, NEW t \in Type, ToSDFGCached(t)
    PROVE  Inv'
<1> DEFINE k == CallKey(t)
           p == Parsed(t, globals)
<1>0. Types /\ HookPlaces /\ Entries /\ globals \in Globals
  BY DEF Inv, Types
<1>1. /\ global_vars' = globals
      /\ UNCHANGED <<size, globals, hooks, address, open, last>>
      /\ \/ UNCHANGED <<closure_keys, arg_mapping, cache>>
         \/ SetClosure(t, globals) /\ Add(k, p, FALSE)
  BY DEF ToSDFGCached
<1>2. CASE UNCHANGED <<closure_keys, arg_mapping, cache>>
  <2>1. Types'
    BY <1>0, <1>1, <1>2 DEF Types
  <2> QED  BY <1>0, <1>1, <1>2, <2>1, HooksKept, EntriesKept DEF Inv, CallIsCurrent
<1>3. CASE SetClosure(t, globals) /\ Add(k, p, FALSE)
  <2>1. /\ k \in Key /\ k.type = t /\ k.hooks = HookIds
        /\ k.consts = [c \in closure_keys \cap Const |-> globals[c]]
        /\ DOMAIN k.consts = closure_keys \cap Const
    BY <1>0, CallKeyFacts
  <2>2. Active = Registered(HookIds)
    BY <1>0, HookFacts
  <2>3. /\ p \in SDFG /\ p.type = t /\ RewrittenBy(p) \subseteq Active
        /\ p.consts = [c \in Uses[t] \cap Const |-> globals[c]]
    BY <1>0, ParsedFacts
  <2> HIDE DEF k, p
  <2>4. Correct([key |-> k, prog |-> p, compiled |-> FALSE])
    BY <2>1, <2>2, <2>3 DEF Correct, SameConstants
  <2>5. cache' \in Seq(Entry) /\ Entries'
    BY <1>0, <1>1, <1>3, <2>1, <2>3, <2>4, AddFacts
  <2>6. Types'
    BY <1>0, <1>1, <1>3, <2>5, SetClosureFacts DEF Types
  <2> QED  BY <1>0, <1>1, <2>5, <2>6, HooksKept DEF Inv, CallIsCurrent
<1> QED  BY <1>1, <1>2, <1>3

LEMMA LoadInv ==
    ASSUME Inv, NEW t \in Type, NEW compiled \in BOOLEAN, Load(t, compiled)
    PROVE  Inv'
<1> DEFINE k == KeyOf(t, global_vars)
           p == Loaded(t)
<1>0. Types /\ HookPlaces /\ Entries /\ global_vars \in Globals
  BY DEF Inv, Types
<1>1. /\ SetClosure(t, global_vars) /\ Add(k, p, compiled)
      /\ UNCHANGED <<size, globals, global_vars, hooks, address, open, last>>
  BY DEF Load
<1>2. /\ k \in Key /\ k.type = t /\ k.consts = [c \in Uses[t] \cap Const |-> global_vars[c]]
      /\ DOMAIN k.consts = Uses[t] \cap Const
  BY <1>0, KeyOfFacts
<1>3. /\ p \in SDFG /\ p.type = t /\ RewrittenBy(p) = {}
      /\ p.consts = [c \in Uses[t] \cap Const |-> global_vars[c]]
  BY <1>0, FreshFacts DEF Loaded
<1>4. p.origin = "loaded"
  BY DEF Loaded, Fresh
<1> HIDE DEF k, p
<1>5. Correct([key |-> k, prog |-> p, compiled |-> compiled])
  BY <1>2, <1>3, <1>4 DEF Correct, SameConstants
<1>6. cache' \in Seq(Entry) /\ Entries'
  BY <1>0, <1>1, <1>2, <1>3, <1>5, AddFacts
<1>7. Types'
  BY <1>0, <1>1, <1>6, SetClosureFacts DEF Types
<1> QED  BY <1>0, <1>1, <1>6, <1>7, HooksKept DEF Inv, CallIsCurrent

LEMMA ClearInv ==
    ASSUME Inv, Clear
    PROVE  Inv'
<1>0. Types /\ HookPlaces
  BY DEF Inv
<1>1. /\ cache' = <<>>
      /\ UNCHANGED <<size, globals, global_vars, closure_keys, arg_mapping, hooks, address,
                     open, last>>
  BY DEF Clear
<1>2. Types'
  BY <1>0, <1>1 DEF Types
<1>3. Entries'
  BY <1>0, <1>1, SizesAssumption DEF Types, Entries, Distinct, Bounded
<1> QED  BY <1>0, <1>1, <1>2, <1>3, HooksKept DEF Inv, CallIsCurrent

LEMMA RegisterInv ==
    ASSUME Inv, NEW a \in Address, Register(a)
    PROVE  Inv'
<1> DEFINE n == Len(hooks)
           m == n + 1
<1>0. /\ Types /\ HookPlaces /\ Entries
      /\ hooks \in Seq({0} \cup Hook) /\ address \in Seq(Address) /\ n \in Nat
      /\ DOMAIN hooks = 1..n /\ Len(address) = n
  BY DEF Inv, Types, HookPlaces
<1>1. /\ n < MaxHooks /\ address' = Append(address, a) /\ hooks' = Append(hooks, Len(address'))
      /\ open' = [h \in DOMAIN open \cup {Len(address')} |->
                     IF h = Len(address') THEN Len(hooks') ELSE open[h]]
      /\ UNCHANGED <<size, globals, global_vars, closure_keys, arg_mapping, cache, last, ops>>
  BY <1>0 DEF Register
<1>2. /\ address' \in Seq(Address) /\ Len(address') = m
      /\ hooks' = Append(hooks, m) /\ m \in Hook /\ m # 0
  BY <1>0, <1>1, BoundAssumption DEF Hook
<1>3. /\ hooks' \in Seq({0} \cup Hook) /\ Len(hooks') = m /\ DOMAIN hooks' = 1..n \cup {m}
      /\ \A i \in 1..n : hooks'[i] = hooks[i]
      /\ hooks'[m] = m
  BY <1>0, <1>2
<1>4. open' = [h \in DOMAIN open \cup {m} |-> IF h = m THEN m ELSE open[h]]
  BY <1>1, <1>2, <1>3
<1> HIDE DEF m
<1>5. Active' = Active \cup {m}
  BY <1>0, <1>2, <1>3 DEF Active, ToSet
<1>6. Types'
  BY <1>0, <1>1, <1>2, <1>3 DEF Types
<1>7. HookPlaces'
  <2>1. Len(hooks') = Len(address') /\ Len(hooks') <= MaxHooks
    BY <1>0, <1>1, <1>2, <1>3, BoundAssumption DEF m
  <2>2. \A i \in DOMAIN hooks' : hooks'[i] \in {0, i}
    BY <1>0, <1>3 DEF HookPlaces
  <2>3. DOMAIN open' = Active' /\ \A h \in DOMAIN open' : open'[h] = h
    BY <1>0, <1>4, <1>5 DEF HookPlaces
  <2> QED  BY <2>1, <2>2, <2>3 DEF HookPlaces
<1> QED  BY <1>0, <1>1, <1>6, <1>7, EntriesKept DEF Inv, CallIsCurrent

LEMMA UnregisterInv ==
    ASSUME Inv, NEW h \in DOMAIN open, Unregister(h)
    PROVE  Inv'
<1>0. /\ Types /\ HookPlaces /\ Entries
      /\ hooks \in Seq({0} \cup Hook) /\ Len(hooks) \in Nat /\ DOMAIN hooks = 1..Len(hooks)
      /\ \A i \in DOMAIN hooks : hooks[i] \in {0, i}
  BY DEF Inv, Types, HookPlaces
<1>1. /\ hooks' = [hooks EXCEPT ![open[h]] = 0]
      /\ open' = [g \in DOMAIN open \ {h} |-> open[g]]
      /\ UNCHANGED <<size, globals, global_vars, closure_keys, arg_mapping, address, cache,
                     last, ops>>
  BY DEF Unregister
<1>2. open[h] = h /\ h \in Active
  BY <1>0 DEF HookPlaces
<1>3. h \in DOMAIN hooks /\ h # 0
  BY <1>0, <1>2 DEF Active, ToSet
<1>4. /\ hooks' \in Seq({0} \cup Hook) /\ Len(hooks') = Len(hooks) /\ DOMAIN hooks' = DOMAIN hooks
      /\ \A i \in DOMAIN hooks : hooks'[i] = IF i = h THEN 0 ELSE hooks[i]
  <2>1. hooks' = [hooks EXCEPT ![h] = 0]
    BY <1>1, <1>2
  <2> QED  BY <1>0, <1>3, <2>1
<1>5. Active' = Active \ {h}
  BY <1>0, <1>3, <1>4 DEF Active, ToSet
<1>6. Types'
  BY <1>0, <1>1, <1>4 DEF Types
<1>7. HookPlaces'
  <2>1. Len(hooks') = Len(address') /\ Len(hooks') <= MaxHooks
    BY <1>0, <1>1, <1>4 DEF HookPlaces
  <2>2. \A i \in DOMAIN hooks' : hooks'[i] \in {0, i}
    BY <1>0, <1>4
  <2>3. DOMAIN open' = Active' /\ \A g \in DOMAIN open' : open'[g] = g
    BY <1>0, <1>1, <1>5 DEF HookPlaces
  <2> QED  BY <2>1, <2>2, <2>3 DEF HookPlaces
<1> QED  BY <1>0, <1>1, <1>6, <1>7, EntriesKept DEF Inv, CallIsCurrent

LEMMA AssignInv ==
    ASSUME Inv, NEW n \in Name, NEW v \in Value \cup Binding, Assign(n, v)
    PROVE  Inv'
<1>0. Types /\ HookPlaces /\ Entries
  BY DEF Inv
<1>1. /\ v \in Held(n) /\ globals' = [globals EXCEPT ![n] = v]
      /\ UNCHANGED <<size, global_vars, closure_keys, arg_mapping, hooks, address, open, cache,
                     last, ops>>
  BY DEF Assign
<1>2. globals' \in Globals
  BY <1>0, <1>1 DEF Types, Globals
<1>3. Types'
  BY <1>0, <1>1, <1>2 DEF Types
<1> QED  BY <1>0, <1>1, <1>3, HooksKept, EntriesKept DEF Inv, CallIsCurrent

LEMMA InitInv ==
    ASSUME Init
    PROVE  Inv
<1>1. globals \in Globals /\ global_vars \in Globals
  BY DEF Init, Globals
<1>2. Types
  <2>1. arg_mapping \in [closure_keys \cap Array -> Binding]
    BY DEF Init, Nothing
  <2> QED  BY <1>1, <2>1 DEF Init, Types
<1>3. HookPlaces
  BY BoundAssumption DEF Init, HookPlaces, Active, ToSet, Nothing
<1>4. Entries
  BY SizesAssumption DEF Init, Entries, Distinct, Bounded
<1>5. CallIsCurrent
  BY DEF Init, CallIsCurrent
<1> QED  BY <1>2, <1>3, <1>4, <1>5 DEF Inv

LEMMA NextInv ==
    ASSUME Inv, [Next]_vars
    PROVE  Inv'
<1>1. CASE UNCHANGED vars
  <2>1. Types'
    BY <1>1 DEF vars, Inv, Types
  <2> QED  BY <1>1, <2>1, HooksKept, EntriesKept DEF vars, Inv, CallIsCurrent
<1>2. ASSUME NEW t \in Type,
             CallHit(t) \/ CallMiss(t) \/ CallFails(t) \/ ToSDFG(t) \/ ToSDFGCached(t)
      PROVE  Inv'
  BY <1>2, CallHitInv, CallMissInv, CallFailsInv, ToSDFGInv, ToSDFGCachedInv
<1>3. ASSUME NEW t \in Type, NEW compiled \in BOOLEAN, Load(t, compiled)
      PROVE  Inv'
  BY <1>3, LoadInv
<1>4. CASE Clear
  BY <1>4, ClearInv
<1>5. ASSUME NEW a \in Address, Register(a)
      PROVE  Inv'
  BY <1>5, RegisterInv
<1>6. ASSUME NEW h \in DOMAIN open, Unregister(h)
      PROVE  Inv'
  BY <1>6, UnregisterInv
<1>7. ASSUME NEW n \in Name, NEW v \in Value \cup Binding, Assign(n, v)
      PROVE  Inv'
  BY <1>7, AssignInv
<1> QED  BY <1>1, <1>2, <1>3, <1>4, <1>5, <1>6, <1>7 DEF Next

LEMMA Invariance == Spec => []Inv
<1>1. Init => Inv
  BY InitInv
<1>2. Inv /\ [Next]_vars => Inv'
  BY NextInv
<1> QED  BY <1>1, <1>2, PTL DEF Spec

(***************************************************************************)
(* The variables of the cache have their types, and no two entries have    *)
(* the same key: an entry replaces the one with its key.                   *)
(***************************************************************************)
THEOREM CacheTypeCorrect == Spec => []TypeOK
<1>1. ASSUME Inv PROVE TypeOK
  <2>1. Types /\ Distinct
    BY <1>1 DEF Inv, Entries
  <2>2. \A i \in DOMAIN cache : cache[i] \in Entry
    BY <2>1 DEF Types
  <2>3. \A i \in DOMAIN cache : Program(cache[i].prog) /\ cache[i].compiled \in BOOLEAN
    BY <2>2 DEF Entry, SDFG, Program, Consts
  <2> QED  BY <2>1, <2>3 DEF TypeOK, Types, Globals, Distinct
<1> QED  BY <1>1, Invariance, PTL

(***************************************************************************)
(* A size that is given bounds the cache, whichever operations add to it.  *)
(***************************************************************************)
THEOREM CacheBounded == Spec => []Bounded
<1>1. Inv => Bounded
  BY DEF Inv, Entries
<1> QED  BY <1>1, Invariance, PTL

(***************************************************************************)
(* The hooks that run are those that were registered and not removed, and  *)
(* the identifier of each leads to it, in whatever order others go.        *)
(***************************************************************************)
THEOREM CacheHooksAreOpen == Spec => []HooksAreOpen
<1>1. ASSUME Inv PROVE HooksAreOpen
  <2>1. Active = DOMAIN open /\ \A h \in DOMAIN open : open[h] = h
    BY <1>1 DEF Inv, HookPlaces
  <2>2. \A h \in Active : h \in DOMAIN hooks /\ hooks[h] = h
    BY <1>1 DEF Inv, HookPlaces, Active, ToSet
  <2> QED  BY <2>1, <2>2 DEF HooksAreOpen
<1> QED  BY <1>1, Invariance, PTL

(***************************************************************************)
(* __call__ runs a program for the types of its arguments and the present  *)
(* constants of its closure; unless it was loaded, the hooks that rewrote  *)
(* it, each at least once, are those registered now, although addresses    *)
(* are given out again.                                                    *)
(***************************************************************************)
THEOREM CacheCallIsCurrent == Spec => []CallIsCurrent
<1>1. Inv => CallIsCurrent
  BY DEF Inv
<1> QED  BY <1>1, Invariance, PTL
=============================================================================
