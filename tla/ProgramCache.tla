---------------------------- MODULE ProgramCache ----------------------------
(***************************************************************************)
(* The cache of a @dace.program: DaceProgramCache and its keys, of         *)
(* dace/frontend/python/cached_program.py, as the methods of DaceProgram   *)
(* in dace/frontend/python/parser.py use it, with the hooks of             *)
(* dace/hooks.py that may rewrite the SDFG on its way to the compiler.     *)
(*                                                                         *)
(* The function reads some variables of its closure, which ones depends on *)
(* the types of its arguments: constants, whose values become part of the  *)
(* program, and arrays, which are passed to it and only their descriptors  *)
(* matter to it.  The user assigns to those variables between calls.       *)
(* SDFGs are always recreated (recreate_sdfg is true).                     *)
(***************************************************************************)
EXTENDS Naturals, SequencesExt, FiniteSets

CONSTANTS
    Type,      \* the combinations of argument types
    Const,     \* the constants of the closure
    Array,     \* the arrays of the closure
    Uses,      \* the variables that the function reads for given types
    Value,     \* the values of constants
    Binding,   \* the array objects an array variable may be bound to
    Desc,      \* the data descriptor of an array object
    Address,   \* the values of id() for hooks
    Sizes,     \* the size argument of the cache, 0 stands for None
    MaxHooks,  \* how many hooks are ever registered
    MaxOps     \* how many operations the user calls

Name == Const \cup Array
Held(n) == IF n \in Const THEN Value ELSE Binding

ASSUME UsesAssumption == Uses \in [Type -> SUBSET Name] /\ Const \cap Array = {}
ASSUME DescAssumption == Binding \subseteq DOMAIN Desc
ASSUME AddressAssumption == 0 \notin Address /\ IsFiniteSet(Address)
ASSUME SizesAssumption == Sizes \subseteq Nat
ASSUME BoundAssumption == MaxHooks \in Nat /\ MaxOps \in Nat

VARIABLES
    size,         \* the size that the cache was made with
    globals,      \* the variables of the closure, now
    global_vars,  \* the program's copy of them
    closure_keys, \* closure_constant_keys and closure_array_keys
    arg_mapping,  \* what closure_arg_mapping gives for the arrays
    hooks,        \* _SDFG_CALL_HOOKS: a hook's number, or 0 for None
    address,      \* id() of each hook that was registered
    open,         \* the hooks that the user has not unregistered
    cache,        \* the entries in the order of their insertion
    last,         \* the last call: what ran, and what should have
    ops

vars == <<size, globals, global_vars, closure_keys, arg_mapping, hooks, address, open,
          cache, last, ops>>

Nothing == [f \in {} |-> 0]
NoCall == [type |-> "none"]

Init ==
    /\ size \in Sizes
    /\ globals \in {g \in [Name -> Value \cup Binding] : \A n \in Name : g[n] \in Held(n)}
    /\ global_vars = globals
    /\ closure_keys = {}
    /\ arg_mapping = Nothing
    /\ hooks = <<>>
    /\ address = <<>>
    /\ open = Nothing
    /\ cache = <<>>
    /\ last = NoCall
    /\ ops = 0

Operation == ops < MaxOps /\ ops' = ops + 1

(***************************************************************************)
(* ProgramCacheKey: argument types, values of constants, descriptors of    *)
(* arrays and the ids of the hooks; id(None) is 0.                         *)
(***************************************************************************)
HookIds == [i \in DOMAIN hooks |-> IF hooks[i] = 0 THEN 0 ELSE address[hooks[i]]]

MakeKey(t, keys, mapping, gv) ==
    [type |-> t, consts |-> [c \in keys \cap Const |-> gv[c]],
     arrays |-> [a \in keys \cap Array |-> Desc[mapping[a]]], hooks |-> HookIds]

(***************************************************************************)
(* LimitedSizeDict: an entry with the same key is replaced where it is, a  *)
(* new one is added at the end, and the first ones make room.              *)
(***************************************************************************)
Has(key) == \E i \in DOMAIN cache : cache[i].key = key
Get(key) == cache[CHOOSE i \in DOMAIN cache : cache[i].key = key]

CheckSizeLimit(c) ==
    IF size # 0 /\ Len(c) > size THEN SubSeq(c, Len(c) - size + 1, Len(c)) ELSE c

AddUnchecked(key, prog, compiled) ==                               \* mutant
    cache' = Append(cache, [key |-> key, prog |-> prog, compiled |-> compiled])

Add(key, prog, compiled) ==
    LET e == [key |-> key, prog |-> prog, compiled |-> compiled]
    IN  cache' = IF Has(key) THEN [i \in DOMAIN cache |-> IF cache[i].key = key THEN e ELSE cache[i]]
                 ELSE CheckSizeLimit(Append(cache, e))

(***************************************************************************)
(* _parse: the program for the types and the closure.  It leaves the keys  *)
(* of its closure behind, and arrays as its copy of the globals has them.  *)
(* An SDFG that the cache has for it is taken instead.                     *)
(***************************************************************************)
Closure(t, gv) == [keys |-> Uses[t], mapping |-> [a \in Uses[t] \cap Array |-> gv[a]]]

SetClosure(t, gv) ==
    /\ closure_keys' = Closure(t, gv).keys
    /\ arg_mapping' = Closure(t, gv).mapping

KeyOf(t, gv) == MakeKey(t, Closure(t, gv).keys, Closure(t, gv).mapping, gv)

Hook == 1..MaxHooks

(* A program, with how often each hook has rewritten it. *)
Fresh(t, gv) ==
    [type |-> t, consts |-> [c \in Uses[t] \cap Const |-> gv[c]],
     hooks |-> [h \in Hook |-> 0], origin |-> "parsed"]

Parsed(t, gv) == IF Has(KeyOf(t, gv)) THEN Get(KeyOf(t, gv)).prog ELSE Fresh(t, gv)

(***************************************************************************)
(* invoke_sdfg_call_hooks: every hook that is left rewrites the SDFG, also *)
(* one that was taken from the cache and that it has rewritten already.    *)
(***************************************************************************)
Active == ToSet(hooks) \ {0}
Rewritten(times) == [h \in Hook |-> IF h \in Active THEN times[h] + 1 ELSE times[h]]
Hooked(prog) == [prog EXCEPT !.hooks = Rewritten(@)]

(***************************************************************************)
(* __call__: the key is first made with the keys of the last closure.  On  *)
(* a miss, or if only an SDFG is cached, the program is parsed, compiled   *)
(* within the hooks and cached under a key made anew.                      *)
(***************************************************************************)
CallKey(t) == MakeKey(t, closure_keys, arg_mapping, globals)
CallHits(t) == Has(CallKey(t)) /\ Get(CallKey(t)).compiled

Ran(t, prog, mapping) ==
    last' = [type |-> t, prog |-> prog, arrays |-> mapping,
             closure |-> [n \in Uses[t] |-> globals[n]], hooks |-> Active]

CallHit(t) ==
    /\ Operation
    /\ CallHits(t)
    /\ global_vars' = globals
    /\ Ran(t, Get(CallKey(t)).prog, arg_mapping)
    /\ UNCHANGED <<size, globals, closure_keys, arg_mapping, hooks, address, open, cache>>

CallUnderOldKey(t) ==                                              \* mutant
    /\ Operation
    /\ ~CallHits(t)
    /\ global_vars' = globals
    /\ SetClosure(t, globals)
    /\ Add(CallKey(t), Hooked(Parsed(t, globals)), TRUE)
    /\ Ran(t, Hooked(Parsed(t, globals)), Closure(t, globals).mapping)
    /\ UNCHANGED <<size, globals, hooks, address, open>>

CallMiss(t) ==
    /\ Operation
    /\ ~CallHits(t)
    /\ global_vars' = globals
    /\ SetClosure(t, globals)
    /\ Add(KeyOf(t, globals), Hooked(Parsed(t, globals)), TRUE)
    /\ Ran(t, Hooked(Parsed(t, globals)), Closure(t, globals).mapping)
    /\ UNCHANGED <<size, globals, hooks, address, open>>

(* Parsing, a hook or the compiler raises: the closure is set, no entry added. *)
CallFails(t) ==
    /\ Operation
    /\ ~CallHits(t)
    /\ global_vars' = globals
    /\ SetClosure(t, globals)
    /\ last' = NoCall
    /\ UNCHANGED <<size, globals, hooks, address, open, cache>>

(***************************************************************************)
(* to_sdfg, and compile, which like to_sdfg without the cache parses with  *)
(* the copy of the globals that it finds.  With the cache the entry is     *)
(* added under the key that was made before the program was parsed.        *)
(***************************************************************************)
ToSDFG(t) ==
    /\ Operation
    /\ SetClosure(t, global_vars)
    /\ UNCHANGED <<size, globals, global_vars, hooks, address, open, cache, last>>

ToSDFGCached(t) ==
    /\ Operation
    /\ global_vars' = globals
    /\ IF Has(CallKey(t))
       THEN UNCHANGED <<closure_keys, arg_mapping, cache>>
       ELSE SetClosure(t, globals) /\ Add(CallKey(t), Parsed(t, globals), FALSE)
    /\ UNCHANGED <<size, globals, hooks, address, open, last>>

(***************************************************************************)
(* load_sdfg and load_precompiled_sdfg: a program from elsewhere for these *)
(* types; the closure is resolved in the copy of the globals it finds.     *)
(***************************************************************************)
Loaded(t) == [Fresh(t, global_vars) EXCEPT !.origin = "loaded"]

Load(t, compiled) ==
    /\ Operation
    /\ SetClosure(t, global_vars)
    /\ Add(KeyOf(t, global_vars), Loaded(t), compiled)
    /\ UNCHANGED <<size, globals, global_vars, hooks, address, open, last>>

Clear ==
    /\ Operation
    /\ cache' = <<>>
    /\ UNCHANGED <<size, globals, global_vars, closure_keys, arg_mapping, hooks, address, open, last>>

(***************************************************************************)
(* Hooks.  The identifier of a hook is its place in the list; removing it  *)
(* leaves the place empty.  A hook that was removed is collected, and its  *)
(* address may be given to the next one.                                   *)
(***************************************************************************)
Register(a) ==
    /\ Len(address) < MaxHooks
    /\ a \notin {address[h] : h \in Active}
    /\ address' = Append(address, a)
    /\ hooks' = Append(hooks, Len(address'))
    /\ open' = [h \in DOMAIN open \cup {Len(address')} |->
                   IF h = Len(address') THEN Len(hooks') ELSE open[h]]
    /\ UNCHANGED <<size, globals, global_vars, closure_keys, arg_mapping, cache, last, ops>>

UnregisterDeletes(h) ==                                            \* mutant
    /\ h \in DOMAIN open /\ open[h] <= Len(hooks)
    /\ hooks' = RemoveAt(hooks, open[h])
    /\ open' = [g \in DOMAIN open \ {h} |-> open[g]]
    /\ UNCHANGED <<size, globals, global_vars, closure_keys, arg_mapping, address, cache, last, ops>>

Unregister(h) ==
    /\ h \in DOMAIN open /\ open[h] <= Len(hooks)
    /\ hooks' = [hooks EXCEPT ![open[h]] = 0]
    /\ open' = [g \in DOMAIN open \ {h} |-> open[g]]
    /\ UNCHANGED <<size, globals, global_vars, closure_keys, arg_mapping, address, cache, last, ops>>

(* The user assigns to a variable of the closure. *)
Assign(n, v) ==
    /\ v \in Held(n) \ {globals[n]}
    /\ globals' = [globals EXCEPT ![n] = v]
    /\ UNCHANGED <<size, global_vars, closure_keys, arg_mapping, hooks, address, open, cache, last, ops>>

Next ==
    \/ \E t \in Type : CallHit(t) \/ CallMiss(t) \/ CallFails(t) \/ ToSDFG(t) \/ ToSDFGCached(t)
    \/ \E t \in Type, compiled \in BOOLEAN : Load(t, compiled)
    \/ Clear
    \/ \E a \in Address : Register(a)
    \/ \E h \in DOMAIN open : Unregister(h)
    \/ \E n \in Name, v \in Value \cup Binding : Assign(n, v)

Spec == Init /\ [][Next]_vars
-----------------------------------------------------------------------------
Program(p) ==
    /\ p.type \in Type /\ p.consts \in UNION {[S -> Value] : S \in SUBSET Const}
    /\ p.hooks \in [Hook -> Nat] /\ p.origin \in {"parsed", "loaded"}

(***************************************************************************)
(* The variables have their types, and no two entries have the same key.   *)
(***************************************************************************)
TypeOK ==
    /\ globals \in [Name -> Value \cup Binding] /\ global_vars \in [Name -> Value \cup Binding]
    /\ closure_keys \subseteq Name
    /\ DOMAIN arg_mapping = closure_keys \cap Array
    /\ hooks \in Seq({0} \cup Hook) /\ address \in Seq(Address)
    /\ \A i \in DOMAIN cache : Program(cache[i].prog) /\ cache[i].compiled \in BOOLEAN
    /\ \A i, j \in DOMAIN cache : cache[i].key = cache[j].key => i = j

(***************************************************************************)
(* __call__ runs a program for the types of its arguments and the current  *)
(* values of the constants it uses, whatever was parsed, loaded, changed   *)
(* and failed before; unless it was loaded, the hooks that rewrote it are  *)
(* those that are registered now, although ids are given out again.  Each  *)
(* rewrote it at least once, but not just once.                            *)
(***************************************************************************)
RewrittenBy(p) == {h \in Hook : p.hooks[h] > 0}

CallIsCurrent ==
    last # NoCall =>
        /\ last.prog.type = last.type
        /\ last.prog.consts = [c \in Uses[last.type] \cap Const |-> last.closure[c]]
        /\ last.prog.origin = "parsed" => RewrittenBy(last.prog) = last.hooks

(***************************************************************************)
(* The hooks that run are those the user registered and did not remove,    *)
(* and the identifier of each still leads to it, in whatever order the     *)
(* others are removed.                                                     *)
(***************************************************************************)
HooksAreOpen ==
    /\ Active = DOMAIN open
    /\ \A h \in DOMAIN open : open[h] \in DOMAIN hooks /\ hooks[open[h]] = h

(***************************************************************************)
(* A size that is given bounds the cache.                                  *)
(***************************************************************************)
Bounded == size # 0 => Len(cache) <= size

(***************************************************************************)
(* "If data descriptor changes from compile time to call time, warn and    *)
(* recompile": a call is given the arrays that the closure has now.        *)
(***************************************************************************)
ArraysAreCurrent ==
    last # NoCall => last.arrays = [a \in Uses[last.type] \cap Array |-> last.closure[a]]
=============================================================================
