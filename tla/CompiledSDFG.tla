---------------------------- MODULE CompiledSDFG ----------------------------
(***************************************************************************)
(* The life of compiled programs: SDFG.compile of dace/sdfg/sdfg.py, the   *)
(* ReloadableDLL and CompiledSDFG classes of dace/codegen/compiled_sdfg.py *)
(* and the stub library dace/codegen/tools/dacestub.cpp that loads and     *)
(* unloads program libraries with dlopen and dlclose.                      *)
(*                                                                         *)
(* One process runs at a time, with a single thread; the build folder      *)
(* outlives it.  A program library is named by a sequence: <<i>> is the    *)
(* library of the i-th name that compile gives to the SDFG, and a further  *)
(* element is the number that load appends to the name of a copy.          *)
(***************************************************************************)
EXTENDS Naturals, Sequences, FiniteSets

CONSTANTS
    Object,       \* the CompiledSDFG objects
    Name,         \* the file names of libraries (bounds renames and copies)
    MaxCount,     \* the names that compile and load try
    MaxVersion,   \* how often the program is built
    MaxRestarts,  \* how often a new process begins
    MaxRefs,      \* the most references is_loaded is asked to add
    Environments  \* what may happen in an execution: disturbances, and a
                  \* bound on the objects that are made

ASSUME NameAssumption == Name \subseteq Seq(Nat) /\ \A n \in Name : Len(n) > 0
ASSUME BoundAssumption ==
    /\ MaxCount \in Nat /\ MaxVersion \in Nat /\ MaxRestarts \in Nat /\ MaxRefs \in Nat

(* Failing init functions, calls and exit functions, users that finalize   *)
(* what is not initialized, programs whose generated code is kept          *)
(* (regenerate_code is false), and processes that end.                     *)
Disturbance == {"init", "call", "exit", "finalize", "kept", "restart"}
ASSUME EnvironmentsAssumption ==
    Environments \subseteq [disturbed : SUBSET Disturbance, objects : Nat]

VARIABLES
    env,       \* what may happen in this execution
    disk,      \* the version in each library file, 0 if there is none
    refs,      \* dlopen's reference count of each library
    image,     \* the version mapped for each library with references
    obj,       \* the CompiledSDFG objects and their ReloadableDLLs
    native,    \* the last call into a library
    version,   \* the latest version that was built
    generated, \* the name that the code of each version was generated for
    restarts,  \* the number of processes that ended
    crashed    \* the process called unmapped code

vars == <<env, disk, refs, image, obj, native, version, generated, restarts, crashed>>

NoLib == <<>>     \* _lib of a ReloadableDLL that is not loaded

NoObject == [status |-> "new", fname |-> NoLib, lib |-> NoLib, bound |-> NoLib,
             ptrs |-> "none", initialized |-> FALSE, handle |-> "null", program |-> 0]

NoCall == [fn |-> "none", ptrs |-> "valid", handle |-> "state"]

Init ==
    /\ env \in Environments
    /\ disk = [n \in Name |-> 0]
    /\ refs = [n \in Name |-> 0]
    /\ image = [n \in Name |-> 0]
    /\ obj = [o \in Object |-> NoObject]
    /\ native = NoCall
    /\ version = 0
    /\ generated = [v \in 0..MaxVersion |-> 0]
    /\ restarts = 0
    /\ crashed = FALSE

New(o) ==
    /\ ~crashed /\ obj[o].status = "new"
    /\ Cardinality({q \in Object : obj[q].status # "new"}) < env.objects
Live(o) == obj[o].status = "live" /\ ~crashed
Mapped(n) == refs[n] > 0

(***************************************************************************)
(* is_library_loaded: dlopen with RTLD_NOLOAD takes a reference to a       *)
(* library that is loaded, and nobody gives it back.                       *)
(***************************************************************************)
ProbeOnly(S) == refs                                               \* mutant
Probe(S) == [n \in Name |-> IF n \in S /\ Mapped(n) THEN refs[n] + 1 ELSE refs[n]]

(* The loop that tries names until one is not loaded, after k that are. *)
Try(names, k) ==
    /\ \A j \in 0..k : names[j] \in Name
    /\ \A j \in 0..(k - 1) : Mapped(names[j])
    /\ ~Mapped(names[k])

(***************************************************************************)
(* ReloadableDLL.load: probe the library and its copies until one is not   *)
(* loaded.  Its file is written only if there is none of that name.        *)
(***************************************************************************)
CopyName(n, k) == IF k = 0 THEN n ELSE Append(n, k - 1)

LoadAnyway(n, k, files) == k = 0 /\ n \in Name                     \* mutant
CanLoad(n, k, files) ==
    Try([j \in 0..MaxCount |-> CopyName(n, j)], k) /\ files[n] # 0

Copied(n, k, files) ==
    IF files[CopyName(n, k)] = 0 THEN [files EXCEPT ![CopyName(n, k)] = files[n]] ELSE files

Load(n, k, files) ==
    /\ CanLoad(n, k, files)
    /\ disk' = Copied(n, k, files)
    /\ refs' = [Probe({CopyName(n, j) : j \in 0..(k - 1)}) EXCEPT ![CopyName(n, k)] = @ + 1]
    /\ image' = [image EXCEPT ![CopyName(n, k)] = disk'[CopyName(n, k)]]

(***************************************************************************)
(* CompiledSDFG.__init__: load the library and look up its functions.      *)
(***************************************************************************)
Construct(o, n, k, program) ==
    obj' = [obj EXCEPT ![o] =
        [NoObject EXCEPT !.status = "live", !.fname = CopyName(n, k), !.lib = CopyName(n, k),
                         !.bound = CopyName(n, k), !.ptrs = "valid", !.program = program]]

(***************************************************************************)
(* SDFG.compile, generating code: the SDFG is renamed until its library is *)
(* not loaded, built under that name, and loaded.                          *)
(***************************************************************************)
SDFGName(i) == <<i>>

CompileUnrenamed(o, i) ==                                          \* mutant
    /\ New(o) /\ version < MaxVersion /\ i = 0
    /\ version' = version + 1
    /\ UNCHANGED <<env, native, generated, restarts, crashed>>
    /\ \E k \in 0..MaxCount :
          /\ Load(SDFGName(0), k, [disk EXCEPT ![SDFGName(0)] = version'])
          /\ Construct(o, SDFGName(0), k, version')

Compile(o, i) ==
    /\ New(o) /\ version < MaxVersion
    /\ Try([j \in 0..MaxCount |-> SDFGName(j)], i)
    /\ version' = version + 1
    /\ generated' = [generated EXCEPT ![version'] = i]
    /\ disk' = [disk EXCEPT ![SDFGName(i)] = version']
    /\ refs' = [Probe({SDFGName(j) : j \in 0..(i - 1)}) EXCEPT ![SDFGName(i)] = @ + 1]
    /\ image' = [image EXCEPT ![SDFGName(i)] = version']
    /\ Construct(o, SDFGName(i), 0, version')
    /\ UNCHANGED <<env, native, restarts, crashed>>

(***************************************************************************)
(* get_program_handle: load the library of the SDFG's name and look up the *)
(* functions of that name.  If its code was generated for another name     *)
(* they are not there: an error is raised, and the object that was to be   *)
(* made is deleted with its library unloaded.                              *)
(***************************************************************************)
GetProgramHandle(o, i, k, files, program) ==
    \/ /\ Load(SDFGName(i), k, files)
       /\ generated'[disk'[CopyName(SDFGName(i), k)]] = i
       /\ Construct(o, SDFGName(i), k, program)
    \/ /\ CanLoad(SDFGName(i), k, files)
       /\ disk' = Copied(SDFGName(i), k, files)
       /\ generated'[disk'[CopyName(SDFGName(i), k)]] # i
       /\ refs' = Probe({CopyName(SDFGName(i), j) : j \in 0..(k - 1)})
       /\ obj' = [obj EXCEPT ![o].status = "deleted"]
       /\ UNCHANGED image

(***************************************************************************)
(* SDFG.compile with the code that is in the build folder, which the user  *)
(* may have edited: the SDFG is not renamed, so the library of its own     *)
(* name is built again whether or not it is mapped.                        *)
(***************************************************************************)
CompileKept(o, v, k) ==
    /\ New(o) /\ "kept" \in env.disturbed
    /\ version > 0 /\ v <= MaxVersion
    /\ version' = v
    /\ generated' = [generated EXCEPT ![v] = generated[version]]
    /\ GetProgramHandle(o, 0, k, [disk EXCEPT ![SDFGName(0)] = v], v)
    /\ UNCHANGED <<env, native, restarts, crashed>>

(* load_precompiled_sdfg, with the SDFG as the user has it, which is also  *)
(* what compile does with use_cache, or as it was saved with the code.     *)
LoadPrecompiled(o, i, k) ==
    /\ New(o)
    /\ UNCHANGED <<env, native, version, generated, restarts, crashed>>
    /\ GetProgramHandle(o, i, k, disk, disk[SDFGName(i)])

(* SDFG.is_loaded *)
IsLoaded(i) ==
    /\ ~crashed
    /\ SDFGName(i) \in Name /\ refs[SDFGName(i)] < MaxRefs
    /\ refs' = Probe({SDFGName(i)})
    /\ UNCHANGED <<env, disk, image, obj, native, version, generated, restarts, crashed>>

(***************************************************************************)
(* A call into a library.  The process does not survive one through a      *)
(* pointer into an unmapped library, and may survive one with a handle     *)
(* that is null or freed.                                                  *)
(***************************************************************************)
Invoke(o, fn, handle) ==
    /\ native' = [fn |-> fn, ptrs |-> obj[o].ptrs, handle |-> handle]
    /\ crashed' \in IF obj[o].ptrs = "valid" /\ (handle = "state" \/ fn = "init")
                    THEN {FALSE}
                    ELSE IF obj[o].ptrs = "dangling" THEN {TRUE} ELSE BOOLEAN

(***************************************************************************)
(* _initialize: what __dace_init returns.  The comparison of the result    *)
(* with a null pointer object compares identities and never holds.         *)
(***************************************************************************)
InitResult == {"state"} \cup (IF "init" \in env.disturbed THEN {"null"} ELSE {})

Initialized(r, h) == [r EXCEPT !.initialized = TRUE, !.handle = h]

Initialize(o, h) ==
    /\ Live(o) /\ ~obj[o].initialized
    /\ Invoke(o, "init", h)
    /\ obj' = [obj EXCEPT ![o] = Initialized(@, h)]
    /\ UNCHANGED <<env, disk, refs, image, version, generated, restarts>>

(***************************************************************************)
(* ReloadableDLL.unload, applied to the objects f.  When the last          *)
(* reference goes, the functions of the library are gone.                  *)
(***************************************************************************)
UnloadKeepsLib(f, o) ==                                            \* mutant
    LET n == f[o].lib
    IN  /\ refs' = IF n = NoLib THEN refs ELSE [refs EXCEPT ![n] = @ - 1]
        /\ image' = image
        /\ obj' = f

Unload(f, o) ==
    LET n == f[o].lib
        gone == n # NoLib /\ refs[n] = 1
        Closed(q) == IF gone /\ f[q].bound = n /\ f[q].ptrs = "valid"
                     THEN [f[q] EXCEPT !.ptrs = "dangling"] ELSE f[q]
    IN  /\ refs' = IF n = NoLib THEN refs ELSE [refs EXCEPT ![n] = @ - 1]
        /\ image' = IF gone THEN [image EXCEPT ![n] = 0] ELSE image
        /\ obj' = [q \in Object |-> IF q = o THEN [Closed(q) EXCEPT !.lib = NoLib]
                                             ELSE Closed(q)]

(***************************************************************************)
(* fast_call of a loaded program: initialize it if necessary and call it.  *)
(***************************************************************************)
Ready(o) == obj[o].initialized \/ obj[o].lib # NoLib

AfterInit(o, h) == IF obj[o].initialized THEN obj[o] ELSE Initialized(obj[o], h)

FastCall(o, h) ==
    /\ Live(o) /\ Ready(o)
    /\ Invoke(o, "program", AfterInit(o, h).handle)
    /\ obj' = [obj EXCEPT ![o] = AfterInit(o, h)]
    /\ UNCHANGED <<env, disk, refs, image, version, generated, restarts>>

(* An error on the GPU or in a hook: the library is unloaded. *)
FastCallFails(o, h) ==
    /\ Live(o) /\ Ready(o) /\ "call" \in env.disturbed
    /\ Invoke(o, "program", AfterInit(o, h).handle)
    /\ Unload([obj EXCEPT ![o] = AfterInit(o, h)], o)
    /\ UNCHANGED <<env, disk, version, generated, restarts>>

(***************************************************************************)
(* fast_call after the library was unloaded: it is loaded again, but the   *)
(* functions that were looked up in __init__ are called.                   *)
(***************************************************************************)
FastCallReloads(o, h, k) ==
    /\ Live(o) /\ ~Ready(o)
    /\ Load(obj[o].fname, k, disk)
    /\ Invoke(o, "program", h)
    /\ obj' = [obj EXCEPT ![o] =
          [Initialized(@, h) EXCEPT !.lib = CopyName(obj[o].fname, k),
                                    !.fname = CopyName(obj[o].fname, k)]]
    /\ UNCHANGED <<env, version, generated, restarts>>

(* The same with an error: what was loaded is unloaded. *)
FastCallReloadFails(o, h, k) ==
    /\ Live(o) /\ ~Ready(o) /\ "call" \in env.disturbed
    /\ CanLoad(obj[o].fname, k, disk)
    /\ disk' = Copied(obj[o].fname, k, disk)
    /\ refs' = Probe({CopyName(obj[o].fname, j) : j \in 0..(k - 1)})
    /\ Invoke(o, "program", h)
    /\ obj' = [obj EXCEPT ![o] =
          [Initialized(@, h) EXCEPT !.fname = CopyName(obj[o].fname, k)]]
    /\ UNCHANGED <<env, image, version, generated, restarts>>

(* finalize() *)
Finalized(r) == [r EXCEPT !.initialized = FALSE, !.handle = "freed"]

FinalizeInPlace(o) ==                                              \* mutant
    /\ Live(o) /\ (obj[o].initialized \/ "finalize" \in env.disturbed)
    /\ Invoke(o, "exit", obj[o].handle)
    /\ obj' = [obj EXCEPT ![o] = [@ EXCEPT !.handle = "freed"]]
    /\ UNCHANGED <<env, disk, refs, image, version, generated, restarts>>

Finalize(o) ==
    /\ Live(o) /\ (obj[o].initialized \/ "finalize" \in env.disturbed)
    /\ Invoke(o, "exit", obj[o].handle)
    /\ obj' = [obj EXCEPT ![o] = Finalized(@)]
    /\ UNCHANGED <<env, disk, refs, image, version, generated, restarts>>

(***************************************************************************)
(* __del__.  If finalize raises an error, unload is not reached.  Nothing  *)
(* is left of the object but the library that is to be unloaded.           *)
(***************************************************************************)
Deleted(r) == [NoObject EXCEPT !.status = "deleted", !.lib = r.lib]

DeleteInitialized(o) ==
    /\ Live(o) /\ obj[o].initialized
    /\ Invoke(o, "exit", obj[o].handle)
    /\ Unload([obj EXCEPT ![o] = Deleted(@)], o)
    /\ UNCHANGED <<env, disk, version, generated, restarts>>

DeleteUninitialized(o) ==
    /\ Live(o) /\ ~obj[o].initialized
    /\ Unload([obj EXCEPT ![o] = Deleted(@)], o)
    /\ UNCHANGED <<env, disk, native, version, generated, restarts, crashed>>

DeleteFails(o) ==
    /\ Live(o) /\ obj[o].initialized /\ "exit" \in env.disturbed
    /\ Invoke(o, "exit", obj[o].handle)
    /\ obj' = [obj EXCEPT ![o] = [Deleted(@) EXCEPT !.lib = NoLib]]
    /\ UNCHANGED <<env, disk, refs, image, version, generated, restarts>>

(***************************************************************************)
(* The process ends, or has crashed, and another one begins with the files *)
(* it finds.                                                               *)
(***************************************************************************)
Restart ==
    /\ "restart" \in env.disturbed /\ restarts < MaxRestarts
    /\ restarts' = restarts + 1
    /\ refs' = [n \in Name |-> 0]
    /\ image' = [n \in Name |-> 0]
    /\ obj' = [o \in Object |-> IF obj[o].status = "live"
                                THEN [NoObject EXCEPT !.status = "deleted"] ELSE obj[o]]
    /\ native' = NoCall
    /\ crashed' = FALSE
    /\ UNCHANGED <<env, disk, version, generated>>

Next ==
    \/ \E o \in Object, i \in 0..MaxCount : Compile(o, i)
    \/ \E o \in Object, k \in 0..MaxCount, v \in {version, version + 1} : CompileKept(o, v, k)
    \/ \E o \in Object, k \in 0..MaxCount, i \in {0, generated[version]} : LoadPrecompiled(o, i, k)
    \/ \E o \in Object, k \in 0..MaxCount, h \in InitResult :
          FastCallReloads(o, h, k) \/ FastCallReloadFails(o, h, k)
    \/ \E i \in 0..MaxCount : IsLoaded(i)
    \/ \E o \in Object, h \in InitResult :
          Initialize(o, h) \/ FastCall(o, h) \/ FastCallFails(o, h)
    \/ \E o \in Object :
          Finalize(o) \/ DeleteInitialized(o) \/ DeleteUninitialized(o) \/ DeleteFails(o)
    \/ Restart

Spec == Init /\ [][Next]_vars
-----------------------------------------------------------------------------
ObjectType ==
    [status : {"new", "live", "deleted"}, fname : Name \cup {NoLib},
     lib : Name \cup {NoLib}, bound : Name \cup {NoLib},
     ptrs : {"none", "valid", "dangling"}, initialized : BOOLEAN,
     handle : {"null", "state", "freed"}, program : 0..MaxVersion]

(***************************************************************************)
(* The files, references and objects have their types; in particular no    *)
(* reference count falls below zero.                                       *)
(***************************************************************************)
TypeOK ==
    /\ env \in Environments
    /\ disk \in [Name -> 0..MaxVersion]
    /\ refs \in [Name -> Nat]
    /\ image \in [Name -> 0..MaxVersion]
    /\ obj \in [Object -> ObjectType]
    /\ native \in [fn : {"none", "init", "program", "exit"}, ptrs : {"valid", "dangling"},
                   handle : {"null", "state", "freed"}]
    /\ version \in 0..MaxVersion /\ generated \in [0..MaxVersion -> 0..MaxCount]
    /\ restarts \in 0..MaxRestarts
    /\ crashed \in BOOLEAN

(***************************************************************************)
(* No two objects have the same library loaded: each has its own copy of   *)
(* the program's global state.                                             *)
(***************************************************************************)
NoSharedLibrary ==
    \A o, q \in Object :
        o # q /\ Live(o) /\ Live(q) /\ obj[o].lib # NoLib => obj[o].lib # obj[q].lib

(***************************************************************************)
(* What is mapped is what the library's file has: load copies to files     *)
(* that are not there, and compile builds libraries that are not loaded.   *)
(* The exception is compile with code that is kept, for the library of the *)
(* SDFG's own name.                                                        *)
(***************************************************************************)
RebuiltInPlace(n) == "kept" \in env.disturbed /\ n = SDFGName(0)

MappedFileIntact ==
    \A n \in Name : Mapped(n) => disk[n] # 0 /\ (image[n] = disk[n] \/ RebuiltInPlace(n))

(***************************************************************************)
(* The functions of an object belong to the program it was made for: the   *)
(* one compile built, or the one load_precompiled_sdfg found.  Only copies *)
(* may be of another program, and only in two cases: they were there when  *)
(* the process began, or code is kept; load takes the copies it finds as   *)
(* they are, whatever they were copied from.                               *)
(***************************************************************************)
IsCopy(n) == Len(n) > 1
CopiesMayBeStale == restarts > 0 \/ "kept" \in env.disturbed

RunsItsProgram ==
    \A o \in Object :
        Live(o) /\ obj[o].ptrs = "valid" =>
            \/ image[obj[o].bound] = obj[o].program
            \/ IsCopy(obj[o].bound) /\ CopiesMayBeStale

(***************************************************************************)
(* The class "ensures that the SDFG object is properly initialized" and    *)
(* takes "care of the finalization": every call goes to a mapped library,  *)
(* and the program and the exit function get the state that the init       *)
(* function made.                                                          *)
(***************************************************************************)
CallsAreSound ==
    /\ native.ptrs = "valid"
    /\ native.fn \in {"program", "exit"} => native.handle = "state"

(***************************************************************************)
(* That holds unless a call or an init function fails or the user          *)
(* finalizes what is not initialized, also if exit functions fail and      *)
(* processes end.                                                          *)
(***************************************************************************)
SoundUnlessDisturbed == env.disturbed \cap {"init", "call", "finalize"} = {} => CallsAreSound
=============================================================================
