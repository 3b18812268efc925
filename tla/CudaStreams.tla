---------------------------- MODULE CudaStreams -----------------------------
(***************************************************************************)
(* The streams and events of generated GPU programs: the annotation of an  *)
(* SDFG with streams (_compute_cudastreams of dace/codegen/targets/cuda.py)*)
(* and the code that is generated for its nodes outside of kernels: copies,*)
(* kernel launches, host code and the end of a state (cuda.py, cpp.py and  *)
(* cpu.py of that directory).  What generating a node emits, the host runs *)
(* when its turn comes, so that one action stands for both; what it puts   *)
(* on a stream the GPU executes later, in the order of that stream.        *)
(*                                                                         *)
(* A program is a sequence of states that run one after the other.  A node *)
(* of a state is a number, in the order of state.nodes(); a kernel (a      *)
(* GPU_Device map with all that it contains) and a piece of host code (a   *)
(* tasklet, or a map with a CPU schedule) are one node each.  Host memory  *)
(* is pinned: copies from and to it are asynchronous.  Views, library      *)
(* calls, nested SDFGs and dynamic map ranges are left out.                *)
(***************************************************************************)
EXTENDS Integers, Sequences, FiniteSets, SequencesExt

CONSTANTS
    Programs,    \* the programs that may be compiled
    Limits,      \* values of compiler.cuda.max_concurrent_streams, 0: no limit
    MaxStreams   \* as many streams as a state has nodes, or more

GPUData == "gpu"           \* an access node of GPU_Global memory
HostData == "host"         \* an access node of CPU_Pinned memory
Kernel == "kernel"
HostCode == "code"
Kind == {GPUData, HostData, Kernel, HostCode}

(***************************************************************************)
(* A state: the kinds of its nodes and its edges in the order in which     *)
(* they were added.  Code reads and writes data, host code reads and       *)
(* writes host memory only, and all nodes have an edge.                    *)
(***************************************************************************)
ValidEdge(kind, e) ==
    LET kinds == {kind[e[1]], kind[e[2]]}
    IN  /\ e[1] < e[2]
        /\ kinds \cap {GPUData, HostData} # {}
        /\ HostCode \in kinds => HostData \in kinds

Graph == [kind : Seq(Kind), edges : Seq(Nat \X Nat)]

GraphType(g) ==
    /\ Len(g.kind) <= MaxStreams
    /\ \A e \in ToSet(g.edges) : {e[1], e[2]} \subseteq DOMAIN g.kind /\ ValidEdge(g.kind, e)
    /\ \A n \in DOMAIN g.kind : \E e \in ToSet(g.edges) : n \in {e[1], e[2]}

ASSUME ProgramsAssumption ==
    \A p \in Programs : p \in Seq(Graph) /\ p # <<>> /\ \A i \in 1..Len(p) : GraphType(p[i])
ASSUME LimitsAssumption == Limits \subseteq 0..MaxStreams /\ MaxStreams \in Nat

VARIABLES
    program,    \* the SDFG
    limit,      \* max_concurrent_streams
    phase,      \* "sources", "walk", "run", "done"
    at,         \* the state that is annotated, or run
    walk,       \* the stack of dfs_edges: nodes and the next of their edges
    visited,    \* the visited set of dfs_edges
    stream,     \* _cuda_stream of the nodes of each state
    childpath,  \* the nodes with _cs_childpath, in the state that is annotated
    fresh,      \* max_streams of _compute_cudastreams
    emitted,    \* the nodes of the state that is run that were generated
    queue,      \* what the GPU has still to do on each stream
    completed,  \* how much it has done there
    finished    \* the work that is done: copies, kernels and host code

annotation == <<walk, visited, stream, childpath, fresh>>
execution == <<emitted, queue, completed, finished>>
vars == <<program, limit, phase, at, annotation, execution>>

NoStream == -1       \* the attribute _cuda_stream is not there
Stream == 0..(MaxStreams - 1)

Nodes(i) == 1..Len(program[i].kind)
KindOf(i, n) == program[i].kind[n]
IsData(i, n) == KindOf(i, n) \in {GPUData, HostData}
Edges(i) == ToSet(program[i].edges)

(* The edges of a sequence that are in S, in their order. *)
Among(seq, S) ==
    LET among[k \in 0..Len(seq)] ==
            IF k = 0 THEN <<>>
            ELSE IF seq[k] \in S THEN Append(among[k - 1], seq[k]) ELSE among[k - 1]
    IN  among[Len(seq)]

OutEdges(i, n) == Among(program[i].edges, {e \in Edges(i) : e[1] = n})
Readers(i, n) == {e[2] : e \in {f \in Edges(i) : f[1] = n}}
Writers(i, n) == {e[1] : e \in {f \in Edges(i) : f[2] = n}}
Sources(i) == {n \in Nodes(i) : Writers(i, n) = {}}
Sinks(i) == {n \in Nodes(i) : Readers(i, n) = {}}

Init ==
    /\ program \in Programs
    /\ limit \in Limits
    /\ phase = "sources"
    /\ at = 1
    /\ walk = <<>>
    /\ visited = {}
    /\ stream = [i \in 1..Len(program) |-> [n \in Nodes(i) |-> NoStream]]
    /\ childpath = {}
    /\ fresh = 0
    /\ emitted = {}
    /\ queue = [s \in Stream |-> <<>>]
    /\ completed = [s \in Stream |-> 0]
    /\ finished = {}
-----------------------------------------------------------------------------
(***************************************************************************)
(* _compute_cudastreams, one state after the other.                        *)
(***************************************************************************)
IncrementForever(s) == s + 1                                       \* mutant
increment(s) == IF limit > 0 THEN (s + 1) % limit ELSE s + 1

(* The k-th stream that is given out. *)
Nth(k) == IF limit > 0 THEN k % limit ELSE k

(* Sources other than access nodes get a stream each. *)
AnnotateSources ==
    /\ phase = "sources"
    /\ LET code == {n \in Sources(at) : ~IsData(at, n)}
       IN  /\ stream' = [stream EXCEPT ![at] =
                  [n \in Nodes(at) |->
                      IF n \in code THEN Nth(Cardinality({m \in code : m < n})) ELSE NoStream]]
           /\ fresh' = Nth(Cardinality(code))
    /\ phase' = "walk"
    /\ UNCHANGED <<program, limit, at, walk, visited, childpath, execution>>

(* dfs_edges goes on with the next source. *)
RestartWalk(n) ==                                                  \* mutant
    /\ phase = "walk" /\ walk = <<>>
    /\ n \in Sources(at) \ visited /\ \A m \in Sources(at) \ visited : n <= m
    /\ walk' = << <<n, 1>> >>
    /\ UNCHANGED <<program, limit, phase, at, visited, stream, childpath, fresh, execution>>

StartWalk(n) ==
    /\ phase = "walk" /\ walk = <<>>
    /\ n \in Sources(at) \ visited /\ \A m \in Sources(at) \ visited : n <= m
    /\ walk' = << <<n, 1>> >>
    /\ visited' = visited \cup {n}
    /\ UNCHANGED <<program, limit, phase, at, stream, childpath, fresh, execution>>

Top == walk[Len(walk)]
Annotated(n) == stream[at][n] # NoStream

(* What the loop does with an edge: the first reader of a node takes over  *)
(* its stream and the others get another one; what a kernel writes gets    *)
(* the stream of the kernel.                                               *)
Annotate(a, b) ==
    LET inherits == Annotated(a) /\ a \notin childpath
        c == IF inherits THEN stream[at][a] ELSE fresh
    IN  IF Annotated(b) THEN UNCHANGED <<stream, childpath, fresh>>
        ELSE /\ stream' = [stream EXCEPT ![at][b] = c]
             /\ fresh' = IF inherits THEN fresh ELSE increment(fresh)
             /\ childpath' = IF Annotated(a) /\ KindOf(at, a) # Kernel
                             THEN childpath \cup {a} ELSE childpath

WalkEdge ==
    /\ phase = "walk" /\ walk # <<>> /\ Top[2] <= Len(OutEdges(at, Top[1]))
    /\ LET b == OutEdges(at, Top[1])[Top[2]][2]
           rest == Append(Front(walk), <<Top[1], Top[2] + 1>>)
       IN  /\ walk' = IF b \in visited THEN rest ELSE Append(rest, <<b, 1>>)
           /\ visited' = visited \cup {b}
           /\ Annotate(Top[1], b)
    /\ UNCHANGED <<program, limit, phase, at, execution>>

LeaveNode ==
    /\ phase = "walk" /\ walk # <<>> /\ Top[2] > Len(OutEdges(at, Top[1]))
    /\ walk' = Front(walk)
    /\ UNCHANGED <<program, limit, phase, at, visited, stream, childpath, fresh, execution>>

(***************************************************************************)
(* At the end only kernels, GPU memory and what it is copied from and to,  *)
(* or kernels use, keep their stream.                                      *)
(***************************************************************************)
OnGPU(i, n) == KindOf(i, n) \in {Kernel, GPUData}
KeepsStream(i, n) == OnGPU(i, n) \/ \E m \in Readers(i, n) \cup Writers(i, n) : OnGPU(i, m)

WalkOver ==
    /\ phase = "walk" /\ walk = <<>> /\ Sources(at) \subseteq visited
    /\ visited' = {}
    /\ childpath' = {}
    /\ fresh' = 0
    /\ UNCHANGED <<program, limit, walk, execution>>

NextState ==
    /\ WalkOver
    /\ at < Len(program)
    /\ at' = at + 1
    /\ phase' = "sources"
    /\ UNCHANGED stream

RemoveStreams ==
    /\ WalkOver
    /\ at = Len(program)
    /\ stream' = [i \in 1..Len(program) |->
                     [n \in Nodes(i) |-> IF KeepsStream(i, n) THEN stream[i][n] ELSE NoStream]]
    /\ at' = 1
    /\ phase' = "run"

HasStream(i, n) == stream[i][n] # NoStream

(* The edge from a to b is given an event. *)
HasEvent(i, a, b) == HasStream(i, a) /\ stream[i][a] # stream[i][b]
-----------------------------------------------------------------------------
(***************************************************************************)
(* Streams and events of CUDA.  An event is recorded on one stream and     *)
(* waited for on another in one go: the second stream goes on when what    *)
(* was put on the first before is done.                                    *)
(***************************************************************************)
Work(i, a, b) == [work |-> <<i, a, b>>]
WaitFor(q, s) == [of |-> s, count |-> completed[s] + Len(q[s])]

Put(q, s, item) == [q EXCEPT ![s] = Append(@, item)]
Events(q, S, s) == [t \in Stream |-> IF t \in S THEN Append(q[t], WaitFor(q, s)) ELSE q[t]]

(* StreamSynchronize *)
Synchronized(S) == \A s \in S : queue[s] = <<>>

Execute(s) ==
    /\ queue[s] # <<>>
    /\ LET item == Head(queue[s])
       IN  IF "work" \in DOMAIN item THEN finished' = finished \cup {item.work}
           ELSE completed[item.of] >= item.count /\ finished' = finished
    /\ queue' = [queue EXCEPT ![s] = Tail(@)]
    /\ completed' = [completed EXCEPT ![s] = @ + 1]
    /\ UNCHANGED <<program, limit, phase, at, annotation, emitted>>
-----------------------------------------------------------------------------
(***************************************************************************)
(* Generating a state: the nodes in an order in which each follows those   *)
(* it depends on (module DfsTopologicalSort).                              *)
(***************************************************************************)
Generate(n) ==
    /\ phase = "run"
    /\ n \in Nodes(at) \ emitted
    /\ Writers(at, n) \subseteq emitted
    /\ emitted' = emitted \cup {n}
    /\ UNCHANGED <<program, limit, phase, at, annotation, completed>>

StreamsOf(i, N) == {stream[i][n] : n \in {m \in N : HasStream(i, m)}}

(* presynchronize_streams *)
Presynchronized(n) == HasStream(at, n) \/ Synchronized(StreamsOf(at, Writers(at, n)))

CodeReaders(i, b) == {c \in Readers(i, b) : ~IsData(i, c)}

(* is_sync of _emit_copy *)
IsSync(i, a, b) ==
    \/ HasStream(i, a) /\ ~HasStream(i, b)
    \/ \E c \in CodeReaders(i, b) : ~HasStream(i, c) \/ ~HasEvent(i, b, c)

(* The stream of a copy and syncwith, the streams that wait for it. *)
CopyStream(i, a, b) == IF HasStream(i, a) THEN stream[i][a] ELSE stream[i][b]

SyncWithReaders(i, a, b) ==                                        \* mutant
    StreamsOf(i, CodeReaders(i, b)) \ {CopyStream(i, a, b)}

SyncWith(i, a, b) == StreamsOf(i, {b} \cup CodeReaders(i, b)) \ {CopyStream(i, a, b)}

(* _emit_copy *)
EmitCopy(q, e) ==
    LET s == CopyStream(at, e[1], e[2])
        copied == Put(q, s, Work(at, e[1], e[2]))
    IN  IF IsSync(at, e[1], e[2]) THEN copied ELSE Events(copied, SyncWith(at, e[1], e[2]), s)

(* The copies of a sequence, one after the other. *)
EmitCopies(q, copies) ==
    LET emit[k \in 0..Len(copies)] == IF k = 0 THEN q ELSE EmitCopy(emit[k - 1], copies[k])
    IN  emit[Len(copies)]

Copies(i, n) == {e \in Edges(i) : e[1] = n /\ IsData(i, e[2])}
OnHost(i, e) == KindOf(i, e[1]) = HostData /\ KindOf(i, e[2]) = HostData

(* _generate_AccessNode: the copies out of it.  Those within host memory   *)
(* the host makes itself.                                                  *)
AccessNode(n) ==
    /\ Generate(n)
    /\ IsData(at, n)
    /\ n \in Sinks(at) \/ Presynchronized(n)
    /\ queue' = EmitCopies(queue, Among(program[at].edges, {e \in Copies(at, n) : ~OnHost(at, e)}))
    /\ finished' = finished \cup {<<at, n, e[2]>> : e \in {f \in Copies(at, n) : OnHost(at, f)}}

(***************************************************************************)
(* A kernel is launched.  synchronize_streams: what it writes on another   *)
(* stream waits for it; otherwise the code that reads what it writes does. *)
(***************************************************************************)
DataWaiters(n) == StreamsOf(at, Readers(at, n)) \ {stream[at][n]}  \* mutant
KernelWaiters(n) ==
    (UNION {IF HasStream(at, d) /\ stream[at][d] # stream[at][n]
            THEN {stream[at][d]} ELSE StreamsOf(at, CodeReaders(at, d)) : d \in Readers(at, n)})
        \ {stream[at][n]}

Launch(n) ==
    /\ Generate(n)
    /\ KindOf(at, n) = Kernel
    /\ queue' = Events(Put(queue, stream[at][n], Work(at, n, n)), KernelWaiters(n), stream[at][n])
    /\ UNCHANGED finished

Host(n) ==
    /\ Generate(n)
    /\ KindOf(at, n) = HostCode
    /\ Presynchronized(n)
    /\ finished' = finished \cup {<<at, n, n>>}
    /\ UNCHANGED queue

(***************************************************************************)
(* generate_state: at the end of a state the streams of its sinks are      *)
(* synchronized, unless that is one stream and the next state begins with  *)
(* the same.                                                               *)
(***************************************************************************)
StreamsToSync(i) ==
    UNION {IF HasStream(i, n) THEN {stream[i][n]} ELSE StreamsOf(i, Writers(i, n)) : n \in Sinks(i)}

BeginStreams(i) ==
    UNION {IF HasStream(i, n) THEN {stream[i][n]} ELSE StreamsOf(i, Readers(i, n)) : n \in Sources(i)}

RelaxedAnyway(i) ==                                                \* mutant
    i < Len(program) /\ StreamsToSync(i) \cap BeginStreams(i + 1) # {}

Relaxed(i) ==
    /\ i < Len(program)
    /\ Cardinality(StreamsToSync(i)) = 1
    /\ BeginStreams(i + 1) = StreamsToSync(i)

EndState ==
    /\ phase = "run" /\ emitted = Nodes(at)
    /\ Relaxed(at) \/ Synchronized(StreamsToSync(at))
    /\ IF at < Len(program) THEN at' = at + 1 /\ emitted' = {} /\ phase' = phase
       ELSE phase' = "done" /\ UNCHANGED <<at, emitted>>
    /\ UNCHANGED <<program, limit, annotation, queue, completed, finished>>

Returned == phase = "done" /\ Synchronized(Stream) /\ UNCHANGED vars

Annotation == \/ AnnotateSources \/ (\E n \in Sources(at) : StartWalk(n))
              \/ WalkEdge \/ LeaveNode \/ NextState \/ RemoveStreams
HostStep == (\E n \in Nodes(at) : AccessNode(n) \/ Launch(n) \/ Host(n)) \/ EndState

Next == Annotation \/ HostStep \/ (\E s \in Stream : Execute(s)) \/ Returned

Spec == Init /\ [][Next]_vars
FairSpec == Spec /\ WF_vars(Annotation \/ HostStep) /\ \A s \in Stream : WF_vars(Execute(s))
-----------------------------------------------------------------------------
(* All the work of a state, and what a piece of it has to follow. *)
CodeWork(i) == {<<i, n, n>> : n \in {m \in Nodes(i) : ~IsData(i, m)}}
CopyWork(i) == {<<i, e[1], e[2]>> : e \in {f \in Edges(i) : IsData(i, f[1]) /\ IsData(i, f[2])}}
AllWork(i) == CodeWork(i) \cup CopyWork(i)

Writes(i, d) == {<<i, m, IF IsData(i, m) THEN d ELSE m>> : m \in Writers(i, d)}
Needs(w) ==
    IF w[2] = w[3] THEN UNION {Writes(w[1], d) : d \in Writers(w[1], w[2])}
    ELSE Writes(w[1], w[2])

(***************************************************************************)
(* Types.  In particular no node has a stream that is not created.         *)
(***************************************************************************)
TypeOK ==
    /\ limit \in Limits
    /\ phase \in {"sources", "walk", "run", "done"}
    /\ at \in 1..Len(program)
    /\ \A i \in 1..Len(walk) : walk[i] \in Nodes(at) \X Nat
    /\ visited \subseteq Nodes(at) /\ childpath \subseteq Nodes(at) /\ emitted \subseteq Nodes(at)
    /\ \A i \in 1..Len(program) : \A n \in Nodes(i) :
          stream[i][n] \in {NoStream} \cup (IF limit > 0 THEN 0..(limit - 1) ELSE Stream)
    /\ completed \in [Stream -> Nat]
    /\ finished \subseteq UNION {AllWork(i) : i \in 1..Len(program)}

(***************************************************************************)
(* "Handle case of impending kernel/tasklet on another stream" and         *)
(* "Synchronize with other streams as necessary" (_emit_copy): a copy, a   *)
(* kernel or host code runs only after all that writes what it reads is    *)
(* done.                                                                   *)
(***************************************************************************)
ReadersWait == \A w \in finished : Needs(w) \subseteq finished

(***************************************************************************)
(* Where that is not so: a copy that other streams should wait for but for *)
(* which is_sync holds, so that no event is recorded; data with several    *)
(* writers and a reader on another stream than its own, which waits for    *)
(* some of the writers only; a copy within the host of what the GPU wrote. *)
(***************************************************************************)
DropsEvents(i, e) ==
    /\ IsData(i, e[1]) /\ IsData(i, e[2]) /\ ~OnHost(i, e)
    /\ IsSync(i, e[1], e[2]) /\ SyncWith(i, e[1], e[2]) # {}

ThirdStream(i, d) ==
    /\ IsData(i, d) /\ HasStream(i, d) /\ Cardinality(Writers(i, d)) > 1
    /\ \E c \in CodeReaders(i, d) : HasStream(i, c) /\ stream[i][c] # stream[i][d]

CopiesUnsynced(i, e) == OnHost(i, e) /\ \E m \in Writers(i, e[1]) : OnGPU(i, m)

Sound(i) ==
    /\ \A e \in Edges(i) : ~DropsEvents(i, e) /\ ~CopiesUnsynced(i, e)
    /\ \A d \in Nodes(i) : ~ThirdStream(i, d)

AllSound == phase \in {"run", "done"} /\ \A i \in 1..Len(program) : Sound(i)

(***************************************************************************)
(* Everywhere else it is: in a program with none of these, no reader of    *)
(* data, on any stream or the host, overtakes a writer.                    *)
(***************************************************************************)
DependenciesMet == AllSound => ReadersWait

(***************************************************************************)
(* The next case is one of two states: the first is not synchronized since *)
(* the second begins with its stream, but the second computes on the host  *)
(* with what it begins with, puts its work on other streams and waits for  *)
(* those only.                                                             *)
(***************************************************************************)
HostWork(i) == {w \in AllWork(i) : KindOf(i, w[2]) = HostCode \/ OnHost(i, <<w[2], w[3]>>)}
WorkStream(w) == IF w[2] = w[3] THEN stream[w[1]][w[2]] ELSE CopyStream(w[1], w[2], w[3])

BeginsIdle(i) ==
    /\ BeginStreams(i) # {}
    /\ \A w \in AllWork(i) \ HostWork(i) : WorkStream(w) \notin BeginStreams(i)

AllOrdered == AllSound /\ \A i \in 1..Len(program) : ~BeginsIdle(i)

(***************************************************************************)
(* The work of a state follows all the work of the states before it, also  *)
(* when they are not synchronized.  The host itself does not wait then, so *)
(* that this is about states in which it has nothing to compute.           *)
(***************************************************************************)
StatesOrdered ==
    AllOrdered => \A w \in finished : \A i \in 1..(w[1] - 1) :
        HostWork(w[1]) = {} => AllWork(i) \subseteq finished

(***************************************************************************)
(* A program returns only when the GPU has done all of its work.           *)
(***************************************************************************)
NothingPending ==
    phase = "done" /\ AllOrdered => \A i \in 1..Len(program) : AllWork(i) \subseteq finished

(***************************************************************************)
(* A program returns: no stream and no synchronization of the host waits   *)
(* for something that never happens.                                       *)
(***************************************************************************)
Returns == <>(phase = "done")
=============================================================================
