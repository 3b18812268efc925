---------------------------- MODULE GridBarrier -----------------------------
(***************************************************************************)
(* GridBarrier and GridBarrierLifetime of                                  *)
(* dace/runtime/include/dace/cuda/multidim_gbar.cuh: the barrier across    *)
(* the blocks of a kernel that the code generator emits as __gbar.Sync().  *)
(*                                                                         *)
(* Each block has a flag in global memory.  A block raises its flag and    *)
(* waits until it is lowered; block 0, whose threads share the flags among *)
(* them, waits until all flags are raised and lowers them.  Within a block *)
(* CTA_SYNC is a step that the block's threads take together.              *)
(*                                                                         *)
(* The launch is a plain one: the device places the blocks when and in the *)
(* order it likes, as many at a time as it has room for, and a block keeps *)
(* its place until its threads have ended.                                 *)
(***************************************************************************)
EXTENDS Naturals, FiniteSets

CONSTANTS
    MaxGrid,     \* the most blocks of a kernel
    BlockSize,   \* the threads of a block
    Rounds,      \* how often a kernel calls Sync
    MaxLaunches, \* how often a kernel is launched
    Capacities   \* how many blocks of a kernel the device may have room for

ASSUME GridAssumption == MaxGrid \in Nat \ {0} /\ BlockSize \in Nat \ {0}
ASSUME BoundAssumption == Rounds \in Nat /\ MaxLaunches \in Nat
ASSUME CapacityAssumption == Capacities \subseteq Nat \ {0}

Block == 0..(MaxGrid - 1)
Tid == 0..(BlockSize - 1)
Thread == Block \X Tid

VARIABLES
    grid,       \* the blocks of the running kernel
    allocated,  \* sync_bytes: the flags that d_sync has room for
    flag,       \* d_sync
    pc,         \* the control point of each thread
    peer,       \* peer_block of the threads of block 0
    round,      \* the rounds that each thread has left
    launches,
    capacity,   \* the blocks of the running kernel that fit on the device
    resident    \* the blocks that have been placed on it

device == <<capacity, resident>>
vars == <<grid, allocated, flag, pc, peer, round, launches, capacity, resident>>

Init ==
    /\ grid = 0
    /\ allocated = 0
    /\ flag = [b \in Block |-> 0]
    /\ pc = [t \in Thread |-> "out"]
    /\ peer = [i \in Tid |-> 0]
    /\ round = [t \in Thread |-> 0]
    /\ launches = 0
    /\ capacity = 0
    /\ resident = {}

Active == {t \in Thread : t[1] < grid}

(***************************************************************************)
(* Setup(n) and the launch of a kernel with n blocks, after the last one   *)
(* has ended.  The flags are zeroed only if more of them are needed than   *)
(* there were: otherwise they are what the last kernel left.               *)
(***************************************************************************)
Ended == \A t \in Active : pc[t] = "out" /\ round[t] = Rounds

Launch(n, c) ==
    /\ Ended /\ launches < MaxLaunches
    /\ grid' = n
    /\ capacity' = c
    /\ resident' = {}
    /\ IF n > allocated
       THEN allocated' = n /\ flag' = [b \in Block |-> 0]
       ELSE UNCHANGED <<allocated, flag>>
    /\ round' = [t \in Thread |-> 0]
    /\ launches' = launches + 1
    /\ UNCHANGED <<pc, peer>>

(* HostReset, which the destructor calls: freeing waits for the kernel.    *)
(* The code generator makes a barrier for each launch, and frees it.       *)
HostReset ==
    /\ Ended /\ allocated > 0
    /\ allocated' = 0
    /\ UNCHANGED <<grid, flag, pc, peer, round, launches, device>>

(***************************************************************************)
(* The device places a block of the grid.  No thread of a block that has   *)
(* no place takes a step.                                                  *)
(***************************************************************************)
Running == {b \in resident : \E i \in Tid : pc[<<b, i>>] # "out" \/ round[<<b, i>>] < Rounds}

Place(b) ==
    /\ b < grid /\ b \notin resident
    /\ Cardinality(Running) < capacity
    /\ resident' = resident \cup {b}
    /\ UNCHANGED <<grid, allocated, flag, pc, peer, round, launches, capacity>>

At(t, here) == t \in Active /\ t[1] \in resident /\ pc[t] = here
Goto(t, there) == pc' = [pc EXCEPT ![t] = there]

(* A thread calls Sync and waits at the first CTA_SYNC. *)
Arrive(t) ==
    /\ At(t, "out") /\ round[t] < Rounds
    /\ Goto(t, "entry")
    /\ UNCHANGED <<grid, allocated, flag, peer, round, launches, device>>

(***************************************************************************)
(* CTA_SYNC: all threads of a block go on from one point to the next; the  *)
(* loops over the peers start from the thread's number.                    *)
(***************************************************************************)
Behind == [entry |-> "report", reported |-> "collect", collected |-> "release",
           leave |-> "exit"]

CtaSync(b, from) ==
    /\ \A i \in Tid : At(<<b, i>>, from)
    /\ pc' = [t \in Thread |-> IF t[1] = b THEN Behind[from] ELSE pc[t]]
    /\ peer' = IF from \in {"reported", "collected"} THEN [i \in Tid |-> i] ELSE peer
    /\ UNCHANGED <<grid, allocated, flag, round, launches, device>>

(***************************************************************************)
(* Thread 0 of a block reports in.  In block 0 everybody goes on to the    *)
(* second CTA_SYNC, in the others thread 0 waits for the acknowledgment    *)
(* and the rest for thread 0.                                              *)
(***************************************************************************)
Reported(t) == IF t[1] = 0 THEN "reported" ELSE IF t[2] = 0 THEN "ack" ELSE "leave"

ReportByAll(t) ==                                                  \* mutant
    /\ At(t, "report")
    /\ flag' = [flag EXCEPT ![t[1]] = @ + 1]
    /\ Goto(t, Reported(t))
    /\ UNCHANGED <<grid, allocated, peer, round, launches, device>>

Report(t) ==
    /\ At(t, "report")
    /\ flag' = IF t[2] = 0 THEN [flag EXCEPT ![t[1]] = 1] ELSE flag
    /\ Goto(t, Reported(t))
    /\ UNCHANGED <<grid, allocated, peer, round, launches, device>>

AckEarly(t) ==                                                     \* mutant
    /\ At(t, "ack")
    /\ Goto(t, "leave")
    /\ UNCHANGED <<grid, allocated, flag, peer, round, launches, device>>

Ack(t) ==
    /\ At(t, "ack")
    /\ flag[t[1]] # 1
    /\ Goto(t, "leave")
    /\ UNCHANGED <<grid, allocated, flag, peer, round, launches, device>>

(* Block 0: wait for everyone else to report in, one peer after another. *)
CollectOwn(i) ==                                                   \* mutant
    /\ At(<<0, i>>, "collect")
    /\ peer[i] < grid => flag[peer[i]] # 0
    /\ Goto(<<0, i>>, "collected")
    /\ UNCHANGED <<grid, allocated, flag, peer, round, launches, device>>

Collect(i) ==
    /\ At(<<0, i>>, "collect")
    /\ IF peer[i] < grid
       THEN /\ flag[peer[i]] # 0
            /\ peer' = [peer EXCEPT ![i] = @ + BlockSize]
            /\ UNCHANGED pc
       ELSE Goto(<<0, i>>, "collected") /\ UNCHANGED peer
    /\ UNCHANGED <<grid, allocated, flag, round, launches, device>>

(* Block 0: let everyone know it is safe to proceed, and return. *)
ReleaseOwn(i) ==                                                   \* mutant
    /\ At(<<0, i>>, "release")
    /\ flag' = IF peer[i] < grid THEN [flag EXCEPT ![peer[i]] = 0] ELSE flag
    /\ Goto(<<0, i>>, "exit")
    /\ UNCHANGED <<grid, allocated, peer, round, launches, device>>

ReleaseOthers(i) ==                                                \* mutant
    /\ At(<<0, i>>, "release")
    /\ IF peer[i] < grid
       THEN /\ flag' = IF peer[i] = 0 THEN flag ELSE [flag EXCEPT ![peer[i]] = 0]
            /\ peer' = [peer EXCEPT ![i] = @ + BlockSize]
            /\ UNCHANGED pc
       ELSE Goto(<<0, i>>, "exit") /\ UNCHANGED <<flag, peer>>
    /\ UNCHANGED <<grid, allocated, round, launches, device>>

Release(i) ==
    /\ At(<<0, i>>, "release")
    /\ IF peer[i] < grid
       THEN /\ flag' = [flag EXCEPT ![peer[i]] = 0]
            /\ peer' = [peer EXCEPT ![i] = @ + BlockSize]
            /\ UNCHANGED pc
       ELSE Goto(<<0, i>>, "exit") /\ UNCHANGED <<flag, peer>>
    /\ UNCHANGED <<grid, allocated, round, launches, device>>

(* The loops that wait for a flag go round once more. *)
Spin(t) ==
    /\ \/ At(t, "ack") /\ flag[t[1]] = 1
       \/ At(t, "collect") /\ peer[t[2]] < grid /\ flag[peer[t[2]]] = 0
    /\ UNCHANGED vars

Return(t) ==
    /\ At(t, "exit")
    /\ Goto(t, "out")
    /\ round' = [round EXCEPT ![t] = @ + 1]
    /\ UNCHANGED <<grid, allocated, flag, peer, launches, device>>

Step(t) == \/ Arrive(t) \/ Report(t) \/ Ack(t) \/ Return(t)
           \/ t[1] = 0 /\ (Collect(t[2]) \/ Release(t[2]))

Sync(b) == \E from \in DOMAIN Behind : CtaSync(b, from)

(* The host launches no further kernel. *)
Finished == Ended /\ launches = MaxLaunches
Idle == Finished /\ UNCHANGED vars

Next ==
    \/ HostReset
    \/ \E n \in 1..MaxGrid, c \in Capacities : Launch(n, c)
    \/ \E b \in Block : Place(b)
    \/ \E t \in Thread : Step(t) \/ Spin(t)
    \/ \E b \in Block : Sync(b)
    \/ Idle

Spec == Init /\ [][Next]_vars

(***************************************************************************)
(* While it has room the device places blocks, and it schedules each       *)
(* thread of the blocks it has placed.  It owes a block without a place    *)
(* nothing, and the host need not launch anything.                         *)
(***************************************************************************)
FairSpec ==
    /\ Spec
    /\ WF_vars(\E b \in Block : Place(b))
    /\ \A t \in Thread : WF_vars(Step(t))
    /\ \A b \in Block : WF_vars(Sync(b))
-----------------------------------------------------------------------------
Point == {"out", "entry", "report", "reported", "collect", "collected", "release",
          "ack", "leave", "exit"}

(***************************************************************************)
(* The variables have their types.                                         *)
(***************************************************************************)
TypeOK ==
    /\ grid \in 0..MaxGrid
    /\ allocated \in 0..MaxGrid
    /\ flag \in [Block -> {0, 1}]
    /\ pc \in [Thread -> Point]
    /\ peer \in [Tid -> 0..(MaxGrid + BlockSize - 1)]
    /\ round \in [Thread -> 0..Rounds]
    /\ launches \in 0..MaxLaunches
    /\ capacity \in Capacities \cup {0}
    /\ resident \subseteq Block

(***************************************************************************)
(* Sync is a barrier: no thread returns from a call before every thread of *)
(* the grid has made the call with the same number.                        *)
(***************************************************************************)
Inside == {t \in Thread : pc[t] # "out"}

B == INSTANCE Barrier WITH party <- Active, inside <- Inside

ImplementsBarrier == B!Spec

(***************************************************************************)
(* Block 0 lowers flags while released blocks raise theirs for the next    *)
(* round.  It lowers no flag but those of the round it is in: no thread of *)
(* the other block has left this round when its flag goes down.            *)
(***************************************************************************)
LowersOwnRound ==
    [][\A b \in Block \ {0} : flag[b] = 1 /\ flag'[b] = 0 /\ grid' = grid =>
          \A i \in Tid : round[<<b, i>>] = round[<<0, b % BlockSize>>]]_vars

(***************************************************************************)
(* When a kernel has ended every flag is down, which is what the next      *)
(* launch relies on if Setup does not zero them.                           *)
(***************************************************************************)
FlagsDownAtEnd == Ended => \A b \in Block : flag[b] = 0

(***************************************************************************)
(* A kernel whose blocks all fit on the device at the same time ends, in   *)
(* whatever order they are placed.  Nothing in the code sees to it that    *)
(* they fit: if they do not, the blocks that have a place keep it while    *)
(* they wait for those that have none, and the kernel does not end.        *)
(***************************************************************************)
KernelEnds == (grid <= capacity) ~> Ended
=============================================================================
