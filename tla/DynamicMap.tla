----------------------------- MODULE DynamicMap -----------------------------
(***************************************************************************)
(* DynamicMap::schedule of dace/runtime/include/dace/cuda/dynmap.cuh: the  *)
(* threads of a block, each with a range of work of its own, share it.     *)
(* Ranges as long as the block are worked by the whole block, then those   *)
(* as long as a warp by the warp, and the rest either by the thread that   *)
(* has it or, in the fine-grained mode, evenly by the threads of the warp. *)
(*                                                                         *)
(* The threads talk through a shared union: as tb it holds the owner,      *)
(* source, start and size of the range that the block works on, as fg the  *)
(* sources and indices of the fine-grained mode, in the same words.  The   *)
(* code generator passes one range to each thread of a one-dimensional     *)
(* block, empty for threads outside of the grid.                           *)
(***************************************************************************)
EXTENDS Integers, Bags, FiniteSetsExt

CONSTANTS
    Config,   \* template arguments: records of block, warp and fine
    Ranges,   \* the ranges <<localStart, localEnd>> that a thread may have
    FirstSrc, \* localSrc of the first thread of the block
    Junk      \* what uninitialized shared memory holds

ASSUME ConfigAssumption ==
    \A c \in Config :
        /\ c.block \in Nat \ {0} /\ c.warp \in Nat \ {0} /\ c.fine \in BOOLEAN
        /\ c.block % c.warp = 0
ASSUME RangesAssumption ==
    Ranges \subseteq Nat \X Nat /\ \A r \in Ranges : r[1] <= r[2]
ASSUME SrcAssumption == FirstSrc \in Nat

VARIABLES
    conf,       \* the instance of the template
    range,      \* localStart and localEnd of each thread
    localSize,  \* what a thread has left to do
    shared,     \* the words of the shared union
    got,        \* the source, start and size that a thread has read
    offset,     \* where a thread writes its elements in fg
    pc,         \* the control point of each thread
    worked      \* the calls of work, a bag of <<source, index>>

vars == <<conf, range, localSize, shared, got, offset, pc, worked>>

BlockSize == conf.block
WarpSize == conf.warp
Thread == 0..(BlockSize - 1)
Lane(t) == t % WarpSize
WarpOf(t) == {u \in Thread : u \div WarpSize = t \div WarpSize}
LocalSrc(t) == FirstSrc + t

(* The words of the union: tb is 0 to 3, fg.src and fg.data follow fg.     *)
Owner == 0
FgSize == BlockSize * WarpSize
FgSrc(i) == i
FgData(i) == FgSize + i
Word == 0..(2 * FgSize + 3)

Init ==
    /\ conf \in Config
    /\ range \in [Thread -> Ranges]
    /\ localSize = [t \in Thread |-> range[t][2] - range[t][1]]
    /\ shared = [w \in Word |-> Junk]
    /\ got = [t \in Thread |-> <<0, 0, 0>>]
    /\ offset = [t \in Thread |-> 0]
    /\ pc = [t \in Thread |-> "begin"]
    /\ worked = EmptyBag

At(t, here) == pc[t] = here
Goto(t, there) == pc' = [pc EXCEPT ![t] = there]

Begin(t) ==
    /\ At(t, "begin")
    /\ shared' = IF t = 0 THEN [shared EXCEPT ![Owner] = BlockSize] ELSE shared
    /\ Goto(t, "sync_begin")
    /\ UNCHANGED <<conf, range, localSize, got, offset, worked>>

(***************************************************************************)
(* block.sync(): every thread that has not returned waits, and all go on.  *)
(***************************************************************************)
Behind == [sync_begin |-> "compete", sync_competed |-> "check", sync_won |-> "read",
           sync_read |-> "work", sync_worked |-> "compete"]

Waiting(t) == pc[t] \in DOMAIN Behind

BlockSync ==
    /\ \A t \in Thread : Waiting(t) \/ At(t, "exit")
    /\ \E t \in Thread : Waiting(t)
    /\ pc' = [t \in Thread |-> IF Waiting(t) THEN Behind[pc[t]] ELSE pc[t]]
    /\ UNCHANGED <<conf, range, localSize, shared, got, offset, worked>>

(***************************************************************************)
(* The block's scheduler.  Every thread with enough work writes its number *)
(* to the owner; whose write comes last wins.                              *)
(***************************************************************************)
CompeteUnsynced(t) ==                                              \* mutant
    /\ At(t, "compete")
    /\ shared' = IF localSize[t] >= BlockSize THEN [shared EXCEPT ![Owner] = t] ELSE shared
    /\ Goto(t, "check")
    /\ UNCHANGED <<conf, range, localSize, got, offset, worked>>

Compete(t) ==
    /\ At(t, "compete")
    /\ shared' = IF localSize[t] >= BlockSize THEN [shared EXCEPT ![Owner] = t] ELSE shared
    /\ Goto(t, "sync_competed")
    /\ UNCHANGED <<conf, range, localSize, got, offset, worked>>

Check(t) ==
    /\ At(t, "check")
    /\ Goto(t, IF shared[Owner] = BlockSize THEN "warp" ELSE "win")
    /\ UNCHANGED <<conf, range, localSize, shared, got, offset, worked>>

WinForgets(t) ==                                                   \* mutant
    /\ At(t, "win")
    /\ IF shared[Owner] = t
       THEN /\ shared' = [shared EXCEPT ![1] = LocalSrc(t), ![2] = range[t][1]]
            /\ localSize' = [localSize EXCEPT ![t] = 0]
       ELSE UNCHANGED <<shared, localSize>>
    /\ Goto(t, "sync_won")
    /\ UNCHANGED <<conf, range, got, offset, worked>>

(* The winner publishes its range and marks it as processed. *)
Win(t) ==
    /\ At(t, "win")
    /\ IF shared[Owner] = t
       THEN /\ shared' = [shared EXCEPT ![1] = LocalSrc(t), ![2] = range[t][1],
                                        ![3] = localSize[t]]
            /\ localSize' = [localSize EXCEPT ![t] = 0]
       ELSE UNCHANGED <<shared, localSize>>
    /\ Goto(t, "sync_won")
    /\ UNCHANGED <<conf, range, got, offset, worked>>

(* Everybody takes the published values; the winner resets the owner. *)
ReadKeeps(t) ==                                                    \* mutant
    /\ At(t, "read")
    /\ got' = [got EXCEPT ![t] = <<shared[1], shared[2], shared[3]>>]
    /\ Goto(t, "sync_read")
    /\ UNCHANGED <<conf, range, localSize, shared, offset, worked>>

Read(t) ==
    /\ At(t, "read")
    /\ got' = [got EXCEPT ![t] = <<shared[1], shared[2], shared[3]>>]
    /\ shared' = IF shared[Owner] = t THEN [shared EXCEPT ![Owner] = BlockSize] ELSE shared
    /\ Goto(t, "sync_read")
    /\ UNCHANGED <<conf, range, localSize, offset, worked>>

(* Calls of work for every step-th element of what was got, from the first. *)
Strided(g, first, step) ==
    SetToBag({<<g[1], g[2] + j>> : j \in {k \in first..(g[3] - 1) : (k - first) % step = 0}})

Work(t) ==
    /\ At(t, "work")
    /\ worked' = worked (+) Strided(got[t], t, BlockSize)
    /\ Goto(t, "sync_worked")
    /\ UNCHANGED <<conf, range, localSize, shared, got, offset>>

(***************************************************************************)
(* The warp's scheduler: any, ballot and shfl are steps that the threads   *)
(* of a warp take together.  The first thread with enough work owns it.    *)
(***************************************************************************)
Enough(w) == {u \in w : localSize[u] >= WarpSize}

WarpShare(t) ==
    LET w == WarpOf(t)
        owner == Min(Enough(w))
    IN  /\ \A u \in w : At(u, "warp")
        /\ Enough(w) # {}
        /\ got' = [u \in Thread |-> IF u \in w THEN <<LocalSrc(owner), range[owner][1], localSize[owner]>>
                                    ELSE got[u]]
        /\ localSize' = [localSize EXCEPT ![owner] = 0]
        /\ pc' = [u \in Thread |-> IF u \in w THEN "warp_work" ELSE pc[u]]
        /\ UNCHANGED <<conf, range, shared, offset, worked>>

WarpWork(t) ==
    /\ At(t, "warp_work")
    /\ worked' = worked (+) Strided(got[t], Lane(t), WarpSize)
    /\ Goto(t, "warp")
    /\ UNCHANGED <<conf, range, localSize, shared, got, offset>>

(***************************************************************************)
(* The prefix sums that shfl_up makes with the deltas 1, 2, 4, ... below   *)
(* the warp size: Prefix[k] is the sum of each thread after k of them.     *)
(***************************************************************************)
Delta[k \in 0..WarpSize] == IF k = 0 THEN 1 ELSE 2 * Delta[k - 1]
Steps == CHOOSE k \in 0..WarpSize : Delta[k] >= WarpSize /\ \A i \in 0..(k - 1) : Delta[i] < WarpSize

Prefix[k \in 0..Steps] ==
    IF k = 0 THEN localSize
    ELSE [t \in Thread |->
            Prefix[k - 1][t]
              + (IF Lane(t) >= Delta[k - 1] THEN Prefix[k - 1][t - Delta[k - 1]] ELSE 0)]

PrefixExclusive(t) == Prefix[Steps][t]                             \* mutant
ThreadOffset(t) == Prefix[Steps][t] - localSize[t]
Total(w) == Prefix[Steps][CHOOSE u \in w : Lane(u) = WarpSize - 1]
WarpOffset(t) == (t \div WarpSize) * WarpSize * WarpSize

(* No thread of the warp has enough work: on to the rest. *)
WarpDone(t) ==
    LET w == WarpOf(t)
    IN  /\ \A u \in w : At(u, "warp")
        /\ Enough(w) = {}
        /\ IF conf.fine
           THEN /\ offset' = [u \in Thread |-> IF u \in w THEN WarpOffset(u) + ThreadOffset(u) ELSE offset[u]]
                /\ got' = [u \in Thread |-> IF u \in w THEN <<0, WarpOffset(u), Total(w)>> ELSE got[u]]
           ELSE UNCHANGED <<offset, got>>
        /\ pc' = [u \in Thread |-> IF u \in w THEN IF conf.fine THEN "scatter" ELSE "own" ELSE pc[u]]
        /\ UNCHANGED <<conf, range, localSize, shared, worked>>

Own(t) ==
    /\ At(t, "own")
    /\ worked' = IF localSize[t] > 0 THEN worked (+) Strided(<<LocalSrc(t), range[t][1], localSize[t]>>, 0, 1)
                 ELSE worked
    /\ Goto(t, "exit")
    /\ UNCHANGED <<conf, range, localSize, shared, got, offset>>

(* Fine-grained: the thread writes its elements to the shared array ... *)
Scatter(t) ==
    /\ At(t, "scatter")
    /\ shared' = [w \in Word |->
          IF w - FgSrc(offset[t]) \in 0..(localSize[t] - 1) THEN LocalSrc(t)
          ELSE IF w - FgData(offset[t]) \in 0..(localSize[t] - 1)
               THEN range[t][1] + w - FgData(offset[t])
               ELSE shared[w]]
    /\ Goto(t, "warp_sync")
    /\ UNCHANGED <<conf, range, localSize, got, offset, worked>>

WarpSync(t) ==
    /\ \A u \in WarpOf(t) : At(u, "warp_sync")
    /\ pc' = [u \in Thread |-> IF u \in WarpOf(t) THEN "gather" ELSE pc[u]]
    /\ UNCHANGED <<conf, range, localSize, shared, got, offset, worked>>

(* ... and works on every WarpSize-th element of its warp. *)
Gather(t) ==
    /\ At(t, "gather")
    /\ LET mine == {j \in Lane(t)..(got[t][3] - 1) : (j - Lane(t)) % WarpSize = 0}
       IN  worked' = worked (+) SetToBag(
              {<<shared[FgSrc(got[t][2] + j)], shared[FgData(got[t][2] + j)]>> : j \in mine})
    /\ Goto(t, "exit")
    /\ UNCHANGED <<conf, range, localSize, shared, got, offset>>

Step(t) == \/ Begin(t) \/ Compete(t) \/ Check(t) \/ Win(t) \/ Read(t) \/ Work(t)
           \/ WarpWork(t) \/ Own(t) \/ Scatter(t) \/ Gather(t)

Collective(t) == Lane(t) = 0 /\ (WarpShare(t) \/ WarpDone(t) \/ WarpSync(t))

Returned == \A t \in Thread : At(t, "exit")
Return == Returned /\ UNCHANGED vars

Next == (\E t \in Thread : Step(t) \/ Collective(t)) \/ BlockSync \/ Return

Spec == Init /\ [][Next]_vars

(* The device schedules every thread and completes every synchronization. *)
Fairness == WF_vars(Next)

FairSpec == Spec /\ Fairness
-----------------------------------------------------------------------------
Item == {<<LocalSrc(t), i>> : t \in Thread, i \in UNION {r[1]..r[2] : r \in Ranges}}
Todo == {x \in Item : LET r == range[x[1] - FirstSrc] IN r[1] <= x[2] /\ x[2] < r[2]}

BlockPoint == {"begin", "compete", "check", "win", "read", "work"} \cup DOMAIN Behind
LaterPoint == {"warp", "warp_work", "own", "scatter", "warp_sync", "gather", "exit"}

(***************************************************************************)
(* The variables have their types.                                         *)
(***************************************************************************)
TypeOK ==
    /\ conf \in Config
    /\ range \in [Thread -> Ranges]
    /\ localSize \in [Thread -> Nat]
    /\ shared \in [Word -> Nat \cup {Junk}]
    /\ got \in [Thread -> Nat \X Nat \X Nat]
    /\ offset \in [Thread -> 0..(FgSize - 1)]
    /\ pc \in [Thread -> BlockPoint \cup LaterPoint]
    /\ IsABag(worked)

(***************************************************************************)
(* Work is called once for every index of every thread's range, and for    *)
(* nothing else.                                                           *)
(***************************************************************************)
EachOnce ==
    /\ \A x \in BagToSet(worked) : x \in Todo /\ worked[x] = 1
    /\ Returned => BagToSet(worked) = Todo

(***************************************************************************)
(* "If no thread has the enough work, go to next granularity": the threads *)
(* agree on it.  While one has gone on, the others are still about to look *)
(* at the owner, and none is left in another round of the block's          *)
(* scheduler, whose barriers are for the whole block.                      *)
(***************************************************************************)
UniformExit ==
    \A t, u \in Thread :
        pc[t] \in BlockPoint /\ pc[u] \in LaterPoint => At(t, "check") /\ localSize[t] < BlockSize

(***************************************************************************)
(* All threads return.                                                     *)
(***************************************************************************)
Terminates == <>Returned
=============================================================================
