------------------------- MODULE GridBarrierProofs --------------------------
(***************************************************************************)
(* Proofs about module GridBarrier, for any number of blocks and threads,  *)
(* rounds and launches, and wherever and whenever the blocks are placed.   *)
(***************************************************************************)
EXTENDS GridBarrier, TLAPS

(***************************************************************************)
(* Arithmetic of the stride with which the threads of block 0 go through   *)
(* the blocks.  The peers of a thread are the blocks with its remainder.   *)
(***************************************************************************)
LEMMA Division ==
    ASSUME NEW a \in Nat
    PROVE  /\ a = BlockSize * (a \div BlockSize) + (a % BlockSize)
           /\ a \div BlockSize \in Nat
           /\ a % BlockSize \in Tid
  BY GridAssumption DEF Tid

LEMMA Remainder ==
    ASSUME NEW q \in Nat, NEW r \in Tid
    PROVE  (BlockSize * q + r) % BlockSize = r
  BY GridAssumption DEF Tid

LEMMA FirstPeer ==
    /\ \A i \in Tid : i % BlockSize = i
    /\ \A b \in Block : b % BlockSize \in Tid /\ b % BlockSize <= b
<1>1. ASSUME NEW i \in Tid PROVE i % BlockSize = i
  <2>1. BlockSize * 0 + i = i /\ 0 \in Nat
    BY GridAssumption DEF Tid
  <2> QED  BY <2>1, Remainder
<1>2. ASSUME NEW b \in Block PROVE b % BlockSize \in Tid /\ b % BlockSize <= b
  <2>1. b \in Nat
    BY GridAssumption DEF Block
  <2> QED  BY <2>1, GridAssumption DEF Tid
<1> QED  BY <1>1, <1>2

LEMMA NextPeer ==
    ASSUME NEW p \in Nat
    PROVE  (p + BlockSize) % BlockSize = p % BlockSize
<1>1. /\ p = BlockSize * (p \div BlockSize) + (p % BlockSize)
      /\ p \div BlockSize \in Nat /\ p % BlockSize \in Tid
  BY Division
<1>2. /\ p + BlockSize = BlockSize * ((p \div BlockSize) + 1) + (p % BlockSize)
      /\ (p \div BlockSize) + 1 \in Nat
  BY <1>1, GridAssumption DEF Tid
<1> QED  BY <1>1, <1>2, Remainder

LEMMA NoPeerBetween ==
    ASSUME NEW p \in Nat, NEW b \in Nat, p % BlockSize = b % BlockSize,
           p <= b, b < p + BlockSize
    PROVE  p = b
<1> DEFINE P == p \div BlockSize
           B1 == b \div BlockSize
           r == b % BlockSize
<1>1. /\ p = BlockSize * P + r /\ b = BlockSize * B1 + r
      /\ P \in Nat /\ B1 \in Nat /\ r \in Nat
  BY Division, GridAssumption DEF Tid
<1> HIDE DEF P, B1, r
<1>2. ~(P < B1)
  <2> SUFFICES ASSUME P < B1 PROVE FALSE
    OBVIOUS
  <2>1. BlockSize * B1 >= BlockSize * (P + 1)
    BY <1>1, GridAssumption
  <2> QED  BY <1>1, <2>1, GridAssumption
<1>3. ~(B1 < P)
  <2> SUFFICES ASSUME B1 < P PROVE FALSE
    OBVIOUS
  <2>1. BlockSize * P >= BlockSize * (B1 + 1)
    BY <1>1, GridAssumption
  <2> QED  BY <1>1, <2>1, GridAssumption
<1> QED  BY <1>1, <1>2, <1>3

(***************************************************************************)
(* The inductive invariant.  A thread is done with a round when its block  *)
(* will not wait in it any more: in block 0 when all flags are collected,  *)
(* in the others after the last CTA_SYNC.                                  *)
(***************************************************************************)
Done(t) == IF pc[t] \in {"release", "exit"} THEN round[t] + 1 ELSE round[t]

Reporting == {"report", "reported", "ack", "leave"}
Collecting == {"collect", "collected"}

(* The threads of a block are between the same two CTA_SYNCs.              *)
InStep ==
    \A b \in Block, i \in Tid :
        /\ Done(<<b, i>>) = Done(<<b, 0>>)
        /\ pc[<<b, i>>] \in Reporting <=> pc[<<b, 0>>] \in Reporting
        /\ pc[<<b, i>>] \in Collecting <=> pc[<<b, 0>>] \in Collecting

(* Each thread is in the part of Sync that is for it, and if its block is  *)
(* not of this kernel, in none.                                            *)
Placed ==
    \A b \in Block, i \in Tid :
        /\ b = 0 => pc[<<b, i>>] \notin {"ack", "leave"}
        /\ b # 0 => pc[<<b, i>>] \notin {"reported", "collect", "collected", "release"}
        /\ pc[<<b, i>>] = "ack" => i = 0
        /\ pc[<<b, i>>] # "out" => b < grid

Strides ==
    \A i \in Tid : pc[<<0, i>>] \in {"collect", "release"} => peer[i] % BlockSize = i

(* What the thread of block 0 that is responsible for block b has done.    *)
Chief(b) == <<0, b % BlockSize>>
Collected(b) ==
    \/ pc[Chief(b)] = "collected"
    \/ pc[Chief(b)] = "collect" /\ b < peer[b % BlockSize]
Unreleased(b) == pc[Chief(b)] = "release" /\ ~(peer[b % BlockSize] > b)

HasReported(b) == pc[<<b, 0>>] \in {"ack", "leave"}

(* The flag of another block goes up in the round in which block 0 is, and *)
(* down in that round, when block 0 is done with it and the other is not.  *)
FlagOfRound(b) ==
    /\ ~HasReported(b) => flag[b] = 0 /\ Done(<<0, 0>>) = Done(<<b, 0>>) /\ ~Unreleased(b)
    /\ HasReported(b) /\ flag[b] = 0 => Done(<<0, 0>>) = Done(<<b, 0>>) + 1 /\ ~Unreleased(b)
    /\ HasReported(b) /\ flag[b] = 1 =>
           /\ pc[<<b, 0>>] = "ack"
           /\ IF Unreleased(b) THEN Done(<<0, 0>>) = Done(<<b, 0>>) + 1
                               ELSE Done(<<0, 0>>) = Done(<<b, 0>>)

OtherFlags == \A b \in Block \ {0} : b < grid => FlagOfRound(b)

OwnFlag ==
    flag[0] = 1 <=> \/ pc[<<0, 0>>] \in {"reported", "collect", "collected"}
                    \/ Unreleased(0)

AllCollected == \A b \in Block : b < grid /\ Collected(b) => flag[b] = 1
Unused == \A b \in Block : grid <= b => flag[b] = 0

(* A thread is in Sync only if it has rounds left.                         *)
Goes == \A t \in Thread : pc[t] # "out" => round[t] < Rounds

Inv == /\ TypeOK /\ Goes /\ InStep /\ Placed /\ Strides /\ OtherFlags /\ OwnFlag
       /\ AllCollected /\ Unused

LEMMA Domains ==
    /\ 0 \in Block /\ 0 \in Tid /\ Block \subseteq Nat /\ Tid \subseteq Nat
    /\ MaxGrid \in Nat \ {0} /\ BlockSize \in Nat \ {0} /\ Rounds \in Nat /\ MaxLaunches \in Nat
    /\ \A b \in Block, i \in Tid : <<b, i>> \in Thread
    /\ \A t \in Thread : t[1] \in Block /\ t[2] \in Tid /\ t = <<t[1], t[2]>>
  BY GridAssumption, BoundAssumption DEF Block, Tid, Thread

LEMMA GotoFacts ==
    ASSUME pc \in [Thread -> Point], NEW b \in Block, NEW i \in Tid, NEW there \in Point,
           Goto(<<b, i>>, there)
    PROVE  /\ pc' \in [Thread -> Point]
           /\ \A c \in Block, j \in Tid :
                 pc'[<<c, j>>] = IF c = b /\ j = i THEN there ELSE pc[<<c, j>>]
  BY Domains DEF Goto

LEMMA ActiveFacts ==
    ASSUME NEW b \in Block, NEW i \in Tid
    PROVE  <<b, i>> \in Active <=> b < grid
  BY Domains DEF Active

LEMMA StrideType ==
    ASSUME peer \in [Tid -> 0..(MaxGrid + BlockSize - 1)], NEW i \in Tid,
           grid \in 0..MaxGrid, peer[i] < grid, peer' = [peer EXCEPT ![i] = @ + BlockSize]
    PROVE  peer' \in [Tid -> 0..(MaxGrid + BlockSize - 1)]
<1>1. peer[i] \in Nat /\ grid \in Nat /\ grid <= MaxGrid /\ MaxGrid \in Nat /\ BlockSize \in Nat
  BY Domains
<1>2. peer[i] + BlockSize \in 0..(MaxGrid + BlockSize - 1)
  BY <1>1
<1> QED  BY <1>2

(***************************************************************************)
(* The variables have their types.                                         *)
(***************************************************************************)
LEMMA StepTypeOK ==
    ASSUME TypeOK, NEW t \in Thread, Step(t), Goes
    PROVE  TypeOK' /\ Goes'
<1> DEFINE b == t[1]
           i == t[2]
<1>1. b \in Block /\ i \in Tid /\ t = <<b, i>>
  BY Domains
<1> HIDE DEF b, i
<1>2. CASE Arrive(t)
  BY <1>2, Domains DEF TypeOK, device, Arrive, Goto, Point, Goes
<1>3. CASE Report(t)
  BY <1>1, <1>3, Domains DEF TypeOK, device, Report, Reported, Goto, Point, Goes, At
<1>4. CASE Ack(t)
  BY <1>4, Domains DEF TypeOK, device, Ack, Goto, Point, Goes, At
<1>5. CASE Return(t)
  BY <1>5, Domains DEF TypeOK, device, Return, Goto, Point, Goes, At
<1>6. CASE b = 0 /\ Collect(i)
  <2>1. pc[t] = "collect" /\ round[t] < Rounds /\ UNCHANGED <<grid, allocated, flag, round, launches, device>>
    BY <1>1, <1>6 DEF Collect, At, Goes
  <2>2. peer' \in [Tid -> 0..(MaxGrid + BlockSize - 1)]
    <3>1. CASE peer[i] < grid
      BY <1>1, <1>6, <3>1, StrideType DEF Collect, TypeOK
    <3>2. CASE ~(peer[i] < grid)
      BY <1>6, <3>2 DEF Collect, TypeOK
    <3> QED  BY <3>1, <3>2
  <2>3. pc' = pc \/ Goto(t, "collected")
    BY <1>1, <1>6 DEF Collect
  <2> QED  BY <2>1, <2>2, <2>3 DEF TypeOK, device, Goto, Goes, Point
<1>7. CASE b = 0 /\ Release(i)
  <2>1. pc[t] = "release" /\ round[t] < Rounds /\ UNCHANGED <<grid, allocated, round, launches, device>>
    BY <1>1, <1>7 DEF Release, At, Goes
  <2>2. peer' \in [Tid -> 0..(MaxGrid + BlockSize - 1)]
    <3>1. CASE peer[i] < grid
      BY <1>1, <1>7, <3>1, StrideType DEF Release, TypeOK
    <3>2. CASE ~(peer[i] < grid)
      BY <1>7, <3>2 DEF Release, TypeOK
    <3> QED  BY <3>1, <3>2
  <2>3. pc' = pc \/ Goto(t, "exit")
    BY <1>1, <1>7 DEF Release
  <2>4. flag' \in [Block -> {0, 1}]
    BY <1>7 DEF Release, TypeOK
  <2> QED  BY <2>1, <2>2, <2>3, <2>4 DEF TypeOK, device, Goto, Goes, Point
<1> QED  BY <1>2, <1>3, <1>4, <1>5, <1>6, <1>7 DEF Step, b, i

LEMMA SyncTypeOK ==
    ASSUME TypeOK, NEW b \in Block, NEW from \in DOMAIN Behind, CtaSync(b, from), Goes
    PROVE  TypeOK' /\ Goes'
<1>1. from \in {"entry", "reported", "collected", "leave"} /\ Behind[from] \in Point
  BY DEF Behind, Point
<1>2. \A i \in Tid : pc[<<b, i>>] # "out"
  BY <1>1 DEF CtaSync, At
<1>3. /\ pc' \in [Thread -> Point]
      /\ \A t \in Thread : pc'[t] # "out" => pc[t] # "out"
  <2>1. pc' \in [Thread -> Point]
    BY <1>1 DEF CtaSync, TypeOK
  <2>2. ASSUME NEW t \in Thread, pc'[t] # "out" PROVE pc[t] # "out"
    BY <1>2, <2>2, Domains DEF CtaSync
  <2> QED  BY <2>1, <2>2
<1>4. peer' \in [Tid -> 0..(MaxGrid + BlockSize - 1)]
  <2>1. Tid \subseteq 0..(MaxGrid + BlockSize - 1)
    BY Domains DEF Tid
  <2> QED  BY <2>1 DEF CtaSync, TypeOK
<1> QED  BY <1>3, <1>4 DEF CtaSync, TypeOK, device, Goes

LEMMA NextTypeOK == TypeOK /\ Goes /\ [Next]_vars => TypeOK' /\ Goes'
<1> SUFFICES ASSUME TypeOK, Goes, [Next]_vars PROVE TypeOK' /\ Goes'
  OBVIOUS
<1>1. CASE HostReset
  BY <1>1, Domains DEF HostReset, TypeOK, device, Goes
<1>2. CASE \E n \in 1..MaxGrid, c \in Capacities : Launch(n, c)
  <2> PICK n \in 1..MaxGrid, c \in Capacities : Launch(n, c)
    BY <1>2
  <2>1. n \in 0..MaxGrid /\ launches + 1 \in 0..MaxLaunches /\ 0 \in 0..Rounds
    BY Domains DEF Launch, TypeOK
  <2>2. \A t \in Thread : pc[t] # "out" => round'[t] < Rounds
    <3>1. ASSUME NEW t \in Thread, pc[t] # "out" PROVE round'[t] < Rounds
      <4>1. round'[t] = 0 /\ round[t] \in Nat /\ round[t] < Rounds
        BY <3>1, Domains DEF Launch, TypeOK, Goes
      <4> QED  BY <4>1, Domains
    <3> QED  BY <3>1
  <2> QED  BY <2>1, <2>2 DEF Launch, TypeOK, Goes
<1>3. CASE \E t \in Thread : Step(t)
  BY <1>3, StepTypeOK
<1>4. CASE \E b \in Block : Sync(b)
  BY <1>4, SyncTypeOK DEF Sync
<1>5. CASE UNCHANGED vars
  BY <1>5 DEF vars, TypeOK, Goes
<1>6. ASSUME NEW t \in Thread, Spin(t) PROVE UNCHANGED vars
  BY <1>6 DEF Spin
<1>7. ASSUME NEW b \in Block, Place(b) PROVE TypeOK' /\ Goes'
  BY <1>7 DEF Place, TypeOK, Goes
<1> QED  BY <1>1, <1>2, <1>3, <1>4, <1>5, <1>6, <1>7 DEF Next, Idle

LEMMA InitTypeOK == Init => TypeOK /\ Goes
  BY Domains DEF Init, TypeOK, Goes, Point

(***************************************************************************)
(* The flags, the positions of the threads and the rounds of a kernel keep *)
(* their types, for any kernels.                                           *)
(***************************************************************************)
THEOREM GridTypeCorrect == Spec => []TypeOK
<1> QED  BY InitTypeOK, NextTypeOK, PTL DEF Spec

(***************************************************************************)
(* Steps that leave every thread in its part of the round: between the     *)
(* same CTA_SYNCs, and with the same rounds done.                          *)
(***************************************************************************)
SamePart ==
    \A b \in Block, i \in Tid :
        /\ Done(<<b, i>>)' = Done(<<b, i>>)
        /\ pc'[<<b, i>>] \in Reporting <=> pc[<<b, i>>] \in Reporting
        /\ pc'[<<b, i>>] \in Collecting <=> pc[<<b, i>>] \in Collecting

LEMMA SamePartInStep == ASSUME InStep, SamePart PROVE InStep'
<1> SUFFICES ASSUME NEW b \in Block, NEW i \in Tid
             PROVE  /\ Done(<<b, i>>)' = Done(<<b, 0>>)'
                    /\ pc'[<<b, i>>] \in Reporting <=> pc'[<<b, 0>>] \in Reporting
                    /\ pc'[<<b, i>>] \in Collecting <=> pc'[<<b, 0>>] \in Collecting
  BY DEF InStep
<1>1. 0 \in Tid
  BY Domains
<1>2. /\ Done(<<b, i>>)' = Done(<<b, i>>) /\ Done(<<b, 0>>)' = Done(<<b, 0>>)
      /\ pc'[<<b, i>>] \in Reporting <=> pc[<<b, i>>] \in Reporting
      /\ pc'[<<b, 0>>] \in Reporting <=> pc[<<b, 0>>] \in Reporting
      /\ pc'[<<b, i>>] \in Collecting <=> pc[<<b, i>>] \in Collecting
      /\ pc'[<<b, 0>>] \in Collecting <=> pc[<<b, 0>>] \in Collecting
  BY <1>1 DEF SamePart
<1>3. /\ Done(<<b, i>>) = Done(<<b, 0>>)
      /\ pc[<<b, i>>] \in Reporting <=> pc[<<b, 0>>] \in Reporting
      /\ pc[<<b, i>>] \in Collecting <=> pc[<<b, 0>>] \in Collecting
  BY DEF InStep
<1> QED  BY <1>2, <1>3

(***************************************************************************)
(* What block 0 has done for a block is seen at one of its threads.        *)
(***************************************************************************)
LEMMA ChiefFacts ==
    ASSUME NEW b \in Block
    PROVE  Chief(b) = <<0, b % BlockSize>> /\ b % BlockSize \in Tid /\ Chief(b) \in Thread
  BY FirstPeer, Domains DEF Chief

Outside == {"out", "entry", "exit"}

(***************************************************************************)
(* Steps that only move threads to, from and within the first part of Sync *)
(* and out of it.                                                          *)
(***************************************************************************)
LEMMA QuietInv ==
    ASSUME Inv, TypeOK', Goes', UNCHANGED <<grid, flag, peer>>,
           \A b \in Block, i \in Tid :
               \/ pc'[<<b, i>>] = pc[<<b, i>>] /\ round'[<<b, i>>] = round[<<b, i>>]
               \/ /\ pc[<<b, i>>] \in Outside /\ pc'[<<b, i>>] \in Outside
                  /\ Done(<<b, i>>)' = Done(<<b, i>>)
                  /\ pc'[<<b, i>>] # "out" => b < grid
    PROVE  Inv'
<1>1. \A b \in Block, i \in Tid :
          /\ Done(<<b, i>>)' = Done(<<b, i>>)
          /\ pc'[<<b, i>>] = pc[<<b, i>>] \/ (pc[<<b, i>>] \in Outside /\ pc'[<<b, i>>] \in Outside)
          /\ pc'[<<b, i>>] # pc[<<b, i>>] /\ pc'[<<b, i>>] # "out" => b < grid
  BY DEF Done
<1>2. \A b \in Block : Collected(b)' = Collected(b) /\ Unreleased(b)' = Unreleased(b)
  <2> SUFFICES ASSUME NEW b \in Block
               PROVE  Collected(b)' = Collected(b) /\ Unreleased(b)' = Unreleased(b)
    OBVIOUS
  <2>1. pc'[Chief(b)] = pc[Chief(b)] \/ (pc[Chief(b)] \in Outside /\ pc'[Chief(b)] \in Outside)
    BY <1>1, ChiefFacts, Domains
  <2> HIDE DEF Chief
  <2> QED  BY <2>1, ChiefFacts DEF Collected, Unreleased, Outside
<1>3. \A b \in Block : HasReported(b)' = HasReported(b) /\ (HasReported(b) => pc'[<<b, 0>>] = pc[<<b, 0>>])
  BY <1>1, Domains DEF HasReported, Outside
<1>4. InStep'
  <2>1. SamePart
    BY <1>1 DEF Outside, Reporting, Collecting, SamePart
  <2> QED  BY <2>1, SamePartInStep DEF Inv
<1>5. Placed'
  BY ZenonT(40), <1>1, Domains DEF Inv, Placed, Outside
<1>6. Strides'
  BY <1>1, Domains DEF Inv, Strides, Outside
<1>7. OtherFlags'
  <2>1. UNCHANGED flag /\ UNCHANGED grid /\ \A b \in Block : Done(<<b, 0>>)' = Done(<<b, 0>>)
    BY <1>1, Domains
  <2> HIDE DEF Done, HasReported, Unreleased
  <2> QED  BY <1>2, <1>3, <2>1, Domains DEF Inv, OtherFlags, FlagOfRound
<1>8. OwnFlag'
  BY <1>1, <1>2, Domains DEF Inv, OwnFlag, Outside
<1>9. AllCollected' /\ Unused'
  BY <1>2 DEF Inv, AllCollected, Unused
<1> QED  BY <1>4, <1>5, <1>6, <1>7, <1>8, <1>9 DEF Inv

LEMMA ArriveInv == ASSUME Inv, TypeOK', Goes', NEW t \in Thread, Arrive(t) PROVE Inv'
<1> PICK b \in Block, i \in Tid : t = <<b, i>>
  BY Domains
<1>1. /\ pc[<<b, i>>] = "out" /\ b < grid
      /\ \A c \in Block, j \in Tid :
            pc'[<<c, j>>] = IF c = b /\ j = i THEN "entry" ELSE pc[<<c, j>>]
  <2>1. Goto(<<b, i>>, "entry") /\ "entry" \in Point /\ pc \in [Thread -> Point]
    BY DEF Arrive, Inv, TypeOK, Point
  <2> QED  BY <2>1, GotoFacts, ActiveFacts DEF Arrive, At
<1>2. UNCHANGED <<grid, flag, peer, round>>
  BY DEF Arrive
<1> QED  BY <1>1, <1>2, QuietInv DEF Outside, Done

LEMMA ReturnInv == ASSUME Inv, TypeOK', Goes', NEW t \in Thread, Return(t) PROVE Inv'
<1> PICK b \in Block, i \in Tid : t = <<b, i>>
  BY Domains
<1>1. /\ pc[<<b, i>>] = "exit"
      /\ \A c \in Block, j \in Tid :
            /\ pc'[<<c, j>>] = IF c = b /\ j = i THEN "out" ELSE pc[<<c, j>>]
            /\ round'[<<c, j>>] = IF c = b /\ j = i THEN round[<<c, j>>] + 1 ELSE round[<<c, j>>]
  <2>1. \A c \in Block, j \in Tid :
            round'[<<c, j>>] = IF c = b /\ j = i THEN round[<<c, j>>] + 1 ELSE round[<<c, j>>]
    BY Domains DEF Return, Inv, TypeOK
  <2>2. Goto(<<b, i>>, "out") /\ "out" \in Point /\ pc \in [Thread -> Point]
    BY DEF Return, Inv, TypeOK, Point
  <2> QED  BY <2>1, <2>2, GotoFacts DEF Return, At
<1>2. UNCHANGED <<grid, flag, peer>>
  BY DEF Return
<1>3. Done(<<b, i>>)' = Done(<<b, i>>)
  BY <1>1 DEF Done
<1> QED  BY <1>1, <1>2, <1>3, QuietInv DEF Outside

LEMMA ReportInv == ASSUME Inv, TypeOK', Goes', NEW t \in Thread, Report(t) PROVE Inv'
<1> PICK b \in Block, i \in Tid : t = <<b, i>>
  BY Domains
<1> DEFINE there == Reported(<<b, i>>)
<1>1. there = IF b = 0 THEN "reported" ELSE IF i = 0 THEN "ack" ELSE "leave"
  BY DEF Reported
<1>2. /\ pc[<<b, i>>] = "report" /\ b < grid
      /\ \A c \in Block, j \in Tid :
            pc'[<<c, j>>] = IF c = b /\ j = i THEN there ELSE pc[<<c, j>>]
  <2>1. Goto(<<b, i>>, there) /\ there \in Point /\ pc \in [Thread -> Point]
    BY <1>1 DEF Report, Inv, TypeOK, Point
  <2> HIDE DEF there
  <2> QED  BY <2>1, GotoFacts, ActiveFacts DEF Report, At
<1>3. /\ UNCHANGED <<grid, peer, round>>
      /\ \A c \in Block : flag'[c] = IF c = b /\ i = 0 THEN 1 ELSE flag[c]
  BY Domains DEF Report, Inv, TypeOK
<1> HIDE DEF there
<1>4. SamePart
  BY <1>1, <1>2, <1>3 DEF SamePart, Done, Reporting, Collecting
<1>5. \A c \in Block : Collected(c)' = Collected(c) /\ Unreleased(c)' = Unreleased(c)
  <2> SUFFICES ASSUME NEW c \in Block
               PROVE  Collected(c)' = Collected(c) /\ Unreleased(c)' = Unreleased(c)
    OBVIOUS
  <2>1. \/ pc'[Chief(c)] = pc[Chief(c)]
        \/ pc[Chief(c)] = "report" /\ pc'[Chief(c)] = "reported"
    BY <1>1, <1>2, ChiefFacts, Domains
  <2> HIDE DEF Chief
  <2> QED  BY <1>3, <2>1 DEF Collected, Unreleased
<1>6. InStep'
  BY <1>4, SamePartInStep DEF Inv
<1>7. Placed'
  BY ZenonT(40), <1>1, <1>2, <1>3 DEF Inv, Placed
<1>8. Strides'
  BY <1>1, <1>2, <1>3, Domains DEF Inv, Strides
<1>9. OtherFlags'
  <2> SUFFICES ASSUME NEW c \in Block \ {0}, c < grid, FlagOfRound(c)
               PROVE  FlagOfRound(c)'
    BY <1>3 DEF Inv, OtherFlags
  <2>1. Done(<<0, 0>>)' = Done(<<0, 0>>) /\ Done(<<c, 0>>)' = Done(<<c, 0>>)
    BY <1>4, Domains DEF SamePart
  <2>2. CASE c = b /\ i = 0
    <3>1. flag'[c] = 1 /\ pc'[<<c, 0>>] = "ack" /\ HasReported(c)' /\ ~HasReported(c)
      BY <1>1, <1>2, <1>3, <2>2 DEF HasReported
    <3>2. Done(<<0, 0>>) = Done(<<c, 0>>) /\ ~Unreleased(c)
      BY <3>1 DEF FlagOfRound
    <3> QED  BY <1>5, <2>1, <3>1, <3>2 DEF FlagOfRound
  <2>3. CASE ~(c = b /\ i = 0)
    <3>1. flag'[c] = flag[c] /\ pc'[<<c, 0>>] = pc[<<c, 0>>] /\ HasReported(c)' = HasReported(c)
      BY <1>2, <1>3, <2>3, Domains DEF HasReported
    <3> QED  BY <1>5, <2>1, <3>1 DEF FlagOfRound
  <2> QED  BY <2>2, <2>3
<1>10. OwnFlag'
  BY <1>1, <1>2, <1>3, <1>5, Domains DEF Inv, OwnFlag
<1>11. AllCollected' /\ Unused'
  BY <1>2, <1>3, <1>5, Domains DEF Inv, AllCollected, Unused, TypeOK
<1> QED  BY <1>6, <1>7, <1>8, <1>9, <1>10, <1>11 DEF Inv

LEMMA AckInv == ASSUME Inv, TypeOK', Goes', NEW t \in Thread, Ack(t) PROVE Inv'
<1> PICK b \in Block, i \in Tid : t = <<b, i>>
  BY Domains
<1>1. /\ pc[<<b, i>>] = "ack" /\ b < grid
      /\ \A c \in Block, j \in Tid :
            pc'[<<c, j>>] = IF c = b /\ j = i THEN "leave" ELSE pc[<<c, j>>]
  <2>1. Goto(<<b, i>>, "leave") /\ "leave" \in Point /\ pc \in [Thread -> Point]
    BY DEF Ack, Inv, TypeOK, Point
  <2> QED  BY <2>1, GotoFacts, ActiveFacts DEF Ack, At
<1>2. UNCHANGED <<grid, peer, round, flag>> /\ flag[b] = 0
  <2>1. flag[b] # 1 /\ flag[b] \in {0, 1}
    BY DEF Ack, Inv, TypeOK
  <2> QED  BY <2>1 DEF Ack
<1>3. b # 0 /\ i = 0
  BY <1>1 DEF Inv, Placed
<1>4. SamePart
  BY <1>1, <1>2 DEF SamePart, Done, Reporting, Collecting
<1>5. \A c \in Block : Collected(c)' = Collected(c) /\ Unreleased(c)' = Unreleased(c)
  <2> SUFFICES ASSUME NEW c \in Block
               PROVE  Collected(c)' = Collected(c) /\ Unreleased(c)' = Unreleased(c)
    OBVIOUS
  <2>1. pc'[Chief(c)] = pc[Chief(c)]
    BY <1>1, <1>3, ChiefFacts, Domains
  <2> HIDE DEF Chief
  <2> QED  BY <1>2, <2>1 DEF Collected, Unreleased
<1>6. InStep'
  BY <1>4, SamePartInStep DEF Inv
<1>7. Placed' /\ Strides'
  <2>1. Placed'
    <3>1. \A c \in Block, j \in Tid :
              \/ pc'[<<c, j>>] = pc[<<c, j>>]
              \/ c # 0 /\ pc'[<<c, j>>] = "leave" /\ c < grid
      BY <1>1, <1>3
    <3> QED  BY ZenonT(40), <1>2, <3>1 DEF Inv, Placed
  <2>2. \A j \in Tid : pc'[<<0, j>>] = pc[<<0, j>>]
    BY <1>1, <1>3, Domains
  <2> QED  BY <1>2, <2>1, <2>2 DEF Inv, Strides
<1>8. OtherFlags'
  <2> SUFFICES ASSUME NEW c \in Block \ {0}, c < grid, FlagOfRound(c)
               PROVE  FlagOfRound(c)'
    BY <1>2 DEF Inv, OtherFlags
  <2>1. Done(<<0, 0>>)' = Done(<<0, 0>>) /\ Done(<<c, 0>>)' = Done(<<c, 0>>)
    BY <1>4, Domains DEF SamePart
  <2>2. HasReported(c)' = HasReported(c) /\ flag'[c] = flag[c]
    BY <1>1, <1>2, <1>3 DEF HasReported
  <2>3. flag[c] = 1 => pc'[<<c, 0>>] = pc[<<c, 0>>]
    <3>1. flag[c] = 1 => c # b
      BY <1>2
    <3> QED  BY <1>1, <3>1, Domains
  <2> QED  BY <1>5, <2>1, <2>2, <2>3 DEF FlagOfRound
<1>9. OwnFlag' /\ AllCollected' /\ Unused'
  BY <1>1, <1>2, <1>3, <1>5, Domains DEF Inv, OwnFlag, AllCollected, Unused
<1> QED  BY <1>6, <1>7, <1>8, <1>9 DEF Inv

(***************************************************************************)
(* Block 0.  Collecting leaves all flags as they are.                      *)
(***************************************************************************)
LEMMA CollectInv == ASSUME Inv, TypeOK', Goes', NEW i \in Tid, Collect(i) PROVE Inv'
<1>1. /\ pc[<<0, i>>] = "collect" /\ 0 < grid /\ UNCHANGED <<grid, round, flag>>
      /\ peer[i] % BlockSize = i /\ peer[i] \in Nat /\ grid \in Nat /\ grid <= MaxGrid
  <2>1. pc[<<0, i>>] = "collect" /\ 0 < grid /\ UNCHANGED <<grid, round, flag>>
    BY ActiveFacts, Domains DEF Collect, At
  <2> QED  BY <2>1, Domains DEF Inv, Strides, TypeOK
<1>2. /\ \A c \in Block, j \in Tid :
            pc'[<<c, j>>] = IF c = 0 /\ j = i /\ peer[i] >= grid THEN "collected" ELSE pc[<<c, j>>]
      /\ \A j \in Tid : peer'[j] = IF j = i /\ peer[i] < grid THEN peer[j] + BlockSize ELSE peer[j]
      /\ peer[i] < grid => flag[peer[i]] # 0
  <2>1. CASE peer[i] < grid
    <3>1. UNCHANGED pc /\ flag[peer[i]] # 0 /\ peer' = [peer EXCEPT ![i] = @ + BlockSize]
      BY <2>1 DEF Collect
    <3>2. ~(peer[i] >= grid)
      BY <1>1, <2>1, Domains DEF Inv, TypeOK
    <3> QED  BY <2>1, <3>1, <3>2 DEF Inv, TypeOK
  <2>2. CASE ~(peer[i] < grid)
    <3>1. Goto(<<0, i>>, "collected") /\ UNCHANGED peer /\ peer[i] >= grid
      BY <1>1, <2>2, Domains DEF Collect, Inv, TypeOK
    <3>2. "collected" \in Point /\ pc \in [Thread -> Point]
      BY DEF Inv, TypeOK, Point
    <3> QED  BY <2>2, <3>1, <3>2, GotoFacts, Domains
  <2> QED  BY <2>1, <2>2
<1>3. SamePart
  BY <1>1, <1>2 DEF SamePart, Done, Reporting, Collecting
<1>4. \A c \in Block : Unreleased(c)' = Unreleased(c)
  <2> SUFFICES ASSUME NEW c \in Block PROVE Unreleased(c)' = Unreleased(c)
    OBVIOUS
  <2>1. CASE c % BlockSize = i
    <3>1. pc[Chief(c)] = "collect" /\ pc'[Chief(c)] # "release"
      BY <1>1, <1>2, <2>1, ChiefFacts, Domains
    <3> QED  BY <3>1 DEF Unreleased
  <2>2. CASE c % BlockSize # i
    <3>1. pc'[Chief(c)] = pc[Chief(c)] /\ peer'[c % BlockSize] = peer[c % BlockSize]
      BY <1>1, <1>2, <2>2, ChiefFacts, Domains
    <3> QED  BY <3>1 DEF Unreleased
  <2> QED  BY <2>1, <2>2
<1>5. AllCollected'
  <2> SUFFICES ASSUME NEW c \in Block, c < grid, Collected(c)' PROVE flag[c] = 1
    BY <1>1 DEF AllCollected
  <2>1. CASE c % BlockSize # i
    <3>1. pc'[Chief(c)] = pc[Chief(c)] /\ peer'[c % BlockSize] = peer[c % BlockSize]
      BY <1>1, <1>2, <2>1, ChiefFacts, Domains
    <3> QED  BY <3>1 DEF Collected, Inv, AllCollected
  <2>2. CASE c % BlockSize = i /\ peer[i] >= grid
    <3>1. pc[Chief(c)] = "collect"
      BY <1>1, <2>2, ChiefFacts
    <3>2. c < peer[i]
      BY <1>1, <2>2, Domains
    <3> QED  BY <2>2, <3>1, <3>2 DEF Collected, Inv, AllCollected
  <2>3. CASE c % BlockSize = i /\ ~(peer[i] >= grid)
    <3>1. /\ pc[Chief(c)] = "collect" /\ pc'[Chief(c)] = "collect"
          /\ peer[i] < grid /\ peer'[i] = peer[i] + BlockSize
      <4>1. Chief(c) = <<0, i>> /\ 0 \in Block
        BY <2>3, ChiefFacts, Domains
      <4>2. peer[i] < grid
        BY <1>1, <2>3
      <4> QED  BY <1>1, <1>2, <2>3, <4>1, <4>2
    <3>2. c < peer[i] + BlockSize
      BY <2>3, <3>1 DEF Collected
    <3>3. CASE c < peer[i]
      BY <2>3, <3>1, <3>3 DEF Collected, Inv, AllCollected
    <3>4. CASE ~(c < peer[i])
      <4>1. c \in Nat /\ peer[i] <= c
        BY <1>1, <3>4, Domains
      <4>2. peer[i] = c
        BY <1>1, <2>3, <3>2, <4>1, NoPeerBetween
      <4>3. flag[c] # 0 /\ flag[c] \in {0, 1}
        BY <1>2, <3>1, <4>2 DEF Inv, TypeOK
      <4> QED  BY <4>3
    <3> QED  BY <3>3, <3>4
  <2> QED  BY <2>1, <2>2, <2>3
<1>6. InStep'
  BY <1>3, SamePartInStep DEF Inv
<1>7. Placed'
  <2>1. \A c \in Block, j \in Tid :
            \/ pc'[<<c, j>>] = pc[<<c, j>>]
            \/ c = 0 /\ pc'[<<c, j>>] = "collected"
    BY <1>2
  <2> QED  BY <1>1, <2>1 DEF Inv, Placed
<1>8. Strides'
  BY <1>1, <1>2, NextPeer, Domains DEF Inv, Strides
<1>9. OtherFlags'
  <2> SUFFICES ASSUME NEW c \in Block \ {0}, c < grid, FlagOfRound(c)
               PROVE  FlagOfRound(c)'
    BY <1>1 DEF Inv, OtherFlags
  <2>1. Done(<<0, 0>>)' = Done(<<0, 0>>) /\ Done(<<c, 0>>)' = Done(<<c, 0>>)
    BY <1>3, Domains DEF SamePart
  <2>2. pc'[<<c, 0>>] = pc[<<c, 0>>] /\ HasReported(c)' = HasReported(c)
    BY <1>2, Domains DEF HasReported
  <2> QED  BY <1>1, <1>4, <2>1, <2>2 DEF FlagOfRound
<1>10. OwnFlag' /\ Unused'
  BY <1>1, <1>2, <1>4, Domains DEF Inv, OwnFlag, Unused
<1> QED  BY <1>5, <1>6, <1>7, <1>8, <1>9, <1>10 DEF Inv

LEMMA ReleaseInv == ASSUME Inv, TypeOK', Goes', NEW i \in Tid, Release(i) PROVE Inv'
<1>1. /\ pc[<<0, i>>] = "release" /\ 0 < grid /\ UNCHANGED <<grid, round>>
      /\ peer[i] % BlockSize = i /\ peer[i] \in Nat /\ grid \in Nat /\ grid <= MaxGrid
  <2>1. pc[<<0, i>>] = "release" /\ 0 < grid /\ UNCHANGED <<grid, round>>
    BY ActiveFacts, Domains DEF Release, At
  <2> QED  BY <2>1, Domains DEF Inv, Strides, TypeOK
<1>2. /\ \A c \in Block, j \in Tid :
            pc'[<<c, j>>] = IF c = 0 /\ j = i /\ peer[i] >= grid THEN "exit" ELSE pc[<<c, j>>]
      /\ \A j \in Tid : peer'[j] = IF j = i /\ peer[i] < grid THEN peer[j] + BlockSize ELSE peer[j]
      /\ \A c \in Block : flag'[c] = IF c = peer[i] /\ peer[i] < grid THEN 0 ELSE flag[c]
  <2>1. CASE peer[i] < grid
    <3>1. /\ UNCHANGED pc /\ peer' = [peer EXCEPT ![i] = @ + BlockSize]
          /\ flag' = [flag EXCEPT ![peer[i]] = 0]
      BY <2>1 DEF Release
    <3>2. ~(peer[i] >= grid) /\ peer[i] \in Block
      BY <1>1, <2>1, Domains DEF Block
    <3> QED  BY <2>1, <3>1, <3>2 DEF Inv, TypeOK
  <2>2. CASE ~(peer[i] < grid)
    <3>1. Goto(<<0, i>>, "exit") /\ UNCHANGED <<peer, flag>> /\ peer[i] >= grid
      BY <1>1, <2>2 DEF Release
    <3>2. "exit" \in Point /\ pc \in [Thread -> Point]
      BY DEF Inv, TypeOK, Point
    <3> QED  BY <2>2, <3>1, <3>2, GotoFacts, Domains
  <2> QED  BY <2>1, <2>2
<1>3. SamePart
  BY <1>1, <1>2 DEF SamePart, Done, Reporting, Collecting
<1>4. \A c \in Block : Collected(c)' = Collected(c)
  <2> SUFFICES ASSUME NEW c \in Block PROVE Collected(c)' = Collected(c)
    OBVIOUS
  <2>1. CASE c % BlockSize = i
    <3>1. pc[Chief(c)] = "release" /\ pc'[Chief(c)] \in {"release", "exit"}
      BY <1>1, <1>2, <2>1, ChiefFacts, Domains
    <3> QED  BY <3>1 DEF Collected
  <2>2. CASE c % BlockSize # i
    <3>1. pc'[Chief(c)] = pc[Chief(c)] /\ peer'[c % BlockSize] = peer[c % BlockSize]
      BY <1>1, <1>2, <2>2, ChiefFacts, Domains
    <3> QED  BY <3>1 DEF Collected
  <2> QED  BY <2>1, <2>2
(* The thread releases the block peer[i] and no other one.                 *)
<1>5. \A c \in Block : c < grid /\ c # peer[i] => Unreleased(c)' = Unreleased(c)
  <2> SUFFICES ASSUME NEW c \in Block, c < grid, c # peer[i] PROVE Unreleased(c)' = Unreleased(c)
    OBVIOUS
  <2>0. c \in Nat
    BY Domains
  <2>1. CASE c % BlockSize # i
    <3>1. pc'[Chief(c)] = pc[Chief(c)] /\ peer'[c % BlockSize] = peer[c % BlockSize]
      BY <1>1, <1>2, <2>1, ChiefFacts, Domains
    <3> QED  BY <3>1 DEF Unreleased
  <2>2. CASE c % BlockSize = i /\ peer[i] >= grid
    <3>1. pc'[Chief(c)] = "exit"
      BY <1>2, <2>2, ChiefFacts, Domains
    <3>2. peer[i] > c
      BY <1>1, <2>0, <2>2
    <3> QED  BY <2>2, <3>1, <3>2 DEF Unreleased
  <2>3. CASE c % BlockSize = i /\ ~(peer[i] >= grid)
    <3>1. peer[i] < grid
      BY <1>1, <2>3
    <3>2. Chief(c) = <<0, i>> /\ 0 \in Block
      BY <2>3, ChiefFacts, Domains
    <3>3. pc'[Chief(c)] = pc[Chief(c)] /\ peer'[i] = peer[i] + BlockSize
      BY <1>2, <2>3, <3>1, <3>2
    <3>4. peer'[i] > c <=> peer[i] > c
      <4>1. peer[i] <= c => ~(c < peer[i] + BlockSize)
        BY <1>1, <2>0, <2>3, NoPeerBetween
      <4> QED  BY <1>1, <2>0, <3>3, <4>1, Domains
    <3> QED  BY <2>3, <3>3, <3>4 DEF Unreleased
  <2> QED  BY <2>1, <2>2, <2>3
<1>6. \A p \in Block : p < grid /\ p = peer[i] =>
          /\ Chief(p) = <<0, i>>
          /\ Unreleased(p) /\ ~Unreleased(p)' /\ ~Collected(p)
  <2> SUFFICES ASSUME NEW p \in Block, p < grid, p = peer[i]
               PROVE  /\ Chief(p) = <<0, i>>
                      /\ Unreleased(p) /\ ~Unreleased(p)' /\ ~Collected(p)
    OBVIOUS
  <2>1. Chief(p) = <<0, i>>
    BY <1>1, ChiefFacts
  <2>2. Unreleased(p) /\ ~Collected(p)
    BY <1>1, <2>1 DEF Unreleased, Collected
  <2>3. ~Unreleased(p)'
    <3>1. peer'[i] = p + BlockSize /\ p \in Nat /\ p % BlockSize = i
      BY <1>1, <1>2
    <3>2. peer'[i] > p
      BY <3>1, Domains
    <3> QED  BY <3>1, <3>2 DEF Unreleased
  <2> QED  BY <2>1, <2>2, <2>3
<1>7. InStep'
  BY <1>3, SamePartInStep DEF Inv
<1>8. Placed'
  <2>1. \A c \in Block, j \in Tid :
            \/ pc'[<<c, j>>] = pc[<<c, j>>]
            \/ c = 0 /\ pc'[<<c, j>>] = "exit"
    BY <1>2
  <2> QED  BY <1>1, <2>1 DEF Inv, Placed
<1>9. Strides'
  BY ZenonT(40), <1>1, <1>2, NextPeer, Domains DEF Inv, Strides
<1>10. OtherFlags'
  <2> SUFFICES ASSUME NEW c \in Block \ {0}, c < grid, FlagOfRound(c)
               PROVE  FlagOfRound(c)'
    BY <1>1 DEF Inv, OtherFlags
  <2>1. Done(<<0, 0>>)' = Done(<<0, 0>>) /\ Done(<<c, 0>>)' = Done(<<c, 0>>)
    BY <1>3, Domains DEF SamePart
  <2>2. pc'[<<c, 0>>] = pc[<<c, 0>>] /\ HasReported(c)' = HasReported(c)
    BY <1>2, Domains DEF HasReported
  <2>3. CASE c # peer[i]
    <3>1. flag'[c] = flag[c] /\ Unreleased(c)' = Unreleased(c)
      BY <1>2, <1>5, <2>3
    <3> QED  BY <2>1, <2>2, <3>1 DEF FlagOfRound
  <2>4. CASE c = peer[i]
    <3>1. flag'[c] = 0 /\ Unreleased(c) /\ ~Unreleased(c)' /\ flag[c] \in {0, 1}
      BY <1>2, <1>6, <2>4 DEF Inv, TypeOK
    <3> QED  BY <2>1, <2>2, <3>1 DEF FlagOfRound
  <2> QED  BY <2>3, <2>4
<1>11. OwnFlag'
  <2>1. 0 \in Block /\ 0 \in Tid
    BY Domains
  <2>2. pc'[<<0, 0>>] \in {"reported", "collect", "collected"}
           <=> pc[<<0, 0>>] \in {"reported", "collect", "collected"}
    BY <1>1, <1>2, <2>1
  <2>3. CASE peer[i] = 0
    <3>1. flag'[0] = 0 /\ ~Unreleased(0)' /\ Unreleased(0)
      BY <1>1, <1>2, <1>6, <2>1, <2>3
    <3>2. Chief(0) = <<0, 0>>
      BY <2>1, ChiefFacts, FirstPeer DEF Chief
    <3> QED  BY <2>2, <3>1, <3>2 DEF OwnFlag, Unreleased
  <2>4. CASE peer[i] # 0
    <3>1. flag'[0] = flag[0] /\ (Unreleased(0)' = Unreleased(0))
      BY <1>1, <1>2, <1>5, <2>1, <2>4
    <3> QED  BY <2>2, <3>1 DEF Inv, OwnFlag
  <2> QED  BY <2>3, <2>4
<1>12. AllCollected'
  BY <1>1, <1>2, <1>4, <1>6 DEF Inv, AllCollected
<1>13. Unused'
  BY <1>1, <1>2, Domains DEF Inv, Unused
<1> QED  BY <1>7, <1>8, <1>9, <1>10, <1>11, <1>12, <1>13 DEF Inv

(***************************************************************************)
(* CTA_SYNC.  The points behind it that a block cannot be at are excluded  *)
(* by Placed.                                                              *)
(***************************************************************************)
LEMMA SyncFacts ==
    ASSUME Inv, NEW b \in Block, NEW from \in DOMAIN Behind, CtaSync(b, from)
    PROVE  /\ UNCHANGED <<grid, flag, round>> /\ b < grid
           /\ \A i \in Tid : pc[<<b, i>>] = from
           /\ \A c \in Block, j \in Tid :
                  pc'[<<c, j>>] = IF c = b THEN Behind[from] ELSE pc[<<c, j>>]
           /\ b = 0 => from # "leave"
           /\ b # 0 => from \in {"entry", "leave"}
           /\ from \in {"entry", "reported", "collected", "leave"}
           /\ Behind["entry"] = "report" /\ Behind["reported"] = "collect"
           /\ Behind["collected"] = "release" /\ Behind["leave"] = "exit"
<1>1. /\ from \in {"entry", "reported", "collected", "leave"}
      /\ Behind["entry"] = "report" /\ Behind["reported"] = "collect"
      /\ Behind["collected"] = "release" /\ Behind["leave"] = "exit"
  BY DEF Behind
<1>2. \A i \in Tid : pc[<<b, i>>] = from
  BY DEF CtaSync, At
<1>3. b < grid
  BY Domains, ActiveFacts DEF CtaSync, At
<1>4. \A c \in Block, j \in Tid :
          pc'[<<c, j>>] = IF c = b THEN Behind[from] ELSE pc[<<c, j>>]
  BY Domains DEF CtaSync
<1>5. (b = 0 => from # "leave") /\ (b # 0 => from \in {"entry", "leave"})
  BY <1>1, <1>2, Domains DEF Inv, Placed
<1> QED  BY <1>1, <1>2, <1>3, <1>4, <1>5 DEF CtaSync

LEMMA Together ==
    ASSUME Inv, NEW b \in Block,
           \A c \in Block, j \in Tid :
               IF c = b THEN pc'[<<c, j>>] = pc'[<<c, 0>>] /\ round'[<<c, j>>] = round[<<c, j>>]
                             /\ pc[<<c, j>>] = pc[<<c, 0>>]
                        ELSE pc'[<<c, j>>] = pc[<<c, j>>] /\ round'[<<c, j>>] = round[<<c, j>>]
    PROVE  InStep'
<1> SUFFICES ASSUME NEW c \in Block, NEW i \in Tid
             PROVE  /\ Done(<<c, i>>)' = Done(<<c, 0>>)'
                    /\ pc'[<<c, i>>] \in Reporting <=> pc'[<<c, 0>>] \in Reporting
                    /\ pc'[<<c, i>>] \in Collecting <=> pc'[<<c, 0>>] \in Collecting
  BY DEF InStep
<1>1. 0 \in Tid /\ <<c, i>> \in Thread /\ <<c, 0>> \in Thread
  BY Domains
<1>2. /\ Done(<<c, i>>) = Done(<<c, 0>>)
      /\ pc[<<c, i>>] \in Reporting <=> pc[<<c, 0>>] \in Reporting
      /\ pc[<<c, i>>] \in Collecting <=> pc[<<c, 0>>] \in Collecting
  BY DEF Inv, InStep
<1>3. CASE c # b
  <2>1. /\ pc'[<<c, i>>] = pc[<<c, i>>] /\ pc'[<<c, 0>>] = pc[<<c, 0>>]
        /\ round'[<<c, i>>] = round[<<c, i>>] /\ round'[<<c, 0>>] = round[<<c, 0>>]
    BY <1>1, <1>3
  <2> QED  BY <1>2, <2>1 DEF Done
<1>4. CASE c = b
  <2>1. /\ pc'[<<c, i>>] = pc'[<<c, 0>>] /\ pc[<<c, i>>] = pc[<<c, 0>>]
        /\ round'[<<c, i>>] = round[<<c, i>>] /\ round'[<<c, 0>>] = round[<<c, 0>>]
    BY <1>1, <1>4
  <2>2. round[<<c, i>>] \in Nat /\ round[<<c, 0>>] \in Nat
    BY <1>1, Domains DEF Inv, TypeOK
  <2>3. round[<<c, i>>] = round[<<c, 0>>]
    BY <1>2, <2>1, <2>2 DEF Done
  <2> QED  BY <2>1, <2>3 DEF Done
<1> QED  BY <1>3, <1>4

LEMMA SyncEntryInv ==
    ASSUME Inv, TypeOK', Goes', NEW b \in Block, CtaSync(b, "entry")
    PROVE  Inv'
<1>1. /\ UNCHANGED <<grid, flag, round, peer>> /\ b < grid
      /\ \A i \in Tid : pc[<<b, i>>] = "entry"
      /\ \A c \in Block, j \in Tid :
             pc'[<<c, j>>] = IF c = b THEN "report" ELSE pc[<<c, j>>]
  <2>1. "entry" \in DOMAIN Behind /\ UNCHANGED peer
    BY DEF Behind, CtaSync
  <2> QED  BY <2>1, SyncFacts
<1>2. \A c \in Block, j \in Tid : Done(<<c, j>>)' = Done(<<c, j>>)
  BY <1>1 DEF Done
<1>3. \A c \in Block : Collected(c)' = Collected(c) /\ Unreleased(c)' = Unreleased(c)
  <2> SUFFICES ASSUME NEW c \in Block
               PROVE  Collected(c)' = Collected(c) /\ Unreleased(c)' = Unreleased(c)
    OBVIOUS
  <2>1. \/ pc'[Chief(c)] = pc[Chief(c)]
        \/ pc[Chief(c)] = "entry" /\ pc'[Chief(c)] = "report"
    BY <1>1, ChiefFacts, Domains
  <2> HIDE DEF Chief
  <2> QED  BY <1>1, <2>1 DEF Collected, Unreleased
<1>4. InStep'
  <2>1. 0 \in Tid
    BY Domains
  <2>2. \A c \in Block, j \in Tid :
            IF c = b THEN pc'[<<c, j>>] = pc'[<<c, 0>>] /\ pc[<<c, j>>] = pc[<<c, 0>>]
                     ELSE pc'[<<c, j>>] = pc[<<c, j>>]
    BY <1>1, <2>1
  <2>3. \A c \in Block, j \in Tid : round'[<<c, j>>] = round[<<c, j>>]
    BY <1>1
  <2> QED  BY <2>2, <2>3, Together
<1>5. Placed' /\ Strides'
  <2>1. \A c \in Block, j \in Tid :
            pc'[<<c, j>>] = pc[<<c, j>>] \/ (pc'[<<c, j>>] = "report" /\ c < grid)
    BY <1>1
  <2>2. \A j \in Tid : pc'[<<0, j>>] = pc[<<0, j>>] \/ pc'[<<0, j>>] = "report"
    BY <2>1, Domains
  <2> QED  BY <1>1, <2>1, <2>2 DEF Inv, Placed, Strides
<1>6. OtherFlags'
  <2> SUFFICES ASSUME NEW c \in Block \ {0}, c < grid, FlagOfRound(c)
               PROVE  FlagOfRound(c)'
    BY <1>1 DEF Inv, OtherFlags
  <2>1. Done(<<0, 0>>)' = Done(<<0, 0>>) /\ Done(<<c, 0>>)' = Done(<<c, 0>>)
    BY <1>2, Domains
  <2>2. HasReported(c)' = HasReported(c) /\ (HasReported(c) => pc'[<<c, 0>>] = pc[<<c, 0>>])
    BY <1>1, Domains DEF HasReported
  <2> QED  BY <1>1, <1>3, <2>1, <2>2 DEF FlagOfRound
<1>7. OwnFlag' /\ AllCollected' /\ Unused'
  BY <1>1, <1>3, Domains DEF Inv, OwnFlag, AllCollected, Unused
<1> QED  BY <1>4, <1>5, <1>6, <1>7 DEF Inv

LEMMA SyncReportedInv ==
    ASSUME Inv, TypeOK', Goes', NEW b \in Block, CtaSync(b, "reported")
    PROVE  Inv'
<1>1. /\ UNCHANGED <<grid, flag, round>> /\ b < grid /\ b = 0
      /\ \A i \in Tid : pc[<<0, i>>] = "reported" /\ peer'[i] = i
      /\ \A c \in Block, j \in Tid :
             pc'[<<c, j>>] = IF c = 0 THEN "collect" ELSE pc[<<c, j>>]
  <2>1. "reported" \in DOMAIN Behind /\ peer' = [i \in Tid |-> i]
    BY DEF Behind, CtaSync
  <2> QED  BY <2>1, SyncFacts
<1>2. \A c \in Block, j \in Tid : Done(<<c, j>>)' = Done(<<c, j>>)
  BY <1>1 DEF Done
<1>3. \A c \in Block : ~Collected(c)' /\ ~Unreleased(c)' /\ ~Unreleased(c)
  <2> SUFFICES ASSUME NEW c \in Block
               PROVE  ~Collected(c)' /\ ~Unreleased(c)' /\ ~Unreleased(c)
    OBVIOUS
  <2>1. /\ pc[Chief(c)] = "reported" /\ pc'[Chief(c)] = "collect"
        /\ peer'[c % BlockSize] = c % BlockSize
    BY <1>1, ChiefFacts, Domains
  <2>2. ~(c < c % BlockSize)
    BY FirstPeer, Domains
  <2> QED  BY <2>1, <2>2 DEF Collected, Unreleased
<1>4. InStep'
  <2>1. 0 \in Tid
    BY Domains
  <2>2. \A c \in Block, j \in Tid :
            IF c = b THEN pc'[<<c, j>>] = pc'[<<c, 0>>] /\ pc[<<c, j>>] = pc[<<c, 0>>]
                     ELSE pc'[<<c, j>>] = pc[<<c, j>>]
    BY <1>1, <2>1
  <2>3. \A c \in Block, j \in Tid : round'[<<c, j>>] = round[<<c, j>>]
    BY <1>1
  <2> QED  BY <2>2, <2>3, Together
<1>5. Placed' /\ Strides'
  <2>1. \A c \in Block, j \in Tid :
            pc'[<<c, j>>] = pc[<<c, j>>] \/ (c = 0 /\ pc'[<<c, j>>] = "collect")
    BY <1>1
  <2> QED  BY <1>1, <2>1, FirstPeer DEF Inv, Placed, Strides
<1>6. OtherFlags'
  <2> SUFFICES ASSUME NEW c \in Block \ {0}, c < grid, FlagOfRound(c)
               PROVE  FlagOfRound(c)'
    BY <1>1 DEF Inv, OtherFlags
  <2>1. Done(<<0, 0>>)' = Done(<<0, 0>>) /\ Done(<<c, 0>>)' = Done(<<c, 0>>)
    BY <1>2, Domains
  <2>2. pc'[<<c, 0>>] = pc[<<c, 0>>] /\ HasReported(c)' = HasReported(c)
    BY <1>1, Domains DEF HasReported
  <2> QED  BY <1>1, <1>3, <2>1, <2>2 DEF FlagOfRound
<1>7. OwnFlag' /\ AllCollected' /\ Unused'
  BY <1>1, <1>3, Domains DEF Inv, OwnFlag, AllCollected, Unused
<1> QED  BY <1>4, <1>5, <1>6, <1>7 DEF Inv

LEMMA SyncCollectedInv ==
    ASSUME Inv, TypeOK', Goes', NEW b \in Block, CtaSync(b, "collected")
    PROVE  Inv'
<1>1. /\ UNCHANGED <<grid, flag, round>> /\ b < grid /\ b = 0
      /\ \A i \in Tid : pc[<<0, i>>] = "collected" /\ peer'[i] = i
      /\ \A c \in Block, j \in Tid :
             pc'[<<c, j>>] = IF c = 0 THEN "release" ELSE pc[<<c, j>>]
  <2>1. "collected" \in DOMAIN Behind /\ peer' = [i \in Tid |-> i]
    BY DEF Behind, CtaSync
  <2> QED  BY <2>1, SyncFacts
<1>2. 0 \in Tid /\ 0 \in Block
  BY Domains
<1>3. \A c \in Block : Collected(c) /\ ~Collected(c)' /\ Unreleased(c)' /\ ~Unreleased(c)
  <2> SUFFICES ASSUME NEW c \in Block
               PROVE  Collected(c) /\ ~Collected(c)' /\ Unreleased(c)' /\ ~Unreleased(c)
    OBVIOUS
  <2>1. /\ pc[Chief(c)] = "collected" /\ pc'[Chief(c)] = "release"
        /\ peer'[c % BlockSize] = c % BlockSize
    BY <1>1, ChiefFacts, Domains
  <2>2. ~(c % BlockSize > c)
    BY FirstPeer, Domains
  <2> QED  BY <2>1, <2>2 DEF Collected, Unreleased
<1>4. InStep'
  <2>1. 0 \in Tid
    BY Domains
  <2>2. \A c \in Block, j \in Tid :
            IF c = b THEN pc'[<<c, j>>] = pc'[<<c, 0>>] /\ pc[<<c, j>>] = pc[<<c, 0>>]
                     ELSE pc'[<<c, j>>] = pc[<<c, j>>]
    BY <1>1, <2>1
  <2>3. \A c \in Block, j \in Tid : round'[<<c, j>>] = round[<<c, j>>]
    BY <1>1
  <2> QED  BY <2>2, <2>3, Together
<1>5. Placed' /\ Strides'
  <2>1. \A c \in Block, j \in Tid :
            pc'[<<c, j>>] = pc[<<c, j>>] \/ (c = 0 /\ pc'[<<c, j>>] = "release")
    BY <1>1
  <2> QED  BY <1>1, <2>1, FirstPeer DEF Inv, Placed, Strides
(* Block 0 is done with the round in which all others have raised their    *)
(* flags, and has not released any of them.                                *)
<1>6. OtherFlags'
  <2> SUFFICES ASSUME NEW c \in Block \ {0}, c < grid, FlagOfRound(c)
               PROVE  FlagOfRound(c)'
    BY <1>1 DEF Inv, OtherFlags
  <2>1. flag[c] = 1
    BY <1>3 DEF Inv, AllCollected
  <2>2. pc'[<<c, 0>>] = pc[<<c, 0>>] /\ HasReported(c)' = HasReported(c) /\ Done(<<c, 0>>)' = Done(<<c, 0>>)
    BY <1>1, <1>2 DEF HasReported, Done
  <2>3. Done(<<0, 0>>)' = Done(<<0, 0>>) + 1
    BY <1>1, <1>2 DEF Done
  <2>4. HasReported(c) /\ pc[<<c, 0>>] = "ack" /\ Done(<<0, 0>>) = Done(<<c, 0>>)
    <3>1. HasReported(c)
      BY <2>1 DEF FlagOfRound
    <3> QED  BY <1>3, <2>1, <3>1 DEF FlagOfRound
  <2>5. HasReported(c)' /\ flag'[c] = 1 /\ pc'[<<c, 0>>] = "ack" /\ Unreleased(c)'
    BY <1>1, <1>3, <2>1, <2>2, <2>4
  <2>6. Done(<<0, 0>>)' = Done(<<c, 0>>)' + 1
    BY <2>2, <2>3, <2>4
  <2> QED  BY <2>5, <2>6 DEF FlagOfRound
<1>7. OwnFlag' /\ AllCollected' /\ Unused'
  BY <1>1, <1>2, <1>3 DEF Inv, OwnFlag, AllCollected, Unused
<1> QED  BY <1>4, <1>5, <1>6, <1>7 DEF Inv

LEMMA SyncLeaveInv ==
    ASSUME Inv, TypeOK', Goes', NEW b \in Block, CtaSync(b, "leave")
    PROVE  Inv'
<1>1. /\ UNCHANGED <<grid, flag, round, peer>> /\ b < grid /\ b # 0
      /\ \A i \in Tid : pc[<<b, i>>] = "leave"
      /\ \A c \in Block, j \in Tid :
             pc'[<<c, j>>] = IF c = b THEN "exit" ELSE pc[<<c, j>>]
  <2>1. "leave" \in DOMAIN Behind /\ UNCHANGED peer
    BY DEF Behind, CtaSync
  <2> QED  BY <2>1, SyncFacts
<1>2. 0 \in Tid /\ 0 \in Block
  BY Domains
<1>3. \A c \in Block : Collected(c)' = Collected(c) /\ Unreleased(c)' = Unreleased(c)
  <2> SUFFICES ASSUME NEW c \in Block
               PROVE  Collected(c)' = Collected(c) /\ Unreleased(c)' = Unreleased(c)
    OBVIOUS
  <2>1. pc'[Chief(c)] = pc[Chief(c)]
    BY <1>1, <1>2, ChiefFacts
  <2> HIDE DEF Chief
  <2> QED  BY <1>1, <2>1 DEF Collected, Unreleased
<1>4. InStep'
  <2>1. 0 \in Tid
    BY Domains
  <2>2. \A c \in Block, j \in Tid :
            IF c = b THEN pc'[<<c, j>>] = pc'[<<c, 0>>] /\ pc[<<c, j>>] = pc[<<c, 0>>]
                     ELSE pc'[<<c, j>>] = pc[<<c, j>>]
    BY <1>1, <2>1
  <2>3. \A c \in Block, j \in Tid : round'[<<c, j>>] = round[<<c, j>>]
    BY <1>1
  <2> QED  BY <2>2, <2>3, Together
<1>5. Placed' /\ Strides'
  <2>1. \A c \in Block, j \in Tid :
            pc'[<<c, j>>] = pc[<<c, j>>] \/ (c # 0 /\ pc'[<<c, j>>] = "exit" /\ c < grid)
    BY <1>1
  <2>2. \A j \in Tid : pc'[<<0, j>>] = pc[<<0, j>>]
    BY <1>1, <1>2
  <2> QED  BY <1>1, <2>1, <2>2 DEF Inv, Placed, Strides
<1>6. OtherFlags'
  <2> SUFFICES ASSUME NEW c \in Block \ {0}, c < grid, FlagOfRound(c)
               PROVE  FlagOfRound(c)'
    BY <1>1 DEF Inv, OtherFlags
  <2>1. Done(<<0, 0>>)' = Done(<<0, 0>>)
    BY <1>1, <1>2 DEF Done
  <2>2. CASE c = b
    <3>1. HasReported(c) /\ ~HasReported(c)' /\ Done(<<c, 0>>)' = Done(<<c, 0>>) + 1
      BY <1>1, <1>2, <2>2 DEF HasReported, Done
    <3>2. flag[c] = 0
      BY <1>1, <1>2, <2>2, <3>1 DEF FlagOfRound, Inv, TypeOK
    <3> QED  BY <1>1, <1>3, <2>1, <3>1, <3>2 DEF FlagOfRound
  <2>3. CASE c # b
    <3>1. pc'[<<c, 0>>] = pc[<<c, 0>>] /\ Done(<<c, 0>>)' = Done(<<c, 0>>)
      BY <1>1, <1>2, <2>3 DEF Done
    <3>2. HasReported(c)' = HasReported(c)
      BY <3>1 DEF HasReported
    <3> QED  BY <1>1, <1>3, <2>1, <3>1, <3>2 DEF FlagOfRound
  <2> QED  BY <2>2, <2>3
<1>7. OwnFlag' /\ AllCollected' /\ Unused'
  BY <1>1, <1>2, <1>3 DEF Inv, OwnFlag, AllCollected, Unused
<1> QED  BY <1>4, <1>5, <1>6, <1>7 DEF Inv

(***************************************************************************)
(* When a kernel has ended, every flag is down: the threads that reported  *)
(* are out, so all is released.                                            *)
(***************************************************************************)
LEMMA EndedFacts ==
    ASSUME Inv, Ended
    PROVE  /\ \A b \in Block : flag[b] = 0
           /\ \A b \in Block, i \in Tid : pc[<<b, i>>] = "out"
<1>1. \A b \in Block, i \in Tid : pc[<<b, i>>] = "out"
  <2> SUFFICES ASSUME NEW b \in Block, NEW i \in Tid, pc[<<b, i>>] # "out" PROVE FALSE
    OBVIOUS
  <2>1. <<b, i>> \in Active
    BY ActiveFacts DEF Inv, Placed
  <2> QED  BY <2>1 DEF Ended
<1>2. ASSUME NEW b \in Block PROVE flag[b] = 0
  <2>1. grid \in Nat /\ b \in Nat /\ 0 \in Tid /\ 0 \in Block /\ flag[b] \in {0, 1}
    BY Domains DEF Inv, TypeOK
  <2>2. CASE grid <= b
    BY <2>2 DEF Inv, Unused
  <2>3. CASE b < grid /\ b # 0
    <3>1. ~HasReported(b) /\ FlagOfRound(b)
      BY <1>1, <2>1, <2>3 DEF HasReported, Inv, OtherFlags
    <3> QED  BY <3>1 DEF FlagOfRound
  <2>4. CASE b = 0
    <3>1. ~Unreleased(0) /\ pc[<<0, 0>>] = "out"
      BY <1>1, <2>1, ChiefFacts DEF Unreleased
    <3> QED  BY <2>1, <2>4, <3>1 DEF Inv, OwnFlag
  <2> QED  BY <2>1, <2>2, <2>3, <2>4
<1> QED  BY <1>1, <1>2

AtStart ==
    /\ TypeOK /\ Goes
    /\ \A b \in Block : flag[b] = 0
    /\ \A b \in Block, i \in Tid : pc[<<b, i>>] = "out" /\ round[<<b, i>>] = 0

LEMMA StartInv == AtStart => Inv
<1> SUFFICES ASSUME AtStart PROVE Inv
  OBVIOUS
<1> USE DEF AtStart
<1>1. 0 \in Tid /\ 0 \in Block
  BY Domains
<1>2. \A b \in Block, i \in Tid : Done(<<b, i>>) = 0
  BY DEF Done
<1>3. \A b \in Block : ~Collected(b) /\ ~Unreleased(b) /\ ~HasReported(b)
  BY <1>1, ChiefFacts DEF Collected, Unreleased, HasReported
<1>4. InStep /\ Placed /\ Strides
  BY <1>1, <1>2 DEF InStep, Placed, Strides
<1>5. OtherFlags /\ OwnFlag /\ AllCollected /\ Unused
  BY <1>1, <1>2, <1>3 DEF OtherFlags, FlagOfRound, OwnFlag, AllCollected, Unused
<1> QED  BY <1>4, <1>5 DEF Inv

(***************************************************************************)
(* Inv is inductive.                                                       *)
(***************************************************************************)
LEMMA InitInv == Init => Inv
<1> SUFFICES ASSUME Init PROVE Inv
  OBVIOUS
<1>1. \A b \in Block : flag[b] = 0
  BY DEF Init
<1>2. \A b \in Block, i \in Tid : pc[<<b, i>>] = "out" /\ round[<<b, i>>] = 0
  BY Domains DEF Init
<1> QED  BY <1>1, <1>2, InitTypeOK, StartInv DEF AtStart

LEMMA LaunchInv ==
    ASSUME Inv, TypeOK', Goes', NEW n \in 1..MaxGrid, NEW c \in Capacities, Launch(n, c)
    PROVE  Inv'
<1>1. /\ \A b \in Block : flag[b] = 0
      /\ \A b \in Block, i \in Tid : pc[<<b, i>>] = "out"
  BY EndedFacts DEF Launch
<1>2. \A b \in Block : flag'[b] = 0
  BY <1>1 DEF Launch
<1>3. \A b \in Block, i \in Tid : pc'[<<b, i>>] = "out" /\ round'[<<b, i>>] = 0
  BY <1>1, Domains DEF Launch
<1>4. AtStart'
  BY <1>2, <1>3 DEF AtStart
<1> QED  BY <1>4, StartInv, PTL

LEMMA NextInv == Inv /\ [Next]_vars => Inv'
<1> SUFFICES ASSUME Inv, [Next]_vars PROVE Inv'
  OBVIOUS
<1>0. TypeOK' /\ Goes'
  BY NextTypeOK DEF Inv
<1>1. CASE HostReset
  BY <1>0, <1>1, QuietInv DEF HostReset
<1>2. CASE \E n \in 1..MaxGrid, c \in Capacities : Launch(n, c)
  BY <1>0, <1>2, LaunchInv
<1>3. CASE \E t \in Thread : Step(t)
  <2> PICK t \in Thread : Step(t)
    BY <1>3
  <2>1. t[2] \in Tid
    BY Domains
  <2> QED  BY <1>0, <2>1, ArriveInv, ReportInv, AckInv, ReturnInv, CollectInv, ReleaseInv DEF Step
<1>4. CASE \E b \in Block : Sync(b)
  <2> PICK b \in Block, from \in DOMAIN Behind : CtaSync(b, from)
    BY <1>4 DEF Sync
  <2>1. from \in {"entry", "reported", "collected", "leave"}
    BY DEF Behind
  <2> QED  BY <1>0, <2>1, SyncEntryInv, SyncReportedInv, SyncCollectedInv, SyncLeaveInv
<1>5. CASE UNCHANGED vars
  BY <1>0, <1>5, QuietInv DEF vars
<1>6. ASSUME NEW t \in Thread, Spin(t) PROVE UNCHANGED vars
  BY <1>6 DEF Spin
<1>7. ASSUME NEW b \in Block, Place(b) PROVE Inv'
  BY <1>0, <1>7, QuietInv DEF Place
<1> QED  BY <1>1, <1>2, <1>3, <1>4, <1>5, <1>6, <1>7 DEF Next, Idle

(***************************************************************************)
(* When a kernel has ended every flag is down, which is what the next      *)
(* launch relies on if Setup does not zero them.                           *)
(***************************************************************************)
THEOREM GridFlagsDownAtEnd == Spec => []FlagsDownAtEnd
<1>1. Inv => FlagsDownAtEnd
  BY EndedFacts DEF FlagsDownAtEnd
<1> QED  BY <1>1, InitInv, NextInv, PTL DEF Spec

(***************************************************************************)
(* Block 0 lowers a flag only when all threads of its block are in the     *)
(* round that the lowering thread is in.                                   *)
(***************************************************************************)
LEMMA LoweredBy ==
    ASSUME Inv, [Next]_vars, NEW b \in Block \ {0}, flag[b] = 1, flag'[b] = 0
    PROVE  \E i \in Tid : Release(i) /\ peer[i] = b /\ i = b % BlockSize
<1>1. ~HostReset /\ ~(UNCHANGED vars) /\ \A c \in Block : ~Place(c)
  BY DEF HostReset, vars, Place
<1>2. ~Ended
  BY EndedFacts
<1>3. \A n \in 1..MaxGrid, c \in Capacities : ~Launch(n, c)
  BY <1>2 DEF Launch
<1>4. \A c \in Block : ~Sync(c)
  BY DEF Sync, CtaSync
<1>5. \A t \in Thread : ~Spin(t)
  BY <1>1 DEF Spin
<1>6. PICK t \in Thread : Step(t)
  BY <1>1, <1>3, <1>4, <1>5 DEF Next, Idle
<1>7. ~Arrive(t) /\ ~Ack(t) /\ ~Return(t) /\ ~Collect(t[2])
  BY DEF Arrive, Ack, Return, Collect
<1>8. ~Report(t)
  <2> SUFFICES ASSUME Report(t) PROVE FALSE
    OBVIOUS
  <2> QED  BY Domains DEF Report, Inv, TypeOK
<1>9. t[2] \in Tid /\ Release(t[2])
  BY <1>6, <1>7, <1>8, Domains DEF Step
<1>10. peer[t[2]] = b
  BY <1>9 DEF Release, Inv, TypeOK
<1>11. peer[t[2]] % BlockSize = t[2]
  BY <1>9, Domains DEF Release, At, Inv, Strides
<1> QED  BY <1>9, <1>10, <1>11

(***************************************************************************)
(* Block 0 lowers the flag of a block only in the round that this block    *)
(* raised it for: no signal of a later round is lost.                      *)
(***************************************************************************)
THEOREM GridLowersOwnRound == Spec => LowersOwnRound
<1>1. ASSUME Inv, [Next]_vars, NEW b \in Block \ {0}, flag[b] = 1, flag'[b] = 0,
             NEW j \in Tid
      PROVE  round[<<b, j>>] = round[<<0, b % BlockSize>>]
  <2> PICK i \in Tid : Release(i) /\ peer[i] = b /\ i = b % BlockSize
    BY <1>1, LoweredBy
  <2>1. pc[<<0, i>>] = "release" /\ b < grid
    <3>1. pc[<<0, i>>] = "release"
      BY DEF Release, At
    <3>2. peer[i] < grid
      BY <1>1 DEF Release
    <3> QED  BY <3>1, <3>2
  <2>2. 0 \in Tid /\ 0 \in Block /\ b \in Nat /\ i \in Nat
    BY Domains
  <2>3. Unreleased(b)
    BY <2>1, <2>2, ChiefFacts DEF Unreleased
  <2>4. FlagOfRound(b)
    BY <1>1, <2>1 DEF Inv, OtherFlags
  <2>5. HasReported(b) /\ Done(<<0, 0>>) = Done(<<b, 0>>) + 1
    BY <1>1, <2>3, <2>4 DEF FlagOfRound
  <2>6. Done(<<0, i>>) = Done(<<0, 0>>) /\ Done(<<b, j>>) = Done(<<b, 0>>)
    BY <1>1, <2>2 DEF Inv, InStep
  <2>7. Done(<<0, i>>) = round[<<0, i>>] + 1
    BY <2>1 DEF Done
  <2>8. Done(<<b, j>>) = round[<<b, j>>]
    <3>1. pc[<<b, 0>>] \in Reporting
      BY <2>5 DEF HasReported, Reporting
    <3>2. pc[<<b, j>>] \in Reporting
      BY <1>1, <3>1 DEF Inv, InStep
    <3> QED  BY <3>2 DEF Reporting, Done
  <2>9. round[<<b, j>>] \in Nat /\ round[<<0, i>>] \in Nat
    BY <1>1, <2>2, Domains DEF Inv, TypeOK
  <2> QED  BY <2>5, <2>6, <2>7, <2>8, <2>9
<1>2. Inv /\ [Next]_vars =>
          [\A b \in Block \ {0} : flag[b] = 1 /\ flag'[b] = 0 /\ grid' = grid =>
              \A i \in Tid : round[<<b, i>>] = round[<<0, b % BlockSize>>]]_vars
  BY <1>1
<1> QED  BY <1>2, InitInv, NextInv, PTL DEF Spec, LowersOwnRound

(***************************************************************************)
(* Refinement.  A thread that returns from a round knows that all others   *)
(* have entered it: block 0 has collected the round's flags, and a flag    *)
(* that was raised in a round is the last thing before its end.            *)
(***************************************************************************)
LEMMA DoneOrder ==
    ASSUME Inv, NEW b \in Block, NEW c \in Block, b < grid, c < grid
    PROVE  /\ Done(<<b, 0>>) \in Nat /\ Done(<<c, 0>>) \in Nat
           /\ \/ Done(<<c, 0>>) >= Done(<<b, 0>>)
              \/ /\ Done(<<c, 0>>) + 1 = Done(<<b, 0>>)
                 /\ c # 0 /\ HasReported(c)
<1>1. 0 \in Tid /\ 0 \in Block
  BY Domains
<1>2. \A a \in Block : Done(<<a, 0>>) \in Nat
  BY <1>1, Domains DEF Done, Inv, TypeOK
<1>3. \A a \in Block \ {0} : a < grid =>
          \/ Done(<<0, 0>>) = Done(<<a, 0>>)
          \/ Done(<<0, 0>>) = Done(<<a, 0>>) + 1 /\ HasReported(a)
  <2> SUFFICES ASSUME NEW a \in Block \ {0}, a < grid
               PROVE  \/ Done(<<0, 0>>) = Done(<<a, 0>>)
                      \/ Done(<<0, 0>>) = Done(<<a, 0>>) + 1 /\ HasReported(a)
    OBVIOUS
  <2>1. FlagOfRound(a) /\ flag[a] \in {0, 1}
    BY DEF Inv, OtherFlags, TypeOK
  <2> QED  BY <2>1 DEF FlagOfRound
<1>4. CASE b = 0 /\ c = 0
  BY <1>2, <1>4
<1>5. CASE b = 0 /\ c # 0
  BY <1>1, <1>2, <1>3, <1>5
<1>6. CASE b # 0 /\ c = 0
  BY <1>1, <1>2, <1>3, <1>6
<1>7. CASE b # 0 /\ c # 0
  <2> DEFINE z == Done(<<0, 0>>)
             x == Done(<<b, 0>>)
             y == Done(<<c, 0>>)
  <2>1. z \in Nat /\ x \in Nat /\ y \in Nat
    BY <1>1, <1>2
  <2>2. z = x \/ z = x + 1
    BY <1>3, <1>7
  <2>3. z = y \/ (z = y + 1 /\ HasReported(c))
    BY <1>3, <1>7
  <2> HIDE DEF x, y, z
  <2>4. y >= x \/ (y + 1 = x /\ HasReported(c))
    BY <2>1, <2>2, <2>3
  <2> QED  BY <1>7, <2>1, <2>4 DEF x, y
<1> QED  BY <1>4, <1>5, <1>6, <1>7

LEMMA ReturnIsLeave == ASSUME Inv, NEW t \in Thread, Return(t) PROVE B!Leave(t)
<1> PICK b \in Block, i \in Tid : t = <<b, i>>
  BY Domains
<1>1. pc[t] = "exit" /\ b < grid /\ 0 \in Tid
  BY ActiveFacts, Domains DEF Return, At
<1>2. t \in Inside
  BY <1>1 DEF Inside
<1>3. Inside' = Inside \ {t} /\ UNCHANGED Active /\ round' = [round EXCEPT ![t] = @ + 1]
  BY DEF Return, Goto, Inside, Active, Inv, TypeOK
<1>4. ASSUME NEW u \in Active PROVE B!Entered(u, round[t])
  <2> PICK c \in Block, j \in Tid : u = <<c, j>>
    BY Domains DEF Active
  <2>1. c < grid /\ <<c, j>> \in Thread /\ u \in Thread
    BY ActiveFacts, Domains
  <2>2. Done(t) = round[t] + 1 /\ Done(t) = Done(<<b, 0>>)
    BY <1>1 DEF Done, Inv, InStep
  <2>3. Done(u) = Done(<<c, 0>>)
    BY DEF Inv, InStep
  <2>4. round[t] \in Nat /\ round[u] \in Nat
    BY <2>1, Domains DEF Inv, TypeOK
  <2>5. CASE Done(<<c, 0>>) >= Done(<<b, 0>>)
    <3>1. Done(u) >= round[t] + 1
      BY <2>2, <2>3, <2>5
    <3>2. CASE pc[u] \in {"release", "exit"}
      <4>1. round[u] >= round[t] /\ u \in Inside
        BY <2>1, <2>4, <3>1, <3>2 DEF Done, Inside
      <4> QED  BY <2>4, <4>1 DEF B!Entered
    <3>3. CASE pc[u] \notin {"release", "exit"}
      <4>1. round[u] > round[t]
        BY <2>4, <3>1, <3>3 DEF Done
      <4> QED  BY <4>1 DEF B!Entered
    <3> QED  BY <3>2, <3>3
  <2>6. CASE Done(<<c, 0>>) + 1 = Done(<<b, 0>>) /\ c # 0 /\ HasReported(c)
    <3>1. pc[<<c, 0>>] \in Reporting
      BY <2>6 DEF HasReported, Reporting
    <3>2. pc[u] \in Reporting
      BY <3>1 DEF Inv, InStep
    <3>3. Done(u) = round[u] /\ u \in Inside
      BY <2>1, <3>2 DEF Reporting, Done, Inside
    <3>4. round[u] = round[t]
      BY <2>2, <2>3, <2>4, <2>6, <3>3
    <3> QED  BY <3>3, <3>4 DEF B!Entered
  <2> QED  BY <1>1, <2>1, <2>5, <2>6, DoneOrder
<1> QED  BY <1>2, <1>3, <1>4 DEF B!Leave

LEMMA ArriveIsEnter == ASSUME Inv, NEW t \in Thread, Arrive(t) PROVE B!Enter(t)
<1>1. t \in Active /\ pc[t] = "out" /\ Goto(t, "entry") /\ UNCHANGED <<grid, round>>
  BY DEF Arrive, At
<1>2. Inside' = Inside \cup {t} /\ UNCHANGED Active
  BY <1>1 DEF Goto, Inside, Active, Inv, TypeOK
<1> QED  BY <1>1, <1>2 DEF B!Enter, Inside

LEMMA LaunchIsStart ==
    ASSUME Inv, NEW n \in 1..MaxGrid, NEW c \in Capacities, Launch(n, c)
    PROVE  B!Start(Active')
<1>1. Inside = {}
  <2>1. \A t \in Thread : pc[t] = "out"
    BY EndedFacts, Domains DEF Launch
  <2> QED  BY <2>1 DEF Inside
<1>2. UNCHANGED Inside
  BY DEF Launch, Inside
<1> QED  BY <1>1, <1>2 DEF B!Start, Launch

LEMMA OtherStepsStutter ==
    ASSUME Inv, UNCHANGED <<grid, round>>,
           \A t \in Thread : pc'[t] # "out" <=> pc[t] # "out"
    PROVE  UNCHANGED <<Active, round, Inside>>
  BY DEF Active, Inside

LEMMA StepRefines ==
    ASSUME Inv, NEW t \in Thread, Step(t)
    PROVE  B!Next \/ UNCHANGED <<Active, round, Inside>>
<1>1. CASE Arrive(t)
  BY <1>1, ArriveIsEnter DEF B!Next
<1>2. CASE Return(t)
  BY <1>2, ReturnIsLeave DEF B!Next
<1>3. CASE Report(t)
  <2>1. /\ UNCHANGED <<grid, round>> /\ pc[t] = "report"
        /\ pc' = [pc EXCEPT ![t] = Reported(t)] /\ Reported(t) # "out"
    BY <1>3 DEF Report, At, Goto, Reported
  <2>2. \A u \in Thread : pc'[u] # "out" <=> pc[u] # "out"
    BY <2>1 DEF Inv, TypeOK
  <2> QED  BY <2>1, <2>2, OtherStepsStutter
<1>4. CASE Ack(t)
  <2>1. UNCHANGED <<grid, round>> /\ pc[t] = "ack" /\ pc' = [pc EXCEPT ![t] = "leave"]
    BY <1>4 DEF Ack, At, Goto
  <2>2. \A u \in Thread : pc'[u] # "out" <=> pc[u] # "out"
    BY <2>1 DEF Inv, TypeOK
  <2> QED  BY <2>1, <2>2, OtherStepsStutter
<1>5. CASE t[1] = 0 /\ (Collect(t[2]) \/ Release(t[2]))
  <2>1. t = <<0, t[2]>>
    BY <1>5, Domains
  <2>2. /\ UNCHANGED <<grid, round>> /\ pc[t] \in {"collect", "release"}
        /\ \/ UNCHANGED pc
           \/ pc' = [pc EXCEPT ![t] = "collected"]
           \/ pc' = [pc EXCEPT ![t] = "exit"]
    BY <1>5, <2>1 DEF Collect, Release, At, Goto
  <2>3. \A u \in Thread : pc'[u] # "out" <=> pc[u] # "out"
    BY <2>2 DEF Inv, TypeOK
  <2> QED  BY <2>2, <2>3, OtherStepsStutter
<1> QED  BY <1>1, <1>2, <1>3, <1>4, <1>5 DEF Step

LEMMA NextRefines == Inv /\ [Next]_vars => B!Next \/ UNCHANGED <<Active, round, Inside>>
<1> SUFFICES ASSUME Inv, [Next]_vars PROVE B!Next \/ UNCHANGED <<Active, round, Inside>>
  OBVIOUS
<1>1. CASE HostReset
  BY <1>1, OtherStepsStutter DEF HostReset
<1>2. CASE \E n \in 1..MaxGrid, c \in Capacities : Launch(n, c)
  <2>1. Active' \in SUBSET Thread
    BY DEF Active
  <2> QED  BY <1>2, <2>1, LaunchIsStart DEF B!Next
<1>3. CASE \E t \in Thread : Step(t)
  BY <1>3, StepRefines
<1>4. CASE \E b \in Block : Sync(b)
  <2> PICK b \in Block, from \in DOMAIN Behind : CtaSync(b, from)
    BY <1>4 DEF Sync
  <2>1. /\ UNCHANGED <<grid, round>>
        /\ from # "out" /\ Behind[from] # "out"
        /\ \A i \in Tid : pc[<<b, i>>] = from
        /\ \A c \in Block, j \in Tid :
               pc'[<<c, j>>] = IF c = b THEN Behind[from] ELSE pc[<<c, j>>]
    BY SyncFacts
  <2>2. \A t \in Thread : pc'[t] # "out" <=> pc[t] # "out"
    <3> SUFFICES ASSUME NEW c \in Block, NEW j \in Tid
                 PROVE  pc'[<<c, j>>] # "out" <=> pc[<<c, j>>] # "out"
      BY Domains
    <3> QED  BY <2>1
  <2> QED  BY <2>1, <2>2, OtherStepsStutter
<1>5. CASE UNCHANGED vars
  BY <1>5 DEF vars, Active, Inside
<1>6. ASSUME NEW t \in Thread, Spin(t) PROVE UNCHANGED vars
  BY <1>6 DEF Spin
<1>7. ASSUME NEW b \in Block, Place(b) PROVE UNCHANGED <<Active, round, Inside>>
  BY <1>7, OtherStepsStutter DEF Place
<1> QED  BY <1>1, <1>2, <1>3, <1>4, <1>5, <1>6, <1>7 DEF Next, Idle

(***************************************************************************)
(* The barrier of multidim_gbar.cuh is a barrier: no thread returns from a *)
(* call of Sync before every thread of the grid has made that call.        *)
(***************************************************************************)
THEOREM GridImplementsBarrier == Spec => ImplementsBarrier
<1>1. Init => B!Init
  <2> SUFFICES ASSUME Init PROVE B!Init
    OBVIOUS
  <2>1. Active = {}
    BY Domains DEF Init, Active
  <2>2. Inside = {}
    BY DEF Init, Inside
  <2> QED  BY <2>1, <2>2 DEF Init, B!Init
<1>2. Inv /\ [Next]_vars => [B!Next]_(B!vars)
  BY NextRefines DEF B!vars
<1> QED  BY <1>1, <1>2, InitInv, NextInv, PTL DEF Spec, ImplementsBarrier, B!Spec
=============================================================================
