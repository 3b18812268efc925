---------------------------- MODULE PassPipeline ----------------------------
(***************************************************************************)
(* Pipeline and FixedPointPipeline of dace/transformation/pass_pipeline.py *)
(* (and apply_subpass of passes/simplify.py): the construction of a        *)
(* pipeline from the passes it is given, and one call of apply_pass.       *)
(*                                                                         *)
(* A pass is identified with its type, as the pipeline requires.  What the *)
(* passes declare (depends_on, modifies, should_reapply) is data of the    *)
(* pipeline pipe, fixed in Init.  The SDFG itself is abstracted to which   *)
(* elements (the flags of Modifies) changed since a pass last looked at it *)
(* (dirty) and since its stored result was computed (outdated): these two  *)
(* are history variables the code does not have.                           *)
(***************************************************************************)
EXTENDS Naturals, Sequences, FiniteSets

CONSTANTS
    Pass,        \* the pass types
    Element,     \* the flags of Modifies
    Pipelines,   \* the pipelines that may be constructed
    Orderings,   \* the sequences of passes that TLC tries as an order
    MaxChanges   \* bound on the results that transforming passes return

(***************************************************************************)
(* reappliesOn[p] is the set of arguments for which should_reapply holds.  *)
(* Every should_reapply of the repository is constant or asks whether some *)
(* flags are among those modified: it is monotone, and holds for a union   *)
(* only if it does for a part.                                             *)
(* reports: the passes that never return None.  incompatible: the passes   *)
(* that SimplifyPass.apply_subpass refuses to run on an SDFG with explicit *)
(* control flow.  byObject: the dependencies given as an object instead of *)
(* as a class.                                                             *)
(***************************************************************************)
PipelineType ==
    [named : Seq(Pass),
     dependsOn : [Pass -> Seq(Pass)],
     byObject : SUBSET (Pass \X Pass),
     modifies : [Pass -> SUBSET Element],
     reappliesOn : [Pass -> SUBSET SUBSET Element],
     reports : SUBSET Pass,
     incompatible : SUBSET Pass,
     fixedPoint : BOOLEAN]

Monotone(pl) ==
    \A p \in Pass : \A m, n \in SUBSET Element :
        m \in pl.reappliesOn[p] /\ m \subseteq n => n \in pl.reappliesOn[p]

Additive(pl) ==
    \A p \in Pass : \A m, n \in SUBSET Element :
        m \cup n \in pl.reappliesOn[p] =>
            m \in pl.reappliesOn[p] \/ n \in pl.reappliesOn[p]

Dependencies(pl, p) ==
    {pl.dependsOn[p][i] : i \in 1..Len(pl.dependsOn[p])}

(* No pass depends on itself, directly or not: reapply_recursive would     *)
(* never return.                                                           *)
Acyclic(pl) ==
    \A S \in SUBSET Pass :
        S # {} => \E p \in S : Dependencies(pl, p) \cap S = {}

ASSUME PipelineAssumption ==
    \A pl \in Pipelines :
        pl \in PipelineType /\ Monotone(pl) /\ Additive(pl) /\ Acyclic(pl)

ASSUME OrderingsAssumption == Orderings \subseteq Seq(Pass)

ASSUME MaxChangesAssumption == MaxChanges \in Nat

VARIABLES
    pipe,      \* what the pipeline was constructed from
    phase,     \* "construct", "error", "begin", "iterate", "returned"
    passes,    \* self.passes
    at,        \* the pass and the dependency _add_dependencies looks at
    order,     \* the passes in the order of dfs_topological_sort
    pos,       \* the position of the loop over that order
    stack,     \* the suspended reapply_recursive generators
    applied,   \* the keys of applied_passes
    since,     \* the values of applied_passes
    results,   \* the keys of pipeline_results
    retval,    \* the keys of retval in Pipeline.apply_pass
    total,     \* the keys of retval in FixedPointPipeline.apply_pass
    changes,   \* how many results transforming passes have returned
    dirty,     \* elements changed since the pass last ran
    outdated   \* elements changed since the pass last stored a result

construction == <<passes, at>>
iteration == <<order, pos, stack, applied, since>>
outcome == <<results, retval, total, changes>>
history == <<dirty, outdated>>
vars == <<pipe, phase, construction, iteration, outcome, history>>

Elements(s) == {s[i] : i \in 1..Len(s)}
Named == Elements(pipe.named)
DependsOn(p) == pipe.dependsOn[p]
Deps(p) == Dependencies(pipe, p)
Modifies(p) == pipe.modifies[p]

Init ==
    /\ pipe \in Pipelines
    /\ phase = "construct"
    /\ passes = pipe.named
    /\ at = <<1, 1>>
    /\ order = <<>>
    /\ pos = 1
    /\ stack = <<>>
    /\ applied = {}
    /\ since = [p \in Pass |-> {}]
    /\ results = {}
    /\ retval = {}
    /\ total = {}
    /\ changes = 0
    /\ dirty = [p \in Pass |-> Element]
    /\ outdated = [p \in Pass |-> Element]
-----------------------------------------------------------------------------
(***************************************************************************)
(* Construction.  The rounds over passes_to_check examine the passes in    *)
(* the order in which they are appended to self.passes, so one cursor over *)
(* the growing list stands for them.                                       *)
(***************************************************************************)
Unique(s) == \A i, j \in 1..Len(s) : s[i] = s[j] => i = j

RejectDuplicates ==
    /\ phase = "construct"
    /\ ~Unique(pipe.named)
    /\ phase' = "error"
    /\ UNCHANGED <<pipe, construction, iteration, outcome, history>>

Constructing == phase = "construct" /\ Unique(pipe.named)
Checked == passes[at[1]]
Dependency == DependsOn(Checked)[at[2]]

ExamineDependency ==
    /\ Constructing
    /\ at[1] <= Len(passes)
    /\ at[2] <= Len(DependsOn(Checked))

AddDependency ==
    /\ ExamineDependency
    /\ Dependency \notin Elements(passes)
    /\ passes' = Append(passes, Dependency)
    /\ at' = <<at[1], at[2] + 1>>
    /\ UNCHANGED <<pipe, phase, iteration, outcome, history>>

KnownDependency ==
    /\ ExamineDependency
    /\ Dependency \in Elements(passes)
    /\ <<Checked, Dependency>> \notin pipe.byObject
    /\ at' = <<at[1], at[2] + 1>>
    /\ UNCHANGED <<pipe, phase, passes, iteration, outcome, history>>

RejectObject ==
    /\ ExamineDependency
    /\ Dependency \in Elements(passes)
    /\ <<Checked, Dependency>> \in pipe.byObject
    /\ phase' = "error"
    /\ UNCHANGED <<pipe, construction, iteration, outcome, history>>

CheckNextPass ==
    /\ Constructing
    /\ at[1] <= Len(passes)
    /\ at[2] > Len(DependsOn(Checked))
    /\ at' = <<at[1] + 1, 1>>
    /\ UNCHANGED <<pipe, phase, passes, iteration, outcome, history>>

Constructed ==
    /\ Constructing
    /\ at[1] > Len(passes)
    /\ phase' = "begin"
    /\ UNCHANGED <<pipe, construction, iteration, outcome, history>>
-----------------------------------------------------------------------------
(***************************************************************************)
(* One iteration over the passes.  The dependency graph is built once; its *)
(* order is any that dfs_topological_sort may yield, by what module        *)
(* DfsTopologicalSort shows of it on an acyclic graph.                     *)
(***************************************************************************)
DependencyOrder(o) ==
    /\ Elements(o) = Elements(passes)
    /\ Unique(o)
    /\ \A i \in 1..Len(o) : Deps(o[i]) \subseteq {o[j] : j \in 1..(i - 1)}

Orders == {o \in Orderings : DependencyOrder(o)}

BeginIteration ==
    /\ phase = "begin"
    /\ phase' = "iterate"
    /\ IF order = <<>> THEN order' \in Orders ELSE order' = order
    /\ pos' = 1
    /\ stack' = <<>>
    /\ applied' = {}
    /\ since' = [p \in Pass |-> {}]
    /\ retval' = {}
    /\ UNCHANGED <<pipe, construction, results, total, changes, history>>

(* The early return of reapply_recursive. *)
AlwaysUpToDate(p) == p \in applied                                 \* mutant
NeverUpToDate(p) == FALSE                                          \* mutant
UpToDate(p) == p \in applied /\ since[p] \notin pipe.reappliesOn[p]

Top == stack[Len(stack)]
Pop(s) == SubSeq(s, 1, Len(s) - 1)
Rewind == Append(Pop(stack), <<Top[1], Top[2] - 1>>)                \* mutant
Advance == Append(Pop(stack), <<Top[1], Top[2] + 1>>)

Walking == phase = "iterate" /\ stack = <<>> /\ pos <= Len(order)

(* reapply_recursive is called on each pass of the order.  Its early       *)
(* return is never taken here: a pass is only run ahead of its turn as a   *)
(* dependency, and the dependencies of the passes before it are before it. *)
(* Were it taken, the pipeline would be deadlocked.                        *)
EnterPass ==
    /\ Walking
    /\ ~UpToDate(order[pos])
    /\ pos' = pos + 1
    /\ stack' = << <<order[pos], 1>> >>
    /\ UNCHANGED <<pipe, phase, construction, order, applied, since,
                   outcome, history>>

CheckingDependencies ==
    /\ phase = "iterate"
    /\ stack # <<>>
    /\ Top[2] <= Len(DependsOn(Top[1]))

NextDependency == DependsOn(Top[1])[Top[2]]

SkipDependency ==
    /\ CheckingDependencies
    /\ UpToDate(NextDependency)
    /\ stack' = Advance
    /\ UNCHANGED <<pipe, phase, construction, order, pos, applied, since,
                   outcome, history>>

EnterDependency ==
    /\ CheckingDependencies
    /\ ~UpToDate(NextDependency)
    /\ stack' = Append(Advance, <<NextDependency, 1>>)
    /\ UNCHANGED <<pipe, phase, construction, order, pos, applied, since,
                   outcome, history>>

(***************************************************************************)
(* The pass on top of the stack is yielded and apply_pass runs it.  By the *)
(* contract of Pass.apply_pass a pass that returns None changed nothing,   *)
(* and otherwise it changed at most what modifies() declares.  The loop of *)
(* iterate_over_passes then adds _modified to every applied pass and sets  *)
(* the pass itself to Nothing.                                             *)
(***************************************************************************)
Ready(p) ==
    /\ phase = "iterate"
    /\ stack # <<>>
    /\ Top[1] = p
    /\ Top[2] > Len(DependsOn(p))

MayReturn(p, r) ==
    IF r
    THEN /\ p \notin pipe.incompatible
         /\ Modifies(p) = {} \/ changes < MaxChanges
    ELSE p \notin pipe.reports \/ p \in pipe.incompatible

Modified(p, r) == IF r THEN Modifies(p) ELSE {}

ApplySubpass(p, r, m) ==
    /\ Ready(p)
    /\ MayReturn(p, r)
    /\ m \subseteq Modified(p, r)
    /\ stack' = Pop(stack)
    /\ applied' = applied \cup {p}
    /\ since' = [q \in Pass |->
                    IF q = p THEN {}
                    ELSE IF q \in applied THEN since[q] \cup Modified(p, r)
                    ELSE since[q]]
    /\ results' = IF r THEN results \cup {p} ELSE results
    /\ retval' = IF r THEN retval \cup {p} ELSE retval
    /\ changes' = IF r /\ Modifies(p) # {} THEN changes + 1 ELSE changes
    /\ dirty' = [q \in Pass |-> IF q = p /\ p \notin pipe.incompatible
                                THEN m ELSE dirty[q] \cup m]
    /\ outdated' = [q \in Pass |-> IF q = p /\ r THEN m ELSE outdated[q] \cup m]
    /\ UNCHANGED <<pipe, phase, construction, order, pos, total>>

IterationOver == phase = "iterate" /\ stack = <<>> /\ pos > Len(order)

(* A plain pipeline returns after one iteration. *)
ReturnPlain ==
    /\ IterationOver
    /\ ~pipe.fixedPoint
    /\ phase' = "returned"
    /\ UNCHANGED <<pipe, construction, iteration, outcome, history>>

(* A fixed-point pipeline drops the results of the passes it was not given *)
(* and goes on as long as any other is left.                               *)
NewRetOfLast == {p \in retval \cap Named : p = order[Len(order)]}   \* mutant
AllRet == retval                                                   \* mutant
NewRet == retval \cap Named

Repeat ==
    /\ IterationOver
    /\ pipe.fixedPoint
    /\ NewRet # {}
    /\ phase' = "begin"
    /\ total' = total \cup NewRet
    /\ UNCHANGED <<pipe, construction, iteration, results, retval, changes,
                   history>>

ReturnFixedPoint ==
    /\ IterationOver
    /\ pipe.fixedPoint
    /\ NewRet = {}
    /\ phase' = "returned"
    /\ UNCHANGED <<pipe, construction, iteration, outcome, history>>

Stopped == phase \in {"error", "returned"} /\ UNCHANGED vars

Construct == \/ RejectDuplicates \/ AddDependency \/ KnownDependency
             \/ RejectObject \/ CheckNextPass \/ Constructed

Apply ==
    \/ BeginIteration \/ EnterPass
    \/ SkipDependency \/ EnterDependency
    \/ \E p \in Pass, r \in BOOLEAN, m \in SUBSET Element : ApplySubpass(p, r, m)
    \/ ReturnPlain \/ Repeat \/ ReturnFixedPoint

Next == Construct \/ Apply \/ Stopped

Spec == Init /\ [][Next]_vars
FairSpec == Spec /\ WF_vars(Construct \/ Apply)
-----------------------------------------------------------------------------
TypeOK ==
    /\ pipe \in Pipelines
    /\ phase \in {"construct", "error", "begin", "iterate", "returned"}
    /\ passes \in Seq(Pass)
    /\ at \in (Nat \ {0}) \X (Nat \ {0})
    /\ order \in Seq(Pass)
    /\ pos \in Nat \ {0}
    /\ stack \in Seq(Pass \X (Nat \ {0}))
    /\ applied \subseteq Pass
    /\ since \in [Pass -> SUBSET Element]
    /\ results \subseteq Pass
    /\ retval \subseteq Pass
    /\ total \subseteq Pass
    /\ changes \in 0..MaxChanges
    /\ dirty \in [Pass -> SUBSET Element]
    /\ outdated \in [Pass -> SUBSET Element]

(***************************************************************************)
(* "Pipeline ... will ensure dependencies are met" (the docstring of       *)
(* Pass): when a pass is about to run, pipeline_results holds a result of  *)
(* each of its dependencies, and nothing changed in the SDFG since that    *)
(* result was computed that the dependency wants to be reapplied for.      *)
(* This needs the dependencies to be what all those of the repository are, *)
(* analyses: passes that change nothing and always return a result.        *)
(***************************************************************************)
IsAnalysis(p) ==
    Modifies(p) = {} /\ p \in pipe.reports /\ p \notin pipe.incompatible

AnalysisDependencies == \A p \in Pass : \A d \in Deps(p) : IsAnalysis(d)

ResultFresh(d) ==
    /\ d \in results
    /\ outdated[d] = {} \/ outdated[d] \notin pipe.reappliesOn[d]

ResultsFresh ==
    AnalysisDependencies =>
        \A p \in Pass : Ready(p) => \A d \in Deps(p) : ResultFresh(d)

(***************************************************************************)
(* The same of the dependencies of the dependencies.  As reapply_recursive *)
(* does not look at the dependencies of a pass that is up to date, this    *)
(* needs those passes to ask for reapplication whenever their dependencies *)
(* do.                                                                     *)
(***************************************************************************)
Covering ==
    \A q \in Pass : \A p \in Deps(q) : \A d \in Deps(p) :
        pipe.reappliesOn[d] \subseteq pipe.reappliesOn[p]

Closed(S) == \A p \in S : Deps(p) \subseteq S
AllDeps(p) ==
    {d \in Pass : \A S \in SUBSET Pass : Deps(p) \subseteq S /\ Closed(S) => d \in S}

TransitivelyFresh ==
    AnalysisDependencies /\ Covering =>
        \A p \in Pass : Ready(p) => \A d \in AllDeps(p) : ResultFresh(d)

(***************************************************************************)
(* "and that passes do not run redundantly": a pass is run again within an *)
(* iteration only after a pass whose modifies() it wants to be reapplied   *)
(* for has returned a result.                                              *)
(***************************************************************************)
NoRedundantRun ==
    \A p \in Pass : Ready(p) /\ p \in applied => since[p] \in pipe.reappliesOn[p]

(***************************************************************************)
(* FixedPointPipeline "applies its Pass objects in repeated succession     *)
(* until they all stop modifying the SDFG": when it returns, each pass it  *)
(* was given has looked at the SDFG that is returned.  The passes it added *)
(* itself must be analyses, since their results are not waited for.        *)
(***************************************************************************)
AddedAnalyses == \A p \in Elements(passes) \ Named : Modifies(p) = {}

FixedPointReached ==
    phase = "returned" /\ pipe.fixedPoint /\ AddedAnalyses =>
        \A p \in Named \ pipe.incompatible : dirty[p] = {}

(***************************************************************************)
(* Applying a pipeline ends, when each pass given to a fixed-point one     *)
(* transforms the SDFG (and so, MaxChanges being finite, ends up returning *)
(* None).                                                                  *)
(***************************************************************************)
Ended == phase \in {"error", "returned"}

Terminates ==
    (pipe.fixedPoint => \A p \in Named : Modifies(p) # {}) => <>Ended
=============================================================================
