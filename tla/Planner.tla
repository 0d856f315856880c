------------------------------ MODULE Planner ------------------------------
(***************************************************************************)
(* PlanningGraph.generate_plan of src/orchestration/symbolic/planner.py    *)
(* composed with the TaskGraph wiring that precedes it: the caller builds  *)
(* the tree with add_child, then one generate_plan call runs validate_dag  *)
(* and the best-first loop _ao_star_search, one loop iteration per step.   *)
(*                                                                         *)
(* Costs are naturals (tens of the code's float costs) and risks tenths,  *)
(* so the comparisons the code makes are kept exactly.                     *)
(***************************************************************************)
EXTENDS TaskGraph, BagsExt

CONSTANTS
    Res,            \* resource names
    ResOrder,       \* the order a resources dict yields its keys
    Resources,      \* Resources[n]: n.resources, a function on a subset of Res
    Cost,           \* Cost[n]: n.cost
    Risk,           \* Risk[n]: n.risk in tenths
    RiskThreshold,  \* PlanningGraph.risk_threshold in tenths
    KindChoices,    \* the class each node may be constructed with
    PoolChoices,    \* the resource_pool dicts the caller may pass
    ValidateResourcesChoices, \* whether TaskNode.validate_resources exists:
                    \* FALSE as written, TRUE with the spec's meaning
    NoPlan          \* model value: best_plan is None

ASSUME ResOrder \in Seq(Res) /\ Range(ResOrder) = Res
ASSUME \A n \in Node : DOMAIN Resources[n] \subseteq Res
ASSUME KindChoices \subseteq [Node -> {"AND", "OR", "ATOMIC"}]
ASSUME ValidateResourcesChoices \subseteq BOOLEAN

VARIABLES
    kind,       \* kind[n]: ANDNode, ORNode or AtomicNode
    pool,       \* PlanningGraph.resource_pool
    phase,      \* "build": caller wiring; "search": in the loop; "done"
    heap,       \* the heapq list, as a bag of <<cost, node>> entries
    best,       \* best_plan
    outcome,    \* what generate_plan returned or raised
    hasValidateResources \* the code version: validate_resources defined

plannerVars == <<kind, pool, phase, heap, best, outcome, hasValidateResources>>
vars == <<children, lastAdd, kind, pool, phase, heap, best, outcome,
          hasValidateResources>>

\* Every node keeps the _state "PENDING" its constructor sets: no code
\* assigns _state afterwards.
NodeState(n) == "PENDING"

PoolGet(r) == IF r \in DOMAIN pool THEN pool[r] ELSE 0
MaxOf(a, b) == IF a >= b THEN a ELSE b

-----------------------------------------------------------------------------
(***************************************************************************)
(* ANDNode/ORNode.decompose.  Both call child.validate_resources, which no *)
(* class defines: with hasValidateResources FALSE the first child raises  *)
(* AttributeError, which the except ResourceConflictError does not catch.  *)
(* Otherwise the check is the spec's "individually resource-feasible".     *)
(***************************************************************************)
ChildFeasible(c) ==
    \A r \in DOMAIN Resources[c] : Resources[c][r] <= PoolGet(r)

DecomposeRaises(n) == ~hasValidateResources /\ children[n] # <<>>

Decompose(n) ==
    LET feasible == SelectSeq(children[n], ChildFeasible) IN
    IF kind[n] = "AND"
    THEN IF feasible = <<>> THEN <<>> ELSE <<feasible>>
    ELSE [i \in 1..Len(feasible) |-> <<feasible[i]>>]

(***************************************************************************)
(* _evaluate_option: for each PENDING node, add each of its resources in   *)
(* key order and stop at the first running sum above pool.get(res, 0).    *)
(* Building the error message reads resource_pool[res], which raises      *)
(* KeyError when res is not a key of the pool.                            *)
(***************************************************************************)
ResKeys(n) == SelectSeq(ResOrder, LAMBDA r : r \in DOMAIN Resources[n])

AddAmount(acc, n, r) ==
    IF acc.status # "ok" THEN acc
    ELSE LET sum == acc.usage[r] + Resources[n][r] IN
         IF sum > PoolGet(r)
         THEN [acc EXCEPT !.status = IF r \in DOMAIN pool THEN "conflict"
                                                          ELSE "keyerror"]
         ELSE [acc EXCEPT !.usage[r] = sum]

\* Mutant: total_risk = node.risk, the last node's risk instead of the max.
EvalNodeLastRisk(acc, n) ==
    IF acc.status # "ok" \/ NodeState(n) # "PENDING" THEN acc
    ELSE LET counted == FoldLeft(LAMBDA a, r : AddAmount(a, n, r), acc, ResKeys(n))
         IN  IF counted.status # "ok" THEN counted
             ELSE [counted EXCEPT !.cost = @ + Cost[n], !.risk = Risk[n]]

EvalNode(acc, n) ==
    IF acc.status # "ok" \/ NodeState(n) # "PENDING" THEN acc
    ELSE LET counted == FoldLeft(LAMBDA a, r : AddAmount(a, n, r), acc, ResKeys(n))
         IN  IF counted.status # "ok" THEN counted
             ELSE [counted EXCEPT !.cost = @ + Cost[n], !.risk = MaxOf(@, Risk[n])]

EvaluateOption(option) ==
    FoldLeft(EvalNode,
             [status |-> "ok", usage |-> [r \in Res |-> 0], cost |-> 0, risk |-> 0],
             option)

(***************************************************************************)
(* One pass of the for-loop over decompositions: skip a conflicting or too *)
(* risky option; accept one whose total cost beats best_plan, making it    *)
(* best_plan (with cost set to the total) and pushing its last node.       *)
(***************************************************************************)
\* Mutant: the push sits outside the improvement test.
ScoreOptionPushAlways(acc, current, option) ==
    IF acc.status # "ok" THEN acc
    ELSE LET plan  == EvaluateOption(option)
             total == current + plan.cost
         IN  CASE plan.status = "keyerror" -> [acc EXCEPT !.status = "keyerror"]
               [] plan.status = "conflict" \/ plan.risk > RiskThreshold -> acc
               [] acc.best = NoPlan \/ total < acc.best.cost ->
                    [acc EXCEPT !.best = [sequence |-> option, usage |-> plan.usage,
                                          cost |-> total, risk |-> plan.risk],
                                !.heap = BagAdd(@, <<total, Last(option)>>)]
               [] OTHER -> [acc EXCEPT !.heap = BagAdd(@, <<total, Last(option)>>)]

\* Mutant: an option of equal total cost also replaces best_plan.
ScoreOptionNotStrict(acc, current, option) ==
    IF acc.status # "ok" THEN acc
    ELSE LET plan  == EvaluateOption(option)
             total == current + plan.cost
         IN  CASE plan.status = "keyerror" -> [acc EXCEPT !.status = "keyerror"]
               [] plan.status = "conflict" \/ plan.risk > RiskThreshold -> acc
               [] acc.best = NoPlan \/ total <= acc.best.cost ->
                    [acc EXCEPT !.best = [sequence |-> option, usage |-> plan.usage,
                                          cost |-> total, risk |-> plan.risk],
                                !.heap = BagAdd(@, <<total, Last(option)>>)]
               [] OTHER -> acc

\* Mutant: the whole option is pushed instead of option[-1].
ScoreOptionPushOption(acc, current, option) ==
    IF acc.status # "ok" THEN acc
    ELSE LET plan  == EvaluateOption(option)
             total == current + plan.cost
         IN  CASE plan.status = "keyerror" -> [acc EXCEPT !.status = "keyerror"]
               [] plan.status = "conflict" \/ plan.risk > RiskThreshold -> acc
               [] acc.best = NoPlan \/ total < acc.best.cost ->
                    [acc EXCEPT !.best = [sequence |-> option, usage |-> plan.usage,
                                          cost |-> total, risk |-> plan.risk],
                                !.heap = BagAdd(@, <<total, option>>)]
               [] OTHER -> acc

ScoreOption(acc, current, option) ==
    IF acc.status # "ok" THEN acc
    ELSE LET plan  == EvaluateOption(option)
             total == current + plan.cost
         IN  CASE plan.status = "keyerror" -> [acc EXCEPT !.status = "keyerror"]
               [] plan.status = "conflict" \/ plan.risk > RiskThreshold -> acc
               [] acc.best = NoPlan \/ total < acc.best.cost ->
                    [acc EXCEPT !.best = [sequence |-> option, usage |-> plan.usage,
                                          cost |-> total, risk |-> plan.risk],
                                !.heap = BagAdd(@, <<total, Last(option)>>)]
               [] OTHER -> acc

-----------------------------------------------------------------------------
(* generate_plan: validate_dag first, then _ao_star_search from (0, root). *)
GeneratePlanRejected ==
    /\ phase = "build"
    /\ ValidateDagRaises(Root)
    /\ phase' = "done"
    /\ outcome' = "CircularDependencyError"
    /\ UNCHANGED <<children, lastAdd, kind, pool, hasValidateResources, heap, best>>

GeneratePlanStart ==
    /\ phase = "build"
    /\ ~ValidateDagRaises(Root)
    /\ phase' = "search"
    /\ heap' = SetToBag({<<0, Root>>})
    /\ best' = NoPlan
    /\ UNCHANGED <<children, lastAdd, kind, pool, hasValidateResources, outcome>>

\* heappop: an entry of least cost.  Mutant: heap[0] is read, not popped.
HeapPopPeek(e) == heap
HeapPop(e) == BagRemove(heap, e)

Popped == {e \in BagToSet(heap) : \A f \in BagToSet(heap) : e[1] <= f[1]}

PopAtomic ==
    /\ phase = "search"
    /\ \E e \in Popped :
          /\ kind[e[2]] = "ATOMIC"
          /\ heap' = HeapPop(e)
    /\ UNCHANGED <<children, lastAdd, kind, pool, hasValidateResources, phase, best, outcome>>

PopDecomposeCrash ==
    /\ phase = "search"
    /\ \E e \in Popped :
          /\ kind[e[2]] # "ATOMIC"
          /\ DecomposeRaises(e[2])
          /\ heap' = HeapPop(e)
    /\ phase' = "done"
    /\ outcome' = "AttributeError"
    /\ UNCHANGED <<children, lastAdd, kind, pool, hasValidateResources, best>>

PopExpand ==
    /\ phase = "search"
    /\ \E e \in Popped :
          /\ kind[e[2]] # "ATOMIC"
          /\ ~DecomposeRaises(e[2])
          /\ LET r == FoldLeft(LAMBDA acc, opt : ScoreOption(acc, e[1], opt),
                               [status |-> "ok", best |-> best,
                                heap |-> HeapPop(e)],
                               Decompose(e[2]))
             IN  IF r.status = "keyerror"
                 THEN /\ phase' = "done" /\ outcome' = "KeyError"
                      /\ UNCHANGED <<heap, best>>
                 ELSE /\ heap' = r.heap /\ best' = r.best
                      /\ UNCHANGED <<phase, outcome>>
    /\ UNCHANGED <<children, lastAdd, kind, pool, hasValidateResources>>

\* The heap is empty: return best_plan or raise PlanException.
Finish ==
    /\ phase = "search"
    /\ heap = EmptyBag
    /\ phase' = "done"
    /\ \/ best = NoPlan /\ outcome' = "PlanException"
       \/ best # NoPlan /\ outcome' = "plan"
    /\ UNCHANGED <<children, lastAdd, kind, pool, hasValidateResources, heap, best>>

Build ==
    /\ phase = "build"
    /\ TGNext
    /\ UNCHANGED plannerVars

Init ==
    /\ TGInit
    /\ kind \in KindChoices
    /\ pool \in PoolChoices
    /\ phase = "build"
    /\ heap = EmptyBag
    /\ best = NoPlan
    /\ outcome = "none"
    /\ hasValidateResources \in ValidateResourcesChoices

Next ==
    \/ Build
    \/ GeneratePlanRejected
    \/ GeneratePlanStart
    \/ PopAtomic
    \/ PopDecomposeCrash
    \/ PopExpand
    \/ Finish

Spec == Init /\ [][Next]_vars

-----------------------------------------------------------------------------
TypeOK ==
    /\ TGTypeOK
    /\ kind \in KindChoices
    /\ pool \in PoolChoices
    /\ hasValidateResources \in ValidateResourcesChoices
    /\ phase \in {"build", "search", "done"}
    /\ BagToSet(heap) \subseteq Nat \X Node
    /\ best \in {NoPlan} \cup [sequence : Seq(Node), usage : [Res -> Nat],
                              cost : Nat, risk : Nat]
    /\ outcome \in {"none", "plan", "PlanException", "CircularDependencyError",
                    "AttributeError", "KeyError"}

\* Sums over the nodes of a sequence, written independently of the code.
SeqCost(s) == FoldLeft(LAMBDA a, n : a + Cost[n], 0, s)
SeqNeed(s, r) ==
    FoldLeft(LAMBDA a, n : a + (IF r \in DOMAIN Resources[n] THEN Resources[n][r] ELSE 0),
             0, s)

(* heapq orders (cost, node) tuples: two entries of equal cost make it    *)
(* compare the TaskNode objects, which define no ordering (TypeError).    *)
(* The loop must never hold two distinct entries of the same cost.        *)
NoHeapTieComparison ==
    \A e, f \in BagToSet(heap) : e[1] = f[1] => e = f

(* A returned plan respects the limits it was searched under: no node of  *)
(* it is above the risk threshold, together they fit the pool, and its    *)
(* cost is the sum of its nodes' costs (spec section 8, scenario A).      *)
PlanWithinBudget ==
    outcome = "plan" =>
        /\ \A k \in 1..Len(best.sequence) : Risk[best.sequence[k]] <= RiskThreshold
        /\ \A r \in Res : SeqNeed(best.sequence, r) <= PoolGet(r)
        /\ best.cost = SeqCost(best.sequence)

(* The plan _ao_star_search returns is the first of the root's acceptable *)
(* decompositions of least cost: a pushed entry carries best_plan's cost, *)
(* so no deeper option can ever beat it strictly.                         *)
RootOptions == Decompose(Root)
AcceptableRootOptions ==
    {i \in 1..Len(RootOptions) :
        LET p == EvaluateOption(RootOptions[i])
        IN  p.status = "ok" /\ p.risk <= RiskThreshold}
OptionCost(i) == SeqCost(RootOptions[i])

BestIsFirstCheapestRootOption ==
    outcome = "plan" =>
        \E i \in AcceptableRootOptions :
            /\ best.sequence = RootOptions[i]
            /\ \A j \in AcceptableRootOptions :
                  /\ OptionCost(i) <= OptionCost(j)
                  /\ j < i => OptionCost(j) > OptionCost(i)

\* The work an entry leaves to the loop: the size of its node's subtree,
\* unfolded (a node reached twice counts twice).
RECURSIVE TreeSize(_)
TreeSize(n) == 1 + FoldLeft(LAMBDA a, c : a + TreeSize(c), 0, children[n])

HeapWork == MapThenFoldBag(LAMBDA x, y : x + y, 0, LAMBDA e : TreeSize(e[2]),
                           LAMBDA S : CHOOSE x \in S : TRUE, heap)

(* The while-heap loop of _ao_star_search ends: every iteration that does *)
(* not leave the loop pops an entry and pushes only children of its node, *)
(* so the work left on the heap strictly shrinks.  A pop that left the    *)
(* entry on the heap would expand the same node again and again.          *)
SearchLoopShrinksHeapWork ==
    [][phase = "search" /\ phase' = "search" => HeapWork' < HeapWork]_vars
=============================================================================
