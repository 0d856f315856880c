----------------------------- MODULE TaskGraph -----------------------------
(***************************************************************************)
(* The task node model of src/orchestration/symbolic/planner.py: a caller  *)
(* wires TaskNode objects together with TaskNode.add_child, which refuses  *)
(* a child found among TaskNode.get_ancestors, and TaskNode.validate_dag   *)
(* walks the children of a root looking for a node repeated on its path.   *)
(*                                                                         *)
(* The preconditions of a node are given to its constructor and nothing    *)
(* changes them afterwards, so they are a constant; the children lists are *)
(* the state the caller builds.                                            *)
(***************************************************************************)
EXTENDS Naturals, Sequences, SequencesExt, FiniteSets

CONSTANTS
    Node,           \* the TaskNode objects the caller constructed
    Root,           \* the node later handed to PlanningGraph as its root
    Preconditions,  \* Preconditions[n]: the nodes of n's preconditions list
    Wiring,         \* the <<parent, child>> add_child calls the caller makes
    MaxChildren,    \* bound: length of a children list
    NoCall          \* model value: no add_child call has returned yet

ASSUME Root \in Node
ASSUME Preconditions \in [Node -> SUBSET Node]
ASSUME Wiring \subseteq Node \X Node
ASSUME MaxChildren \in Nat \ {0}

VARIABLES
    children,   \* children[n]: the list n._children
    lastAdd     \* the last add_child call and whether it raised

tgVars == <<children, lastAdd>>

-----------------------------------------------------------------------------
(***************************************************************************)
(* get_ancestors: a stack walk over preconditions, adding each parent not  *)
(* yet collected and pushing it.  Popping takes the end of the list.       *)
(***************************************************************************)
RECURSIVE AncestorWalk(_, _)
AncestorWalk(stack, ancestors) ==
    IF stack = <<>> THEN ancestors
    ELSE LET current == Last(stack)
             new     == Preconditions[current] \ ancestors
         IN  AncestorWalk(Front(stack) \o SetToSeq(new), ancestors \cup new)

\* Mutant: the walk never pushes a parent, so only direct preconditions count.
GetParentsOnly(n) == Preconditions[n]

GetAncestors(n) == AncestorWalk(<<n>>, {})

(***************************************************************************)
(* validate_dag: a stack of <<node, path>> pairs and a visited set.  A     *)
(* node met again on its own path raises CircularDependencyError (TRUE     *)
(* here); a node visited before is not expanded again.  Children are       *)
(* pushed in list order, so the last child is walked first.                *)
(***************************************************************************)
\* Mutant: the visited test comes before the path test.
RECURSIVE DagWalkVisitedFirst(_, _)
DagWalkVisitedFirst(stack, visited) ==
    IF stack = <<>> THEN FALSE
    ELSE LET node == Last(stack)[1]
             path == Last(stack)[2]
             rest == Front(stack)
         IN  IF node \in visited THEN DagWalkVisitedFirst(rest, visited)
             ELSE IF node \in path THEN TRUE
             ELSE DagWalkVisitedFirst(rest \o [i \in 1..Len(children[node]) |->
                                          <<children[node][i], path \cup {node}>>],
                                      visited \cup {node})

RECURSIVE DagWalk(_, _)
DagWalk(stack, visited) ==
    IF stack = <<>> THEN FALSE
    ELSE LET node == Last(stack)[1]
             path == Last(stack)[2]
             rest == Front(stack)
         IN  IF node \in path THEN TRUE
             ELSE IF node \notin visited
                  THEN DagWalk(rest \o [i \in 1..Len(children[node]) |->
                                          <<children[node][i], path \cup {node}>>],
                               visited \cup {node})
                  ELSE DagWalk(rest, visited)

ValidateDagRaises(root) == DagWalk(<<<<root, {}>>>>, {})

-----------------------------------------------------------------------------
(***************************************************************************)
(* add_child(parent, child): raise when child is an ancestor of parent,    *)
(* otherwise append child to parent._children.                             *)
(***************************************************************************)
AddChild(p, c) ==
    /\ <<p, c>> \in Wiring
    /\ Len(children[p]) < MaxChildren
    /\ \/ /\ c \in GetAncestors(p)
          /\ lastAdd' = [parent |-> p, child |-> c, raised |-> TRUE]
          /\ UNCHANGED children
       \/ /\ c \notin GetAncestors(p)
          /\ children' = [children EXCEPT ![p] = Append(@, c)]
          /\ lastAdd' = [parent |-> p, child |-> c, raised |-> FALSE]

TGInit ==
    /\ children = [n \in Node |-> <<>>]
    /\ lastAdd = NoCall

TGNext == \E w \in Wiring : AddChild(w[1], w[2])

TGSpec == TGInit /\ [][TGNext]_tgVars

-----------------------------------------------------------------------------
(* Reference definitions, independent of the code's stack walks.           *)

\* The nodes reachable from S by steps of succ, the nodes of S included.
RECURSIVE Reach(_, _)
Reach(succ, S) ==
    LET next == UNION {succ[n] : n \in S} IN
    IF next \subseteq S THEN S ELSE Reach(succ, S \cup next)

ChildSets == [n \in Node |-> Range(children[n])]
PreconditionClosure(n) == Reach(Preconditions, Preconditions[n])
Descendants(n) == Reach(ChildSets, ChildSets[n])
CycleReachableFrom(r) ==
    \E n \in {r} \cup Descendants(r) : n \in Descendants(n)

-----------------------------------------------------------------------------
TGTypeOK ==
    /\ children \in [Node -> Seq(Node)]
    /\ \A n \in Node : Len(children[n]) <= MaxChildren
    /\ lastAdd \in {NoCall} \cup [parent : Node, child : Node, raised : BOOLEAN]

(* add_child raises exactly when the child is a transitive precondition of *)
(* the parent: get_ancestors's stack walk collects the whole closure.      *)
AddChildGuardIsAncestry ==
    lastAdd # NoCall =>
        (lastAdd.raised <=> lastAdd.child \in PreconditionClosure(lastAdd.parent))

(* validate_dag raises on a graph exactly when a cycle is reachable from   *)
(* the root, although it never re-expands a node it visited before.        *)
ValidateDagDetectsCycles ==
    ValidateDagRaises(Root) <=> CycleReachableFrom(Root)

(* Spec section 8: a tree built only through add_child passes validate_dag *)
(* (the insertion guard and the pre-flight check agree).                   *)
InsertionGuardKeepsAcyclic == ~ValidateDagRaises(Root)
=============================================================================
