---------------------------- MODULE MCPlanner -----------------------------
(***************************************************************************)
(* The example mission of planner.py (spec section 8, scenarios A and B). *)
(* Memory is counted in units of 512 MB, cost in tens and risk in tenths. *)
(* The caller wires the tree in any order (MCTaskGraph's wiring, with a   *)
(* Drone leaf of cost 10 and risk 0.9 as in scenario C), builds           *)
(* PlanMission as an ANDNode, an ORNode or an AtomicNode, and passes one  *)
(* of three pools: the example's, scenario B's (500 MB of memory, less    *)
(* than one unit), and one without a "gpu" key.                           *)
(***************************************************************************)
EXTENDS Planner, MCTaskGraph

MCResOrder == <<"cpu", "memory", "gpu">>

MCResources ==
    [n \in Node |->
        CASE n = "PlanMission" -> [r \in {"cpu"} |-> 2]
          [] n = "AcquireData" -> [r \in {"memory"} |-> 8]
          [] n = "SensorData"  -> [r \in {"cpu", "memory"} |-> IF r = "cpu" THEN 1 ELSE 4]
          [] n = "APIIngest"   -> [r \in {"cpu", "memory"} |-> IF r = "cpu" THEN 2 ELSE 2]
          [] n = "ProcessData" -> [r \in {"cpu", "gpu"} |-> IF r = "cpu" THEN 4 ELSE 1]
          [] n = "CleanData"   -> [r \in {"memory"} |-> 1]
          [] n = "Transform"   -> [r \in {"cpu"} |-> 2]
          [] n = "Drone"       -> [r \in {"cpu"} |-> 1]]

MCCost ==
    [n \in Node |->
        CASE n = "SensorData" -> 5 [] n = "APIIngest" -> 3
          [] n = "CleanData"  -> 1 [] n = "Transform" -> 2
          [] n = "Drone"      -> 1
          [] OTHER            -> 0]

MCRisk ==
    [n \in Node |->
        CASE n = "SensorData" -> 2 [] n = "APIIngest" -> 4
          [] n = "Drone"      -> 9 [] OTHER -> 0]

ExampleKinds ==
    [n \in Node |->
        CASE n \in {"PlanMission", "ProcessData"} -> "AND"
          [] n = "AcquireData"                     -> "OR"
          [] OTHER                                 -> "ATOMIC"]

MCKindChoices ==
    { ExampleKinds, [ExampleKinds EXCEPT !["PlanMission"] = "OR"],
      [ExampleKinds EXCEPT !["PlanMission"] = "ATOMIC"] }

ExamplePool == [r \in {"cpu", "memory", "gpu"} |->
                    CASE r = "cpu" -> 8 [] r = "memory" -> 32 [] r = "gpu" -> 1]

MCPoolChoices ==
    { ExamplePool,
      [ExamplePool EXCEPT !["memory"] = 0],
      [r \in {"cpu", "memory"} |-> ExamplePool[r]] }
=============================================================================
