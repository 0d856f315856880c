--------------------------- MODULE MCTaskGraph ----------------------------
(***************************************************************************)
(* The mission tree of planner.py's example, wired by add_child calls in   *)
(* any order, with a risky Drone leaf (spec scenario C) offered under      *)
(* PlanMission and AcquireData, plus calls a caller could also make:       *)
(* ProcessData under CleanData (closing a cycle through children), and     *)
(* CleanData under Transform, PlanMission under AcquireData and under      *)
(* CleanData (each a direct or transitive precondition of its parent, so   *)
(* add_child must refuse them).                                            *)
(***************************************************************************)
EXTENDS TaskGraph

MCPreconditions ==
    [n \in Node |->
        CASE n = "Transform"   -> {"CleanData"}
          [] n = "CleanData"   -> {"AcquireData"}
          [] n = "AcquireData" -> {"PlanMission"}
          [] OTHER             -> {}]

MCWiring ==
    { <<"PlanMission", "AcquireData">>, <<"PlanMission", "ProcessData">>,
      <<"AcquireData", "SensorData">>, <<"AcquireData", "APIIngest">>,
      <<"ProcessData", "CleanData">>, <<"ProcessData", "Transform">>,
      <<"CleanData", "ProcessData">>,
      <<"PlanMission", "Drone">>, <<"AcquireData", "Drone">>,
      <<"Transform", "CleanData">>, <<"AcquireData", "PlanMission">>,
      <<"CleanData", "PlanMission">> }
=============================================================================
