\* Spec section 8: trees built through add_child always pass validate_dag.
CONSTANTS
    Node = {"PlanMission", "AcquireData", "ProcessData", "SensorData", "APIIngest", "CleanData", "Transform", "Drone"}
    Root = "PlanMission"
    Preconditions <- MCPreconditions
    Wiring <- MCWiring
    MaxChildren = 2
    NoCall = NoCall

INIT TGInit
NEXT TGNext

INVARIANT InsertionGuardKeepsAcyclic
