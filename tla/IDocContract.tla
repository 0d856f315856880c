---------------------------- MODULE IDocContract ----------------------------
(***************************************************************************)
(* What IDocAdapter.process_idoc promises its caller                       *)
(* (src/integration/adapters/sap/idoc_adapter.py, lines 46-59), with the   *)
(* parsing, transformation and retries left out: while the call is        *)
(* pending EDS may receive the IDoc, only an acceptable one and at most    *)
(* MaxDeliveries times; the call then either returns success, only after  *)
(* EDS received the IDoc, or raises (its last POST may still reach EDS).  *)
(* A call may also stay pending for good: nothing bounds how long a POST  *)
(* waits, so the contract is a safety property only.                      *)
(***************************************************************************)
EXTENDS Naturals

CONSTANTS
    Doc,            \* the IDoc contents a caller can pass
    Acceptable,     \* the contents the pipeline accepts
    MaxDeliveries   \* how often EDS may receive one IDoc

VARIABLES
    doc,            \* idoc_content
    status,         \* "pending" or "done"
    outcome,        \* "none", "success" or "error"
    deliveries      \* POSTs of this IDoc EDS received

cvars == <<doc, status, outcome, deliveries>>

Init ==
    /\ doc \in Doc /\ status = "pending" /\ outcome = "none" /\ deliveries = 0

\* EDS receives the IDoc while the call runs.
Deliver ==
    /\ status = "pending" /\ doc \in Acceptable /\ deliveries < MaxDeliveries
    /\ deliveries' = deliveries + 1
    /\ UNCHANGED <<doc, status, outcome>>

\* process_idoc returns {'status': 'success', ...}.
Succeed ==
    /\ status = "pending" /\ doc \in Acceptable /\ deliveries >= 1
    /\ status' = "done" /\ outcome' = "success"
    /\ UNCHANGED <<doc, deliveries>>

\* process_idoc logs the failure and re-raises; the POST of the attempt
\* that failed may have reached EDS.
Fail ==
    /\ status = "pending" /\ status' = "done" /\ outcome' = "error"
    /\ deliveries' \in ({deliveries} \cup
                      (IF doc \in Acceptable THEN {deliveries + 1} ELSE {}))
                     \cap 0..MaxDeliveries
    /\ UNCHANGED doc

Next == Deliver \/ Succeed \/ Fail

Spec == Init /\ [][Next]_cvars
=============================================================================
