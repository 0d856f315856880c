---------------------------- MODULE IDocPipeline ----------------------------
(***************************************************************************)
(* IDocAdapter.process_idoc of src/integration/adapters/sap/idoc_adapter.py *)
(* for one inbound IDoc: signature check, _parse_idoc (retried by          *)
(* tenacity up to 5 attempts on any exception), normalisation and EDI      *)
(* transformation, then _dispatch_to_eds (retried up to 3 attempts on any  *)
(* exception), whose POST is followed by _monitor_performance.             *)
(*                                                                         *)
(* An IDoc is a record: whether its XML is well formed, its SchemaVersion  *)
(* and its data segments, each a segment type, the value of a DOCNUM field *)
(* ("None" when it has none) and its other fields as one model value.      *)
(***************************************************************************)
EXTENDS Naturals, Sequences, SequencesExt

CONSTANTS
    Doc,                        \* the IDocs that can arrive
    ParseAttempts,              \* stop_after_attempt(5) of _parse_idoc
    DispatchAttempts,           \* stop_after_attempt(3) of _dispatch_to_eds
    ValidateSignatureDefined,   \* FALSE: no _validate_signature method
    MappingsLoaded,             \* FALSE: _load_mappings returns None
    MessageTypeInControl        \* FALSE: control data has no message_type

ASSUME ParseAttempts \in Nat \ {0} /\ DispatchAttempts \in Nat \ {0}

\* What EDS's POST can do: refuse the connection, drop it after the data
\* arrived (also a ConnectionError), answer 5xx, answer 2xx, or never answer:
\* session.post is given no timeout, so then the call blocks for good.
PostOutcome == {"ConnectionError", "ConnectionDropped", "HTTP5xx", "HTTP2xx", "NoAnswer"}
Delivered(o) == o \in {"ConnectionDropped", "HTTP5xx", "HTTP2xx", "NoAnswer"}

\* What _monitor_performance's requests.post (no timeout either) does after a
\* 2xx: return, raise (the endpoint is unset or unreachable), or block.
MonitorOutcome == {"ok", "raised", "blocked"}

VARIABLES
    doc,          \* the IDoc content handed to process_idoc
    monitorSet,   \* whether MONITORING_ENDPOINT is set
    stage,        \* the step of process_idoc reached
    attempt,      \* tenacity's attempt number of the retried step
    result,       \* "success" or the exception process_idoc raises
    received,     \* POSTs of this IDoc that reached EDS (history)
    faulted       \* whether the network misbehaved (history)

vars == <<doc, monitorSet, stage, attempt, result, received, faulted>>

-----------------------------------------------------------------------------
(* _check_duplicates: the id of a segment is its type and DOCNUM field.    *)
SegId(seg) == <<seg.type, seg.docnum>>

CheckDuplicatesRaises(segs) ==
    LET step(acc, seg) == [seen   |-> acc.seen \cup {SegId(seg)},
                           raised |-> acc.raised \/ SegId(seg) \in acc.seen]
    IN  FoldLeft(step, [seen |-> {}, raised |-> FALSE], segs).raised

(* One attempt of _parse_idoc: ET.fromstring, _validate_schema, then       *)
(* _check_duplicates; it depends on the content only.                      *)
ParseFails(d) ==
    \/ ~d.wellFormed
    \/ d.schema \notin {"3.0", "4.0"}
    \/ CheckDuplicatesRaises(d.segments)

\* tenacity's attempt counter of the retried step.
NextAttempt(a) == a + 1

\* The counter of _parse_idoc's retries.
NextParseAttempt(a) == a + 1

\* stop_after_attempt(3) lets another attempt run.  Mutant: one too many.
DispatchRetryAllowedOffByOne(a) == a <= DispatchAttempts
DispatchRetryAllowed(a) == a < DispatchAttempts

-----------------------------------------------------------------------------
Finish(r) == stage' = "done" /\ result' = r

ValidateSignature ==
    /\ stage = "signature"
    /\ IF ValidateSignatureDefined
       THEN stage' = "parse" /\ attempt' = 1 /\ UNCHANGED result
       ELSE Finish("AttributeError") /\ UNCHANGED attempt
    /\ UNCHANGED <<doc, monitorSet, received, faulted>>

\* Mutant: the schema version is not checked.
ParseIDocNoSchema ==
    /\ stage = "parse"
    /\ IF ~doc.wellFormed \/ CheckDuplicatesRaises(doc.segments)
       THEN IF attempt < ParseAttempts
            THEN attempt' = NextParseAttempt(attempt) /\ UNCHANGED <<stage, result>>
            ELSE Finish("RetryError") /\ UNCHANGED attempt
       ELSE stage' = "transform" /\ UNCHANGED <<attempt, result>>
    /\ UNCHANGED <<doc, monitorSet, received, faulted>>

\* Mutant: _check_duplicates is not called.
ParseIDocNoDuplicates ==
    /\ stage = "parse"
    /\ IF ~doc.wellFormed \/ doc.schema \notin {"3.0", "4.0"}
       THEN IF attempt < ParseAttempts
            THEN attempt' = NextParseAttempt(attempt) /\ UNCHANGED <<stage, result>>
            ELSE Finish("RetryError") /\ UNCHANGED attempt
       ELSE stage' = "transform" /\ UNCHANGED <<attempt, result>>
    /\ UNCHANGED <<doc, monitorSet, received, faulted>>

ParseIDoc ==
    /\ stage = "parse"
    /\ IF ParseFails(doc)
       THEN IF attempt < ParseAttempts
            THEN attempt' = NextParseAttempt(attempt) /\ UNCHANGED <<stage, result>>
            ELSE Finish("RetryError") /\ UNCHANGED attempt
       ELSE stage' = "transform" /\ UNCHANGED <<attempt, result>>
    /\ UNCHANGED <<doc, monitorSet, received, faulted>>

(* _normalize_data finds no _handle_<segment> method and keeps only the    *)
(* metadata; _transform_to_edi calls .get on config["edi_mappings"] (None  *)
(* as _load_mappings returns nothing), then reads metadata["message_type"],*)
(* a key _extract_control_segment never sets.                              *)
NormalizeTransform ==
    /\ stage = "transform"
    /\ CASE ~MappingsLoaded       -> Finish("AttributeError") /\ UNCHANGED attempt
         [] ~MessageTypeInControl -> Finish("KeyError") /\ UNCHANGED attempt
         [] OTHER -> stage' = "dispatch" /\ attempt' = 1 /\ UNCHANGED result
    /\ UNCHANGED <<doc, monitorSet, received, faulted>>

(* One attempt of _dispatch_to_eds: session.post, raise_for_status, then   *)
(* _monitor_performance, whose requests.post raises when the endpoint is   *)
(* unset (always, then) or unreachable.  Any exception retries the whole   *)
(* method; a POST that never answers leaves process_idoc blocked.          *)
DispatchToEDS ==
    /\ stage = "dispatch"
    /\ \E o \in PostOutcome, m \in MonitorOutcome :
          /\ m # "raised" => (o = "HTTP2xx" /\ monitorSet)
          /\ received' = received + (IF Delivered(o) THEN 1 ELSE 0)
          /\ faulted' = (faulted \/ o # "HTTP2xx" \/ m # "ok")
          /\ CASE o = "NoAnswer" \/ m = "blocked" ->
                    stage' = "blocked" /\ UNCHANGED <<attempt, result>>
               [] o = "HTTP2xx" /\ m = "ok" ->
                    stage' = "ack" /\ UNCHANGED <<attempt, result>>
               [] DispatchRetryAllowed(attempt) ->
                    attempt' = NextAttempt(attempt) /\ UNCHANGED <<stage, result>>
               [] OTHER -> Finish("RetryError") /\ UNCHANGED attempt
    /\ UNCHANGED <<doc, monitorSet>>

(* _send_acknowledgement is empty; the message id is returned.            *)
SendAcknowledgement ==
    /\ stage = "ack"
    /\ Finish("success")
    /\ UNCHANGED <<doc, monitorSet, attempt, received, faulted>>

Init ==
    /\ doc \in Doc
    /\ monitorSet \in BOOLEAN
    /\ stage = "signature"
    /\ attempt = 0
    /\ result = "none"
    /\ received = 0
    /\ faulted = FALSE

Next ==
    \/ ValidateSignature \/ ParseIDoc \/ NormalizeTransform
    \/ DispatchToEDS \/ SendAcknowledgement

(* process_idoc runs in one thread.  Only safety is checked: a POST       *)
(* without a timeout may never return, so no fairness is assumed.          *)
Spec == Init /\ [][Next]_vars

-----------------------------------------------------------------------------


IDocTypeOK ==
    /\ doc \in Doc /\ monitorSet \in BOOLEAN
    /\ stage \in {"signature", "parse", "transform", "dispatch", "ack", "done",
                  "blocked"}
    /\ attempt \in 0..(IF ParseAttempts > DispatchAttempts THEN ParseAttempts
                                                         ELSE DispatchAttempts)
    /\ result \in {"none", "success", "AttributeError", "RetryError", "KeyError"}
    /\ received \in 0..DispatchAttempts /\ faulted \in BOOLEAN

(* process_idoc returns success only for an IDoc that is well formed, of a *)
(* supported schema and without repeated segment ids, after EDS received  *)
(* it at least once.                                                       *)
SuccessMeansValidAndDelivered ==
    result = "success" =>
        /\ doc.wellFormed /\ doc.schema \in {"3.0", "4.0"}
        /\ ~CheckDuplicatesRaises(doc.segments)
        /\ received >= 1


(* The refinement mapping: process_idoc is pending until stage "done" (a  *)
(* call blocked in a POST stays pending), an                                *)
(* exception is an error, EDS's deliveries are the POSTs it received, and *)
(* the acceptable IDocs are those _parse_idoc accepts.                     *)
Contract == INSTANCE IDocContract
    WITH status <- IF stage = "done" THEN "done" ELSE "pending",
         outcome <- CASE result = "none"    -> "none"
                      [] result = "success" -> "success"
                      [] OTHER              -> "error",
         deliveries <- received,
         Acceptable <- {d \in Doc : ~ParseFails(d)},
         MaxDeliveries <- DispatchAttempts

(* process_idoc implements its contract: every step of the pipeline is a  *)
(* delivery to EDS, a return or a raise of the contract, or leaves it     *)
(* unchanged.  So EDS receives only an IDoc _parse_idoc accepts, also on   *)
(* calls that end in an exception, and never more often than               *)
(* _dispatch_to_eds has attempts; success needs a delivered IDoc.          *)
ImplementsContract == Contract!Spec

(* When process_idoc logs "IDoc processing failed" and raises, EDS has not *)
(* received the IDoc.                                                      *)
FailedIDocNotDelivered ==
    (stage = "done" /\ result # "success") => received = 0

=============================================================================
