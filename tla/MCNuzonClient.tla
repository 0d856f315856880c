--------------------------- MODULE MCNuzonClient ---------------------------
(* Instances of NuzonClient: callers s1, s2 are threads calling execute,   *)
(* a1, a2 coroutines calling execute_async, t1 a thread iterating stream.  *)
EXTENDS NuzonClient

MCMode == [c \in Caller |-> CASE c \in {"a1", "a2"} -> "async"
                              [] c = "t1"           -> "stream"
                              [] OTHER              -> "sync"]

\* Two calls of each execute caller, one stream.
MCMaxCalls == [c \in Caller |-> IF c = "t1" THEN 1 ELSE 2]
=============================================================================
