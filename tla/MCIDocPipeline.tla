-------------------------- MODULE MCIDocPipeline --------------------------
(* Inbound IDocs: an order header with one item, an order with two items  *)
(* of the same segment type, a true repeat, a bare header, malformed XML, schema 2.0.  *)
EXTENDS IDocPipeline

Header == [type |-> "E1EDK01", docnum |-> "None", fields |-> "f1"]
Item1  == [type |-> "E1EDP01", docnum |-> "None", fields |-> "f2"]
Item2  == [type |-> "E1EDP01", docnum |-> "None", fields |-> "f3"]

MCDoc ==
    { [wellFormed |-> TRUE,  schema |-> "3.0", segments |-> <<Header, Item1>>],
      [wellFormed |-> TRUE,  schema |-> "4.0", segments |-> <<Header, Item1, Item2>>],
      [wellFormed |-> TRUE,  schema |-> "3.0", segments |-> <<Item1, Item1>>],
      [wellFormed |-> FALSE, schema |-> "3.0", segments |-> <<>>],
      [wellFormed |-> TRUE,  schema |-> "4.0", segments |-> <<Header>>],
      [wellFormed |-> TRUE,  schema |-> "2.0", segments |-> <<Header>>] }
=============================================================================
