--------------------------- MODULE MCVCGAuction ---------------------------
(* Bid lists for VCGAuction: the example of combinatorial.py (values in   *)
(* hundreds), a tie between two optimal allocations, a bidder with two    *)
(* bids, and a repeated bid.                                               *)
EXTENDS VCGAuction

Bid(x, p, v, n) == [bidder |-> x, package |-> p, value |-> v, nonce |-> n]

\* The example at lines 157-162.
Example == <<Bid("bidder1", {1, 2}, 5, "n1"), Bid("bidder2", {3, 4}, 8, "n2"),
             Bid("bidder3", {1, 2, 3, 4}, 12, "n3")>>

A1 == Bid("A", {1}, 2, "n1")
A2 == Bid("A", {2}, 1, "n2")
B1 == Bid("B", {2}, 2, "n1")
C1 == Bid("C", {1, 2}, 3, "n1")
C2 == Bid("C", {1, 2}, 4, "n1")
A3 == Bid("A", {3}, 1, "n3")
D1 == Bid("D", {3, 4}, 2, "n1")

MCBidLists ==
    { Example,
      <<A1, B1, C1>>,
      <<C2, A1, B1>>,          \* two optima of welfare 4
      <<A1, B1, A2, C1>>,      \* A bids twice
      <<A2, C1, A1>>,
      <<A1, A3, B1, C1>>,      \* A wins two packages
      <<B1, A2, A1, A3, C2>>,
      <<D1, C1, A1, B1, A2>>,
      <<A1, Bid("A", {1}, 3, "n1")>> }   \* the same package, bidder and nonce
=============================================================================
