----------------------------- MODULE VCGAuction -----------------------------
(***************************************************************************)
(* CombinatorialAuctionVCG of                                              *)
(* src/platform/market_mechanism/auction_engine/combinatorial.py: the      *)
(* constructor (_validate_bids, the MILP of _setup_optimization_model) and *)
(* compute_vcg_payments with _compute_exclusion_welfare over a clone of    *)
(* the solver.                                                             *)
(*                                                                         *)
(* The SCIP solver is replaced by its specification: Solve returns some    *)
(* optimal allocation (which one, among equal optima, is the solver's      *)
(* choice).  A bid is a record; the bids are a sequence, in the order the  *)
(* loop of compute_vcg_payments visits them.  Values are small integers.  *)
(***************************************************************************)
EXTENDS Naturals, Sequences, FiniteSets, FiniteSetsExt

CONSTANTS
    Item,                 \* self.items
    BidLists,             \* the bid lists a caller can pass
    ShadowPricesBuild     \* FALSE: solver.Constraint(item) is not a lookup

VARIABLES
    bids,        \* self.bids
    lookup,      \* bidder -> the bid whose variable LookupVariable("x_<bidder>") finds
    phase,       \* "solve", "loop", "done"
    alloc,       \* indices of bids with x[bid].solution_value() > 0.5
    welfare,     \* social_welfare
    k,           \* the loop's position in self.bids
    winners,     \* package -> bidder
    payments,    \* bidder -> payment (defaultdict(float))
    outcome      \* "none", "result" or the exception raised

vars == <<bids, lookup, phase, alloc, welfare, k, winners, payments, outcome>>

Idx == 1..Len(bids)
BiddersOf(bs) == {bs[i].bidder : i \in 1..Len(bs)}

-----------------------------------------------------------------------------
\* _validate_bids: hash((package, bidder_id, nonce)) seen twice.
HasDuplicateBid(bs) ==
    \E i, j \in 1..Len(bs) :
        i < j /\ <<bs[i].package, bs[i].bidder, bs[i].nonce>>
                   = <<bs[j].package, bs[j].bidder, bs[j].nonce>>

\* The item constraints 0 <= sum of x over bids containing the item <= 1.
Feasible(S) ==
    \A i \in Item : Cardinality({b \in S : i \in bids[b].package}) <= 1

\* The objective: the sum of bid values over the allocated bids.
Value(S) == MapThenSumSet(LAMBDA b : bids[b].value, S)

\* The optimum over the allocations that keep x fixed to 0 for Banned.
BestWelfare(Banned) ==
    Max({Value(S) : S \in {T \in SUBSET (Idx \ Banned) : Feasible(T)}})

(* _compute_exclusion_welfare over _clone_solver: clone.x maps every bid   *)
(* of a bidder to the one variable named "x_<bidder>" that LookupVariable  *)
(* finds, so SetBounds(0, 0) fixes only that variable.                     *)
ExclusionWelfare(bidder) == BestWelfare({lookup[bidder]})

\* payment = social_welfare - (exclusion_value - bid.value), floored at 0.
\* Mutant: the Clarke pivot payment, exclusion_value - (welfare - value).
PaymentClarke(w, excl, v) ==
    IF excl - (w - v) < 0 THEN 0 ELSE excl - (w - v)
Payment(w, excl, v) ==
    IF w - (excl - v) < 0 THEN 0 ELSE w - (excl - v)

\* The next bid of "for bid in self.bids".  Mutant: every other bid is skipped.
NextBidSkip(i) == i + 2
NextBid(i) == i + 1

-----------------------------------------------------------------------------
(* self.solver.Solve(), the objective value, then the shadow prices, read *)
(* with solver.Constraint(item), which builds no lookup in pywraplp.       *)
Solve ==
    /\ phase = "solve"
    /\ \E S \in SUBSET Idx :
          /\ Feasible(S) /\ Value(S) = BestWelfare({})
          /\ alloc' = S /\ welfare' = Value(S)
    /\ IF ShadowPricesBuild
       THEN phase' = "loop" /\ UNCHANGED outcome
       ELSE phase' = "done" /\ outcome' = "TypeError"
    /\ UNCHANGED <<bids, lookup, k, winners, payments>>

(* One iteration of "for bid in self.bids": a winning bid's bidder is      *)
(* charged (overwriting an earlier charge) and its package recorded.      *)
PayBid ==
    /\ phase = "loop" /\ k <= Len(bids)
    /\ LET b == bids[k] IN
       IF k \in alloc
       THEN /\ payments' = [x \in DOMAIN payments \cup {b.bidder} |->
                              IF x = b.bidder
                              THEN Payment(welfare, ExclusionWelfare(b.bidder), b.value)
                              ELSE payments[x]]
            /\ winners' = [p \in DOMAIN winners \cup {b.package} |->
                              IF p = b.package THEN b.bidder ELSE winners[p]]
       ELSE UNCHANGED <<payments, winners>>
    /\ k' = NextBid(k)
    /\ UNCHANGED <<bids, lookup, phase, alloc, welfare, outcome>>

\* The loop is over: the AllocationResult is returned.
ReturnResult ==
    /\ phase = "loop" /\ k > Len(bids)
    /\ phase' = "done" /\ outcome' = "result"
    /\ UNCHANGED <<bids, lookup, alloc, welfare, k, winners, payments>>

(* The constructor: _validate_bids raises on a repeated bid; otherwise the *)
(* variables are named x_<bidder_id>.                                     *)
Init ==
    /\ bids \in BidLists
    /\ lookup \in {f \in [BiddersOf(bids) -> 1..Len(bids)] :
                      \A x \in DOMAIN f : bids[f[x]].bidder = x}
    /\ alloc = {} /\ welfare = 0 /\ k = 1
    /\ winners = [p \in {} |-> "none"] /\ payments = [x \in {} |-> 0]
    /\ IF HasDuplicateBid(bids)
       THEN phase = "done" /\ outcome = "ValueError"
       ELSE phase = "solve" /\ outcome = "none"

Next == Solve \/ PayBid \/ ReturnResult

Spec == Init /\ [][Next]_vars

-----------------------------------------------------------------------------
AuctionTypeOK ==
    /\ bids \in BidLists /\ phase \in {"solve", "loop", "done"}
    /\ alloc \subseteq Idx /\ k \in 1..Len(bids) + 1
    /\ outcome \in {"none", "result", "ValueError", "TypeError"}
    /\ DOMAIN payments \subseteq BiddersOf(bids)

(* What compute_vcg_payments charges: every charged bidder pays at least  *)
(* the value of a bid it won.  A VCG payment never exceeds the winner's   *)
(* bid; this one never falls below it, as the exclusion welfare cannot    *)
(* exceed the social welfare.                                             *)
ChargedAtLeastBid ==
    \A x \in DOMAIN payments :
        \E b \in alloc : b < k /\ bids[b].bidder = x /\ payments[x] >= bids[b].value
=============================================================================
