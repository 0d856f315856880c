\* Four items; the bid lists of MCVCGAuction.  The shadow-price lookup is
\* supplied so that the payment loop is reached.
CONSTANTS
    Item = {1, 2, 3, 4}
    BidLists <- MCBidLists
    ShadowPricesBuild = TRUE

SPECIFICATION Spec

\* compute_vcg_payments returns once and the program ends.
CHECK_DEADLOCK FALSE

INVARIANTS
AuctionTypeOK
ChargedAtLeastBid
