\* Three accounts that share a client id, one of them not allowed; two symbols,
\* one of them blocked; a sale and a purchase of one size, and a sale too large.  Two
\* calls: the second one repeats, contradicts or has nothing to do with the first.
\* Once the calls are made nothing need happen.
SPECIFICATION Spec
CONSTANTS
    Accounts = {a, b, x}
    Cids = {c1}
    Symbols = {s, t}
    Quantities <- MCQuantities
    BlockedSymbols = {t}
    AllowedAccounts = {a, b}
    MaxAbsQty = 2
    PostIds = {p1, p2}
    None = None
    MaxCalls = 2
SYMMETRY PostSymmetry
CHECK_DEADLOCK FALSE
INVARIANTS
    IdempotentReturnsAreFaithful
    HaltBoundsExposure
    OrdersAreVettedAndAudited
