\* The docstring of LiveExecutor: idempotency by client order id.
SPECIFICATION Spec
CONSTANTS
    Cids = {c1}
    PostIds = {p1, p2}
    NoPost = NoPost
    NoCid = NoCid
    MaxStream = 2
    UniqueOpenIds = TRUE
INVARIANTS
    AtMostOneOrderPerId
