SPECIFICATION Spec
CONSTANTS
    i1 = i1  w1 = w1  s1 = s1  b1 = b1  b2 = b2  n1 = n1  n2 = n2  p1 = p1  p2 = p2
    Intent = {i1}
    Plan <- OnePlan
    LocalKey = {p1}
    SignsLink = {p1, p2}
    Message = {1, 2, 3, 4, 5}
    MaxCalls = 2
    MaxDeletions = 1
    Wallet = {w1}
    NoWallet = NoWallet
    Payment = {p1, p2}
    Nonce = {n1, n2}
    Service = {s1}
    Body = {b1, b2}
    Receipt = {}
    NoReceipt = NoReceipt
    PurchaseOf <- NoPurchases
    ReviewId = {1, 2}
    NoRequest = NoRequest
    NoAnswer = NoAnswer
    NoMessage = NoMessage
    NoNonce = NoNonce
INVARIANTS OneReviewPerIntent UnpaidRetryIsSafe
SYMMETRY Symmetry
