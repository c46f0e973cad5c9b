SPECIFICATION FairSpec
CONSTANTS
    w1 = w1  w2 = w2  p1 = p1  n1 = n1
    s1 = s1  s2 = s2  b1 = b1  b2 = b2  q1 = q1
    Wallet = {w1, w2}
    Payment = {p1}
    Nonce = {n1}
    Service = {s1, s2}
    Body = {b1, b2}
    Receipt = {q1}
    NoReceipt = NoReceipt
    PurchaseOf <- PurchaseOfReceipt
    NoWallet = NoWallet
    NoRequest = NoRequest
    NoAnswer = NoAnswer
    NoCall = NoCall
    NoReview = NoReview
    Call = {c1, c2, c3}
    ReviewId = {1, 2, 3}
    Asked <- NonceRequests
INVARIANTS DeletedStaysDeleted ScoresMatchReviews AcceptedIsKept RetryNamesSameReview
PROPERTY EveryCallIsAnswered
