SPECIFICATION FairSpec
CONSTANTS
    w1 = w1  w2 = w2  k1 = k1  k2 = k2  q1 = q1  z1 = z1
    tb = tb  tt = tt  ts = ts  text = text  g1 = g1  g2 = g2  n1 = n1
    None = None
    Wallet = {w1, w2}
    SolanaKey = {k1, k2}
    EvmPayee = {q1}
    SolanaPayee = {z1}
    Tx = {tb, tt, ts, text}
    NetworkOf <- MCNetworkOf
    TransfersOf <- MCTransfersOf
    TrustedKeys = {g1}
    MinAmount = 2
    ReceiptMaxAge = 3
    AttestationMaxAge = 1
    MaxSkew = 1
    Call = {c1, c2}
    Run = {r1, r2}
    Scenario <- MCScenario
    DefaultPinned = {"base", "monad", "solana"}
    MaxReviewId = 3
    MaxAttempts = 2
INVARIANTS VerifiedMeansPaid  OneWeightedReview FinalIsFinal
PROPERTIES NothingTakenBack CandidatesAreDecided
