SPECIFICATION FairSpec
CONSTANTS
    s1 = s1  s2 = s2  a = a  b = b  c = c  w1 = w1  w2 = w2
    None = None
    Service = {s1, s2}
    Owner = {a, b, c}
    Wallet = {w1, w2}
    WalletTrust <- MCWalletTrust
    Slashed = {}
    Theta = 2
    Cap = 3
    Floor <- MCFloor
    Gain = 1
    Loss = 2
    Scale = 60
    Scenario <- MCScenario
    MaxReviewId = 6
INVARIANTS NoRingEarnsTrust OneVotePerOwner ScoresExact
PROPERTIES ScoresHeal
