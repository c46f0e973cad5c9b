SPECIFICATION Spec
CONSTANTS
    e1 = e1  e2 = e2
    a1 = a1  a2 = a2  b1 = b1  slug = slug  plan = plan
    Endpoint = {e1, e2}
    Payee = {a1, a2, b1, slug, plan}
    Family <- Families
    Offers <- Advertised
    Call = {c1, c2, c3}
    Asked <- Questions
    Legacy <- LegacyId
    NoEndpoint = NoEndpoint
    NoPayee = NoPayee
    NoService = NoService
    NoCall = NoCall
    NoAnswer = NoAnswer
    NoIdentity = NoIdentity
SYMMETRY CallSymmetry
INVARIANTS IdentityInv OneServicePerEndpoint ReviewFollowsEndpoint OnePaidPayeePerFamily PaidPayeeIsRegistered PayeesAreProven TaughtIsAccepted
