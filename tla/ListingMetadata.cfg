SPECIFICATION FairSpec
CONSTANTS
    Refresher = {r1, r2}
    Corrector = {k1}
    Nightly = {r1}
    Payee = {p0, p1}
    Known = {p0}
    DeclaredName = {n1}
    DeclaredText = {d1}
    FoundText = {t1}
    CuratedText = curated
    Host = host
    Slug = slug
    NoText = NoText
    Stopped = Stopped
    NoRow = NoRow
    MaxEvidence = 1
INVARIANTS ListingInv FoundIsLabelled
PROPERTIES LostOnlyToNewerOrStaleCopy ListingConverges
