SPECIFICATION Spec
CONSTANTS
    Refresher = {r1}
    Corrector = {}
    Nightly = {r1}
    Payee = {p1}
    Known = {}
    DeclaredName = {n1}
    DeclaredText = {d1}
    FoundText = {t1}
    CuratedText = curated
    Host = host
    Slug = slug
    NoText = NoText
    Stopped = Stopped
    NoRow = NoRow
    MaxEvidence = 20
INVARIANTS EvidenceIsKept
