CONSTANTS
    r1 = r1
    r2 = r2
    e1 = e1
    e2 = e2
    Runtimes = {r1, r2}
    EvidenceFiles = {e1, e2}
    Missing = Missing
    NoCert = NoCert
    MaxReceipts = 2
SYMMETRY MCSymmetry
SPECIFICATION Spec
INVARIANTS
    TypeOK
    VerifiedEvidenceSeen
    HonestClaimsVerify
    ClassIsEarned
