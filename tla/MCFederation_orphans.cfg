SPECIFICATION FreshIdSpec
CONSTANTS
    None = None
    GradientLen <- OneLen
    PrivacyParameter <- OnePrivacy
    SessionId = {s1}
    TaskId = {t1}
    HpkeConfigId = {c1}
    VerifyKey = {k1, k2}
    Handler = {h1, h2}
    Controller = {p1, p2}
    Client = {}
    Wide = {p2}
    Param <- ParamOf
    Location = {m1}
SYMMETRY Symmetry
INVARIANTS
    RoundAgreement
    SessionsAgree
    FreshIdInv
PROPERTIES
    EndedAtBoth
    ImplementsRoundLedger
