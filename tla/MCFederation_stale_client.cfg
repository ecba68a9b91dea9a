SPECIFICATION FreshIdSpec
CONSTANTS
    None = None
    GradientLen <- TwoLens
    PrivacyParameter <- OnePrivacy
    SessionId = {s1}
    TaskId = {t1, t2}
    HpkeConfigId = {c1}
    VerifyKey = {k1, k2}
    Handler = {h1}
    Controller = {p1, p2}
    Client = {i1}
    Wide = {p2}
    Param <- ParamOf
    Location = {m1}
SYMMETRY Symmetry
INVARIANTS
    ReportsFit
