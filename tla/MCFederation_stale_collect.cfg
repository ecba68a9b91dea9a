SPECIFICATION FreshIdSpec
CONSTANTS
    None = None
    GradientLen <- OneLen
    PrivacyParameter <- OnePrivacy
    SessionId = {s1}
    TaskId = {t1}
    HpkeConfigId = {c1}
    VerifyKey = {k1, k2}
    Handler = {h1}
    Controller = {p1}
    Client = {}
    Wide = {}
    Param <- ParamOf
    Location = {m1}
SYMMETRY Symmetry
INVARIANTS
    CollectsActiveRound
