SPECIFICATION FairSpec
CONSTANTS
    None = None
    GradientLen <- OneLen
    PrivacyParameter <- OnePrivacy
    SessionId = {s1}
    TaskId = {t1}
    HpkeConfigId = {c1}
    VerifyKey = {k1}
    Handler = {h1}
    Controller = {p1}
    Client = {i1}
    Wide = {}
    Param <- ParamOf
    Location = {m1, m2}
PROPERTIES
    CallsReturn
    ClientCallsReturn
