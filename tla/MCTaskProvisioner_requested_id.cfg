SPECIFICATION Spec
CONSTANTS
    None = None
    GradientLen <- OneLen
    PrivacyParameter <- OnePrivacy
    SessionId = {s1}
    TaskId = {t1}
    HpkeConfigId = {c1}
    VerifyKey = {k1, k2}
    Collector = {p1}
    Handler = {h1, h2}
    RequestRole = {"Leader"}
    ExplicitIds = {s1}
    Requests <- WellFormedRequests
PROPERTIES
    RequestedIdNotReplaced
