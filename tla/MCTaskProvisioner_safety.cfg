SPECIFICATION Spec
CONSTANTS
    None = None
    GradientLen <- OneLen
    PrivacyParameter <- OnePrivacy
    SessionId = {s1, s2}
    TaskId = {t1, t2}
    HpkeConfigId = {c1, c2}
    VerifyKey = {k1, k2}
    Collector = {p1}
    Handler = {h1, h2}
    RequestRole = {"Leader", "Client"}
    ExplicitIds = {None, s1, s2}
    Requests <- AllRequests
SYMMETRY SessionSymmetry
INVARIANTS
    TypeOK
    ListedTasksProvisioned
    TaskListedOnce
    RepliesSound
    IInv
    CallerInv
    OneKeypairPerConfigId
PROPERTIES
    TasksWriteOnce
    RoundIsolated
