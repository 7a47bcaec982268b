SPECIFICATION AdmissionSpec
CONSTANTS
    t1 = t1
    x1 = x1
    s1 = s1
    c1 = c1
    None = None
    Tags = {t1}
    Users = {"u1", "u2"}
    Cores = {x1, s1}
    TypeOf <- MCTypeOf
    Protocols <- MCProtocols
    NodeTypes = {"vless", "mieru"}
    Stray = Stray
    Texts <- MCTexts
    MaxOps = 6
    Conns = {c1}
    TagOf <- MCTagOf
    DestOf <- MCDestOf
    ProtoOf <- MCProtoOf
    RuleSets <- MCRuleSets
    BadRule = "bad"
    UserSets <- MCUserSets
INVARIANTS
    OneHome
    OptionsMatchCore
    UncheckedNeedsTeardown
    RulePanicNeedsReload
    LimiterIsCurrent
PROPERTY
    ActsAsOneCore
CHECK_DEADLOCK FALSE
