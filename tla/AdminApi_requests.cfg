SPECIFICATION AdminSpec
CONSTANTS
    m1 = m1
    Policies = {p1, p2, p3}
    Models = {m1}
    Allowlists <- Lists
    Requests = {t1, t2}
    MaxChanges = 1
    None = None
    Editors = {e1, e2}
    MaxVersions = 3
INVARIANTS OneActive VersionsCountUp RollbackReverts ReferencesStay
PROPERTIES TakeoverComplete RequestsEnd
