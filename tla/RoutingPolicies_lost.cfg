SPECIFICATION Spec
CONSTANTS
    Policies = {p1, p2, p3}
    Models = {m1}
    Allowlists = {{m1}}
    Requests = {t1, t2}
    MaxChanges = 0
    None = None
PROPERTY ActivationActivates
