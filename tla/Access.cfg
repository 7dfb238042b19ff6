SPECIFICATION Spec
CONSTANTS
    Users = {u1, u2}
    Apps = {x1}
    Orgs = {o1}
    Files = {f1}
    Keys = {k1}
    Requests = {r1}
    None = None
    Sso = TRUE
    ScopeRequests = {{"*"}, {"files:write"}, {"admin"}}
SYMMETRY Symmetry
INVARIANTS
    BarredCannotBegin
    PermissionsAgree
