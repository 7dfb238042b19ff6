SPECIFICATION Spec
CONSTANTS
    Providers = {"google", "github"}
    Subjects = {s1}
    Emails = {e1, e2}
    Accounts = {u1, u2, u3}
    Flows = {f1, f2, f3}
    Requests = {r1, r2}
    None = None
CHECK_DEADLOCK FALSE
SYMMETRY Symmetry
INVARIANTS
    FlowSignsInOnce
    SessionIsOfVerifiedEmail
