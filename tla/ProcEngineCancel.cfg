CONSTANTS
    r1 = r1
    r2 = r2
    r3 = r3
    None = None
    Requests = {r1, r2, r3}
    Policy <- MCPolicy
    LeavePoints = {"wait", "write", "read"}
    Misbehaves = TRUE
SPECIFICATION Spec
PROPERTY ImplementsRuleEngine
