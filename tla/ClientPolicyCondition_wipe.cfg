\* A save sent before the policy list has loaded: SaveNeverDropsPolicies is violated.
CONSTANTS
    PolicyNames = {"P", "Q"}
    PolicyName = "P"
    Types = {"t1", "t2"}
    Configs = {"empty", "c1"}
    EmptyConfig = "empty"
    MaxConds = 2
    MayFail = {TRUE, FALSE}
    MaxOps = 2
    MaxOther = 1
    Absent = Absent
    Hole = Hole
    Undef = Undef
SPECIFICATION Spec
CHECK_DEADLOCK FALSE
PROPERTIES
    SaveNeverDropsPolicies
