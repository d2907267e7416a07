SPECIFICATION Spec
CONSTANTS
    l1 = l1
    l2 = l2
    l3 = l3
    Strings <- MCStrings
    MaxLength = 5
    Garbage <- MCGarbage
SYMMETRY Interchangeable
INVARIANTS DistanceIsEdit NeverLost OpsTransform BlocksAgree
CHECK_DEADLOCK FALSE
