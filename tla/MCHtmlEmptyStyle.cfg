SPECIFICATION Spec
CONSTANTS
    Children = {"base", "style"}
    Kind <- Named
    Empty = {"style"}
    Failures = {}
    MaxEdits = 1
    MaxMet = 1
INVARIANT NeverStranded
CHECK_DEADLOCK FALSE
