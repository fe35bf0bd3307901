SPECIFICATION Spec
CONSTANTS
    Children = {"base", "quirks", "css", "object2", "style", "script", "object"}
    Kind <- Named
    Empty = {}
    Failures = {"data", "start", "box"}
    MaxEdits = 2
    MaxMet = 2
INVARIANTS NoFault ActiveExact NeverStranded SheetsBeforeBoxes StoppedIsNotShown
  
CHECK_DEADLOCK FALSE
