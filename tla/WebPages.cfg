SPECIFICATION Spec
CONSTANTS MaxClicks = 2
          MaxEdits = 2
          MaxFaults = 1
          None = None
INVARIANTS TypeOK OwnEditsShown 
PROPERTIES SubmittedOnce ImpactCurrent
CHECK_DEADLOCK FALSE
