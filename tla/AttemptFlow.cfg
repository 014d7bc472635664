SPECIFICATION FairSpec
CONSTANTS
  MaxFaults = 1
  Sheet <- MCSheet
  MaxViolations = 2
  WarningSeconds = 2
INVARIANTS TypeOK GuardsHold DotsExplainScore ReviewAgrees
PROPERTIES WaitEnds WarningEnds
