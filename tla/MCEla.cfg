SPECIFICATION Spec
CONSTANTS
  Events <- MCEvents
  PartNumber <- MCPartNumber
  Planars <- MCPlanars
  Processors <- MCProcessors
  MaxEvents = 2
INVARIANTS
  AnalysisForgets
  CalloutsOwn
  NeverSilent
  SrnTellsSymptom
CHECK_DEADLOCK FALSE
