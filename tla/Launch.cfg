SPECIFICATION Spec
CONSTANTS
  None = None
  NotSet = NotSet
  Blank = Blank
  a = a
  b = b
  Statuses <- MCStatuses
  Projections <- MCProjections
  Inputs <- MCInputs
  Stops = {"setup", "scout_move", "movement"}
  MaxDecisions = 2
  CoreCalls = {"get_view", "submit_finite"}
  Sizes = {1, 2}
  DefaultMaxBytes = 4
  MaxCalls = 2
  TailRows = 2
INVARIANTS TypeOK CheckpointIsShown NewestRowsKept CallsAreTracedAhead ReportEndsWithFailure
PROPERTIES PayloadIsOwned StartEnds
CHECK_DEADLOCK FALSE
