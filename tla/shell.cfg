\* Two units fill a pipe; a line has at most three commands.
CONSTANTS
  Program <- Programs
  Does <- Commands
  Inputs <- AnyInputs
  File = {"f", "g"}
  MaxCommands = 3
  StatusSize = 2
  PipeSize = 2
SPECIFICATION ShellSpec
INVARIANT ShellTypeOK
PROPERTIES PipelineEnds HeldByPipe Delivered StrayOutput ReportsLast
CHECK_DEADLOCK FALSE
