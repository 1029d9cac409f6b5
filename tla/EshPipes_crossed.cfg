SPECIFICATION Spec
CONSTANTS
  OpenMax = 7
  j1 = j1
  j3 = j3
  j2 = j2
  Job = {j1, j2}
  NoJob = NoJob
  Shell = Shell
  MaxCmds = 2
  Pipe <- MCPipe
  Cmds <- CrossedCmds
  Redirs <- CrossedRedirs
INVARIANT ReadsPredecessor
