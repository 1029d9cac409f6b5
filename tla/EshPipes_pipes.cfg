SPECIFICATION Spec
CONSTANTS
  OpenMax = 9
  j1 = j1
  j2 = j2
  j3 = j3
  Job = {j1, j2, j3}
  NoJob = NoJob
  Shell = Shell
  MaxCmds = 3
  Pipe <- MCPipe
  Cmds <- PipesCmds
  Redirs <- PipesRedirs
INVARIANTS WiredAsTyped ShellKeeps PipesInv
PROPERTIES KeepsChain ImplementsChain
