SPECIFICATION Spec
CONSTANTS
  j1 = j1
  Job = {j1}
  NoJob = NoJob
  Shell = Shell
  OutsideSignals = {}
  Pid <- MCPid
  Cmds <- PipeCmds
  MaxCmds = 2
  Amp = {FALSE}
  Builtins = {"jobs"}
  JidArgs = {}
  MaxJid = 2
PROPERTIES WaitsForPipeline
