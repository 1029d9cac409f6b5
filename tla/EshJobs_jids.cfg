SPECIFICATION Spec
CONSTANTS
  j1 = j1
  Job = {j1, j2, j3}
  NoJob = NoJob
  Shell = Shell
  OutsideSignals = {}
  Pid <- MCPid
  Cmds <- SingleCmds
  MaxCmds = 1
  Amp = {TRUE}
  Builtins = {"jobs"}
  JidArgs = {}
  MaxJid = 3
INVARIANTS DistinctJids
