SPECIFICATION Spec
CONSTANTS
  j1 = j1
  Job = {j1, j2}
  NoJob = NoJob
  Shell = Shell
  OutsideSignals = {}
  Pid <- MCPid
  Cmds <- MixedCmds
  MaxCmds = 2
  Amp = {TRUE, FALSE}
  Builtins = {"fg"}
  JidArgs = {}
  MaxJid = 3
INVARIANTS Inv LaunchUnreaped GroupsExist JobListExact
