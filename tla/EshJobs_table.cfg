SPECIFICATION FairSpec
CONSTANTS
  j1 = j1
  Job = {j1, j2}
  NoJob = NoJob
  Shell = Shell
  OutsideSignals = {"SIGSTOP"}
  Pid <- MCPid
  Cmds <- PipeCmds
  MaxCmds = 2
  Amp = {FALSE}
  Builtins = {"fg"}
  JidArgs = {}
  MaxJid = 2
PROPERTIES ImplementsJobTable
