SPECIFICATION Spec
CONSTANTS
  j1 = j1
  Job = {j1, j2}
  NoJob = NoJob
  Shell = Shell
  OutsideSignals = {"SIGCONT", "SIGKILL"}
  Pid <- MCPid
  Cmds <- SingleCmds
  MaxCmds = 1
  Amp = {TRUE, FALSE}
  Builtins = {"jobs", "fg", "bg", "kill", "stop", "exit"}
  JidArgs = {1}
  MaxJid = 3
INVARIANTS TypeOK NoLostSigchld WaitWillReturn
PROPERTIES KeepsJobTable
