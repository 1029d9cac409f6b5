SPECIFICATION Spec
CONSTANTS
  j1 = j1
  Job = {j1, j2, j3}
  NoJob = NoJob
  Shell = Shell
  OutsideSignals = {}
  Pid <- MCPid
  Cmds <- SingleCmds
  MaxCmds = 1
  Amp = {FALSE}
  Builtins = {"jobs", "fg", "stop", "exit"}
  JidArgs = {1, 2}
  MaxJid = 4
INVARIANTS TerminalAtPrompt StatusAtPrompt SequentialInv
