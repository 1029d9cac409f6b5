SPECIFICATION Spec
CONSTANTS
  Plugin = {p1, p2, p3}
  Elem = {p1, p2, p3}
  head = head
  tail = tail
  Sentinel <- MCSentinel
  NULL = NULL
  MaxRank = 2
  HookSets <- MCHookSets
INVARIANTS ListKept SortedStably AssertionsHold RunsHalve NotifiedInRank PluginsInv
PROPERTIES InitInRank SortEnds
