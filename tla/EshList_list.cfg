SPECIFICATION Spec
CONSTANTS
  Job = {j1, j2, j3}
  Elem = {j1, j2, j3}
  job_head = job_head
  job_tail = job_tail
  pipes_head = pipes_head
  pipes_tail = pipes_tail
  Sentinel <- MCSentinel
  NULL = NULL
  MaxLine = 2
INVARIANTS RingIntact WalkVisitsJobs ListInv
PROPERTIES WalkEnds ImplementsJobTable
