SPECIFICATION Spec

CONSTANTS
  None = None
  Corpora = {d1, d2}
  First = d1
  Disks <- MCDisks
  Requests <- MCRequests
  Filters <- MCFilters
  Faults <- MCFaults
  MaxCommands = 2



PROPERTIES
  RenderedCodeIsCompiled
