SPECIFICATION Spec
CONSTANTS
  web1 = web1  web2 = web2
  Requests = {web1, web2}
  MaxSaves = 3
  MaxPuts = 2
SYMMETRY Symmetry
INVARIANTS ReferenceResolves EditsKept
CHECK_DEADLOCK FALSE
