CONSTANTS
  u = u
  p1 = p1
  p2 = p2
  d1 = d1
  Pids = {p1, p2}
  Mixes <- MCMixes
  MaxStarts = 3
  MaxBoots = 2
  Profiles = {d1}
  Devices = {x}
  Users = {u}
  Services = {s}
  Handlers = {h1}
  MaxCommands = 3
CHECK_DEADLOCK FALSE
SPECIFICATION Spec
INVARIANTS OneHolder UserChangesKept 
SYMMETRY MCSymmetry
