CONSTANTS
  User = u1
  Machines = {m1}
  Volumes = {v1}
  Workers = {w1}
  Pollers = {p1}
  MaxPolls = 1
  None = None
SPECIFICATION Spec
INVARIANT InjectsIntoRunning
