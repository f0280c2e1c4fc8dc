CONSTANTS
  User = u1
  Machines = {m1, m2}
  Volumes = {v1, v2}
  Workers = {w1, w2}
  Pollers = {p1}
  MaxPolls = 1
  None = None
SPECIFICATION SafeSpec
SYMMETRY Symmetric
INVARIANT TypeOK KeyHasDeadline PolledLinkIsWhole
PROPERTY DestroyIsConfirmed
