CONSTANTS
  Users = {u1}
  Machines = {m1, m2}
  Volumes = {v1, v2}
  Tokens = {k1, k2}
  Starters = {s1, s2}
  Loop = loop
  Admins = {}
  None = None
SPECIFICATION Spec
PROPERTY GuardReleased
