CONSTANTS
  Users = {u1, u2}
  Machines = {m1, m2}
  Volumes = {v1, v2}
  Tokens = {k1, k2}
  Starters = {s1, s2}
  Loop = loop
  Admins = {a1}
  None = None
SPECIFICATION SafeSpec
SYMMETRY Symmetric
INVARIANT TypeOK CredentialsMatch SingleFlight DataOutlivesMachine
PROPERTY RecordKept ImplementsRegistry
