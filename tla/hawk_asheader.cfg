\* hawk.go's AsHeader signs; nothing is changed in flight.
CONSTANTS
  d1 = d1
  s1 = s1
  s2 = s2
  None = None
  Devices = {d1}
  Secrets = {s1, s2}
  SecretOf <- MCSecretOf
  Signers = {"AsHeader"}
  Methods <- MCMethods
  Paths <- MCPaths
  Queries <- MCQueries
  HostHeaders <- MCHostHeaders
  CTypes <- MCCTypes
  Bodies <- MCBodies
  Extras <- MCExtras
  TamperFields = {}
  OverridePort = FALSE
SPECIFICATION Spec
INVARIANT SignedVerifies
