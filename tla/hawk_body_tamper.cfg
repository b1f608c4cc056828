\* A spec-4.1 client signs; the network may change the body.
CONSTANTS
  d1 = d1
  s1 = s1
  s2 = s2
  None = None
  Devices = {d1}
  Secrets = {s1, s2}
  SecretOf <- MCSecretOf
  Signers = {"Client"}
  Methods <- MCMethods
  Paths <- MCPaths
  Queries <- MCQueries
  HostHeaders <- MCHostHeaders
  CTypes <- MCCTypes
  Bodies <- MCBodies
  Extras <- MCExtras
  TamperFields = {"body"}
  OverridePort = FALSE
SPECIFICATION Spec
INVARIANT Authentic
