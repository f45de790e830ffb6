CONSTANTS
  a = a
  g = g
  x = x
  p = p
  q = q
  None = None
  Names <- MCNames
  Providers <- MCProviders
  YamlNames <- MCYamlNames
  Yaml <- MCYaml
  SaveRequests <- MCSaveRequests
  OverrideRequests <- MCOverrideRequests
  KeyRequests <- MCKeyRequests
  EnvKeys = {p}
  MaxRequests = 4
  MaxCrashes = 1
SPECIFICATION Spec
INVARIANTS TypeOK ServedAsStored ServedHasKey AskedIsServed
PROPERTY HiddenStaysOut
