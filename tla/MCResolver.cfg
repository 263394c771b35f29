SPECIFICATION Spec
CONSTANTS
  SecretLike = {"API_KEY"}
  MinTimeout = 1
  MaxTimeout = 86400
  Mistyped = Mistyped
  NoFile = NoFile
  BadNames = {"Bad"}
  Worlds <- MCWorlds
  Accesses <- MCAccesses
  Root = "default"
  MaxOpens = 2
INVARIANTS
  CeilingsHold
  ProjectOnlyNarrows
  PolicyWithinGrants
  AcceptedPolicyDerives
PROPERTY Terminates
