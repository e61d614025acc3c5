SPECIFICATION FairSpec
CONSTANTS
  a1 = a1
  a2 = a2
  s1 = s1
  s2 = s2
  Projects = {p1, p2}
  Apps = {a1, a2}
  Secrets = {s1, s2}
  Forms <- MCForms
  Requests = {r1, r2}
  Fetches = {f1}
  MaxRequests = 3
  MaxRestarts = 1
  NoBot = NoBot
  NoOne = NoOne
INVARIANTS
  TypeOK
  OwnersAreConnected
  SupervisorFollowsConfig
  ActiveIsServed
  TokensFollowConfig
  SharedSecretsAgree
  NoRequestIsStranded
PROPERTIES RequestsEnd
CHECK_DEADLOCK FALSE
