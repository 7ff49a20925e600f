CONSTANTS
  m1 = m1
  m2 = m2
  s1 = s1
  s2 = s2
  s3 = s3
  Identities = {m1, m2}
  Sockets = {s1, s2, s3}
  BaseName = BaseName
  None = None
  MaxTokens = 3
SPECIFICATION Spec
INVARIANTS
  ConnectedIsListed
