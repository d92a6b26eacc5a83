SPECIFICATION MCSpec
CONSTANTS
  ec = ec
  mldsa = mldsa
  sev = sev
  tdx = tdx
  default = default
  custom = custom
  v1 = v1
  v2 = v2
  id1 = id1
  id2 = id2
  alg = alg
  stable = stable
  latest = latest
  ec2 = ec2
  mldsa2 = mldsa2
  s1 = s1
  s2 = s2
  n1 = n1
  n2 = n2
  Keys = {ec, ec2, mldsa, mldsa2}
  EcKeys = {ec, ec2}
  MlDsaKeys = {mldsa, mldsa2}
  TlsSessions = {s1, s2}
  Nonces = {n1, n2}
  GCA = GCA
  OtherType = OtherType
  Ekms <- Material
  Challenge = Challenge
  Audiences = {default, custom}
  DefaultAudience = default
  Models = {sev, tdx}
  Supported = {sev}
  Values = {v1, v2}
  KeyIds = {id1, id2}
  Algs = {alg}
  Attrs = {stable, latest}
  Absent = Absent
  Malformed = Malformed
  NoPolicy = NoPolicy
CHECK_DEADLOCK FALSE
INVARIANTS HandshakeTypeOK AcceptanceIsFresh AcceptedWhenSound AcceptsOnlyEndorsed EndorsedIsAccepted ViolationsAreVerified WeakerAcceptsMore
