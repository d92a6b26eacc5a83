SPECIFICATION Spec
CONSTANTS
  Sessions = {s1}
  Conns = {c1}
  None = None
  Life = 12
  Configured = None
  DefaultTimeout = 11
  Skew = 0
PROPERTY SendsBeforeTokenExpires
