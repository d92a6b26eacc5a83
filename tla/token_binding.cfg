SPECIFICATION Spec
CONSTANTS
  Keys = {k1, k2, k3, k4, k5, k6}
  NoKey = NoKey
  NoToken = NoToken
  h1 = h1
  h2 = h2
  main = main
  worker = worker
  Main = main
  Handlers = {h1}
  Processes = {main}
  Home <- UvicornHome
  Refresher = Refresher
  Free = Free
  Orphan = Orphan
  Kinds = {"jwt"}
  Life = 3
  Mark = 2
  Jitter = 1
  Retry = 1
  Latency = 1
  MaxFaults = 1
INVARIANT ResponseTokenBindsKeys
