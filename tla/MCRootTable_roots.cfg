SPECIFICATION FairSpec
CONSTANTS
  list = list  tree = tree
  Threads = {t1, t2}
  Ids = {list, tree}
  Addrs = {a1, a2}
  Nodes = {n1, n2, n3}
  Null = Null
  hashfn <- OneBucket
INVARIANTS GetReturnsRoot FaultIsCollision
PROPERTY CallsReturn
