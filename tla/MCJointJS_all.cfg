\* Two nodes, three links; a graph with parallel links, a torn one and garbage are loaded.
CONSTANTS
  a = a
  b = b
  l1 = l1
  l2 = l2
  p = p
  Free = Free
  Garbage = Garbage
  NoJson = NoJson
  NoCell = NoCell
  Nodes <- TwoNodes
  Links <- ThreeLinks
  Permanent <- OnePermanent
  Looks = {0, 1}
  Views = {0, 1}
  Datas = {0, 1}
  Saved <- ToLoad
  MaxOps = 4
SPECIFICATION FairSpec
INVARIANTS JointTypeOK LinksAreWhole 
PROPERTY ViewIsTold
CHECK_DEADLOCK FALSE
