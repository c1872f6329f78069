CONSTANTS
  top = top
  outer = outer
  inner = inner
  mount = mount
  c1 = c1
  c2 = c2
  c3 = c3
  h1 = h1
  h2 = h2
  h3 = h3
  h4 = h4
  r1 = r1
  None = None
  Update = {mount, c1, c2, c3, h1, h2, r1}
  Noops = {mount}
  Replacing = {r1}
  WithCallback = {c1, r1}
  Root = top
  Functions = {inner}
  MountUpdate = mount
  Offset = 20
  HighExpiration = 2
  HighBatch = 2
  LowExpiration = 6
  LowBatch = 4
  Times = {20, 15}
  Kids <- MCKids
  Target <- MCTarget
  Event <- MCEvent
  Reaction <- MCReaction
  ChildLists <- MCChildLists
  OnlyChildren <- MCOnlyChildren
SPECIFICATION Spec
CHECK_DEADLOCK FALSE
INVARIANTS
  TypeOK
  PendingMarked
  NoTearing
  CommitsOtherTree
  NothingForgotten
  ReconciledInOrder
PROPERTIES
  CallbackAfterCommit
  ImplementsStateUpdates
