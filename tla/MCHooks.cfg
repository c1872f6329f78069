\* Any five components after one another; then nothing more is rendered.
CONSTANTS
  counter = counter  pair = pair  failing = failing  suspending = suspending
  stubborn = stubborn  endless = endless  forwarded = forwarded  broken = broken
  page = page  widget = widget
  Null = Null
  Component <- MCComponent
  Body <- MCBody
  ForwardRefs <- MCForwardRefs
  RE_RENDER_LIMIT = 3
  MaxRenders = 5
SPECIFICATION FairSpec
INVARIANTS
  TypeOK
  RendersAsAlone
PROPERTIES
  EveryRenderEnds
CHECK_DEADLOCK FALSE
