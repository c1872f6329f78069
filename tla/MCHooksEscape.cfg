\* The limit of the source; a component that throws again when it is called again.
CONSTANTS
  counter = counter  pair = pair  failing = failing  suspending = suspending
  stubborn = stubborn  endless = endless  forwarded = forwarded  broken = broken
  page = page  widget = widget
  Null = Null
  Component <- Escaping
  Body <- MCBody
  ForwardRefs = {}
  RE_RENDER_LIMIT = 25
  MaxRenders = 2
SPECIFICATION Spec
INVARIANTS
  AlreadyReset
CHECK_DEADLOCK FALSE
