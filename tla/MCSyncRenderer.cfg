\* Streams and strings that miss data in all combinations, or call renderToString,
\* with two thread IDs; the system stops when every request is over.
CONSTANTS
  q1 = q1  q2 = q2  q3 = q3  q4 = q4  q5 = q5  c1 = c1  d1 = d1  d2 = d2  default = default
  one = one  two = two  page = page  user = user  outer = outer
  nested = nested  other = other  async1 = async1  async2 = async2  who = who
  footer = footer  form = form  choice = choice  options = options
  menu = menu  option = option  asyncOption = asyncOption  none = none
  lonely = lonely  site = site  widget = widget  panel = panel
  plugin = plugin  broken = broken  brokenInner = brokenInner
  thrower = thrower  reader = reader  host = host  strict = strict
  helper = helper  crash = crash  asyncRoot = asyncRoot  feed = feed  None = None
  Element <- MCElement
  Shape <- MCShape
  Context <- MCContext
  Default <- MCDefault
  Data = {d1, d2}
  Request <- MCRequest
  Groups <- MCGroups
  Root <- MCRoot
  Streams = {q1, q3, q5}
  Static = {q2}
  Chunk = 2
  InitialSize = 3
  MaxSize = 3
SPECIFICATION FairSpec
INVARIANTS
  TypeOK
  ThreadIDsAccounted
  NothingLeftBehind
PROPERTIES
  ImplementsMarkupStream
CHECK_DEADLOCK FALSE
