\* Two strings, or a stream and a string; the system stops when both are over.
CONSTANTS
  q1 = q1  q2 = q2  q3 = q3  q4 = q4  c1 = c1  d1 = d1  d2 = d2
  default = default  one = one  two = two  page = page  user = user
  boundary = boundary  async1 = async1  who1 = who1  nested = nested
  async2 = async2  who2 = who2  end = end  form = form  choice = choice
  options = options  async3 = async3  option = option  none = none
  article = article  title = title  first = first  async4 = async4
  within = within  para = para  gap = gap  second = second  author = author
  async5 = async5  whom = whom  foot = foot  card = card  None = None
  Element <- MCElement
  Shape <- MCShape
  Context <- MCContext
  Default <- MCDefault
  Request <- MCRequest
  Groups <- MCGroups
  Root <- MCRoot
  Streams = {q3}
  Static = {q4}
  Chunk = 3
  Data = {d1, d2}
  FailingData = {}
  InitialSize = 4
  MaxSize = 8
SPECIFICATION FairSpec
INVARIANTS
  TypeOK
  FetchesInParallel
  WaitsAtBoundary
PROPERTIES
  ImplementsMarkupStream
CHECK_DEADLOCK FALSE
