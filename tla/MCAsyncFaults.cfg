\* Errors and destroyed streams where nobody suspends, or failing data and a
\* healthy stream; two thread IDs.  A request whose data failed waits forever.
CONSTANTS
  q1 = q1  q2 = q2  q3 = q3  q4 = q4  q5 = q5  q6 = q6  q7 = q7  q8 = q8
  q9 = q9  c1 = c1  c2 = c2  d1 = d1  d2 = d2  d3 = d3  default = default
  one = one  two = two  page = page  user = user  inside = inside  host = host
  who = who  thrower = thrower  early = early  lonely = lonely  async2 = async2
  aside = aside  bad = bad  boundary = boundary  suspender = suspender
  card = card  textual = textual  feed = feed  asyncWho = asyncWho
  data1 = data1  board = board  shared = shared  quiet = quiet  None = None
  Element <- MCElement
  Shape <- MCShape
  Context <- MCContext
  Default <- MCDefault
  Request <- MCRequest
  Groups = {{q1, q2, q3}, {q4, q5}}
  Root <- MCRoot
  Streams = {q1, q3, q5, q8, q9}
  Static = {}
  Chunk = 2
  Data = {d1, d2, d3}
  FailingData = {d3}
  InitialSize = 3
  MaxSize = 3
SPECIFICATION FairSpec
INVARIANTS
  NothingLeftBehind
  MarkupInOrder
PROPERTIES
  HealthyRequestsSettle
CHECK_DEADLOCK FALSE
