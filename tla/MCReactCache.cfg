CONSTANTS
  a = a
  b = b
  a1 = a1
  a2 = a2
  b1 = b1
  b2 = b2
  one = one
  two = two
  three = three
  None = None
  Entry = {1, 2, 3, 4, 5, 6, 7, 8}
  Limits = {2, 4}
  Reader = {one, two, three}
  Preloading = {one}
  MaxSurprises = 2
  Resource <- MCResource
  Objects <- MCObjects
  Reads <- MCReads
SPECIFICATION Spec
CHECK_DEADLOCK FALSE
INVARIANTS
  TypeOK
  CachedIsListed
PROPERTIES
  ResultsStay
  ImplementsRecentlyUsed
  EventuallyTrimmed
  EveryReaderSettles
