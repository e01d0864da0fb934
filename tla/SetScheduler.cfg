SPECIFICATION Spec
CONSTANTS
    Delays <- NearAndFar
    MaxEvents = 6
    MaxBuckets = 4
INVARIANTS HeapOrdered SizeExact NothingBehindTheDay
PROPERTIES ImplementsEventList RemoveTakesOne
CHECK_DEADLOCK FALSE
