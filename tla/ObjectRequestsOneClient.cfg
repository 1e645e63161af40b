SPECIFICATION FairSpec
CONSTANTS
  a = a
  b = b
  Stranger = Stranger
  Absent = Absent
  Order <- TwoInOrder
  Primary = b
  Retries = 1
  MaxRevision = 2
  Arrivals <- EveryArrival
  Reviews <- ReviewNames
  ObjectWishes <- TwoWishes
  Names <- AllNames
INVARIANTS
  TypeOK
  AnswerIsTruthful
  AnnotationsAreObeyed
  NotFoundMeansNowhere
  StreamGoesToAnOwner
PROPERTIES
  PutReplacesWhatItRead
  RoutedAsDocumented
  EveryRequestIsAnswered
CHECK_DEADLOCK FALSE
