CONSTANTS
  s1 = s1
  s2 = s2
  s3 = s3
  u1 = u1
  Streams <- MCThree
  Users <- MCOneUser
  UserOf <- MCAllOfOne
  QueueMaxSize = 2
  MaxSubscribers = 2
  ReapEveryEmits = 2
  FullThreshold = 2
  MaxEvents = 5
SPECIFICATION Spec
INVARIANTS TypeOK SubscriberCap BooksAgree QueueIsTheNewestTail LeaksOnlyBeforeStart
SYMMETRY MCAlike
CHECK_DEADLOCK FALSE
