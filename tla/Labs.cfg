SPECIFICATION FairSpec
CONSTANTS
  t1 = t1
  t2 = t2
  Modulus = 20
  Isns = {18}
  Messages <- MCMessages
  Sums = {70000, 131071}
  Resends = 1
  Foreign = 1
  NameLengths = {1, 2, 3, 4, 6, 27}
  Fresh = {0, 255}
  Signed = {FALSE, TRUE}
  Lengths = {0, 1, 5, 125, 126, 512, 1020, 1021, 65535, 65536, 65537}
  Chunks = {1, 3, 4, 600}
  Topics <- MCTopics
  one_topic = t1
  MaxDrops = 2
  MaxMsgs = 3
  MaxLosses = 1
  MaxRepeats = 1
INVARIANTS
  TypeOK
  StreamInOrder
  PromptMeansReceived
  ObjectArrives
  OverOnlyWhenFull
  TextIsMessage
  CloseUnderstood
  EndsAfterBoth
PROPERTIES
  AnswerComes
  Resubscribes
  PublishedArrives
  ConnectEnds
  SlotFreed
  BothSidesEnd
