SPECIFICATION Spec
CONSTANTS
  BufNum = 7
  ArgNum = 2
  QueueSize = 2
  MaxRx = 3
  MaxTx = 2
  MaxOther = 1
  UserFrees = FALSE
INVARIANT ReferencesCounted
INVARIANT ArgsExclusive
INVARIANT DeliveredInOrder
INVARIANT SentAsGiven
PROPERTY AllGivenBack
CHECK_DEADLOCK FALSE
