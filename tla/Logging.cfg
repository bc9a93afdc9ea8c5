SPECIFICATION Spec
CONSTANTS
  MaxFrames = 3
  MaxDepth = 2
  MaxInterrupts = 2
  LOG_BUFFER_SIZE = 3
  Filters <- MCFilters
  Prios = {1, 3}
  Ids = {0, 2}
  Sizes = {1, 2}
  MaxMessages = 4
INVARIANT SectionsExclusive
INVARIANT LogsInOrder
PROPERTY EverythingDumped
