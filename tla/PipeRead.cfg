\* A frame that arrives in two pieces while events go the other way.
SPECIFICATION LinkSpec
CONSTANTS
  CommandSizes = {1, 2}
  EventSizes = {2, 3}
  Limit = 2
  Capacity = 1
  Ring = 1
  MaxLinks = 3
  MaxFrames = 3
  MaxEvents = 3
INVARIANT ValidFramesStayValid
CHECK_DEADLOCK FALSE
