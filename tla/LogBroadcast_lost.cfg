SPECIFICATION Spec
CONSTANTS
  Streams = {a, b}
  MaxLines = 2
CHECK_DEADLOCK FALSE
PROPERTY
  EveryLineIsStreamed
