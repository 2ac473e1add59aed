SPECIFICATION RingSpec
CONSTANTS
  IndexSpace = 8
  Capacities = {0, 1, 2, 3, 7}
  Values = {a, b}
PROPERTIES
  RingIsFifo
