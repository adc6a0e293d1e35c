SPECIFICATION ScreenSpec
CHECK_DEADLOCK FALSE
CONSTANTS
  MaxEvents = 2
  MaxBatch = 2
  MaxBacklog = 2
  MaxBreaks = 1
PROPERTIES
  ListsBecomeCurrent
