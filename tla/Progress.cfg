SPECIFICATION Spec
PROPERTIES
  DutiesEnd
  RequestsEnd
  WaitsEnd
CHECK_DEADLOCK FALSE
