\* Two overlapping requests on one order against the table of validate_status.
SPECIFICATION Spec
CONSTANTS
  w1 = w1
  w2 = w2
  c1 = c1
  o1 = o1
  o2 = o2
  Orders = {o1}
  WebWorkers = {w1, w2}
  CeleryWorkers = {}
  AutoCompleteDays = 1
  HasProfile = {o1}
  MaxCrashes = 0
PROPERTIES
  FlowSpec
