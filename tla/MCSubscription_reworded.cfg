\* Two wordings of one request.
CONSTANTS
  l1 = l1  l2 = l2  l3 = l3
  Listeners = {l1, l2}
  Request <- RewordedRequest
  Sinks = {s1, s2}
  NoListener = NoListener
  NoSink = NoSink
  Faults = {}
  MaxChanges = 1
SPECIFICATION Spec
INVARIANTS
  NothingMissed
CHECK_DEADLOCK FALSE
