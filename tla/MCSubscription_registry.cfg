\* Two listeners of a window of the items of a folder and one of all of them; every
\* call may fail.
CONSTANTS
  l1 = l1  l2 = l2  l3 = l3
  Listeners = {l1, l2, l3}
  Request <- InboxRequest
  Sinks = {s1, s2}
  NoListener = NoListener
  NoSink = NoSink
  Faults = {"load", "advise", "notify"}
  MaxChanges = 2
SPECIFICATION FairSpec
INVARIANTS
  OneSinkPerKey EveryListenerRegistered ListenersConnected HeardFromOwnSink NothingMissed
PROPERTIES
  EveryChangeHeard EveryRequestAnswered ImplementsFeed
CHECK_DEADLOCK FALSE
