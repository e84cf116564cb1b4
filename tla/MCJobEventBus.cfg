\* One generator of two sessions, two channel objects, three events: a clean-up
\* and a new channel in the middle of a stream, mixed stages.
CONSTANTS
  Session = {s1, s2}
  Subscriber = {u1}
  Channel = {c1, c2}
  Stage = {"rule_based", "done"}
  NoChannel = NoChannel
  Sentinel = Sentinel
  MaxEvents = 3
SPECIFICATION FairSpec
INVARIANTS
  InOrderOnce
  MissedOnlyBeforeJoining
  ListenersAreLive
  NothingAfterTerminal
  StreamInv
PROPERTIES
  QueuedEndEndsStream
  ImplementsStream
CHECK_DEADLOCK FALSE
