\* One page and a job of up to three events.
CONSTANTS
  Reader = {p}
  Page = p
  Channel = {c}
  Job = c
  NoChannel = NoChannel
  Stage = {"uploaded", "rule_based", "done", "error"}
  Terminal = {"done", "error"}
  MaxEvents = 3
SPECIFICATION PageSpec
PROPERTY DoneLeadsToVerify
CHECK_DEADLOCK FALSE
