\* No ring is needed: one submission, and a wait for a later fence.
SPECIFICATION Spec
CONSTANTS
  Null = Null
  Thread = {t1, t2}
  Handlers = {"SUBMIT_COMMANDS", "WAIT_FENCE"}
  Page = {p1}
  Size = 20
  Counts = {1}
  MaxFence = 2
  MaxCalls = 3
CHECK_DEADLOCK FALSE
PROPERTIES
  WaitMeansReached
