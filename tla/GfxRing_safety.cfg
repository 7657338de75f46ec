\* Twenty dwords and four calls: both kinds of wrap happen.
SPECIFICATION Spec
CONSTANTS
  Null = Null
  Thread = {t1, t2}
  Handlers = {"SUBMIT_COMMANDS", "SEND_PM4", "WAIT_FENCE", "SIGNAL_FENCE", "GET_NBIO_STATUS", "RESET_DEVICE", "TDR_RESET"}
  Page = {p1, p2}
  Size = 20
  Counts = {1, 4}
  MaxFence = 1
  MaxCalls = 4

CHECK_DEADLOCK FALSE
INVARIANTS
  PointersAgree
  UnverifiedNeverKicked
  NoRingLeak
PROPERTIES
  KickRunsOwn
SYMMETRY Symmetry
