\* Nine dwords a SEND_PM4, three of them for the fence: a draw of four is split.
SPECIFICATION Spec
CONSTANTS
  Thread = {t1, t2}
  c1 = c1
  c2 = c2
  Cb <- MCCb
  Submits <- MCSubmits
  Cmds = 9
  Eop = 3
  Packet = 4
  Capacity = 6
  None = None
  Other = Other
  Nop = Nop
  Va = {v1, v2, v3}
  Slots = 2
  MaxCalls = 5
SYMMETRY Symmetry
CHECK_DEADLOCK FALSE
INVARIANTS
  SubmitWhole
  FencesNew
  HandleNamesOwn
