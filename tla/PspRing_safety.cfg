\* Two slots and three commands: the ring wraps onto a frame that was left.
SPECIFICATION Spec
CONSTANTS
  Null = Null
  Thread = {t1, t2}
  Initer = {t1}
  RingPage = {r1, r2}
  Stage = {s1, s2}
  Slots = 2
  MaxSubmit = 3
SYMMETRY Symmetry
CHECK_DEADLOCK FALSE
INVARIANTS
  PspReadsLive
  CommandsOnce
