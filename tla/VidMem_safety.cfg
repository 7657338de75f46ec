\* No deadlock check: an unload ends it.  An update that is lost ends a run too.
SPECIFICATION VMSpec
CONSTANTS
  Radv = {"radv"}
  D3d = {"d3d"}
  r1 = r1
  r2 = r2
  d1 = d1
  Thread = {r1, r2, d1}
  ProcOf <- Owner
  Va = {a1, a2}
  Mdl = {m1, m2, m3}
  Block = {k1}
  Bo = {b1, b2}
  MdlSlots = 2
  BoSizes = {3}
  CounterWrap = 4
  Null = Null
SYMMETRY Symmetry
CONSTRAINT Untorn
CHECK_DEADLOCK FALSE
INVARIANTS
  TableTracks
  BoBacked
  Accounting
