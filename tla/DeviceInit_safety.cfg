\* Two IRPs, with no symmetry because of the liveness property; two BAR
\* addresses and a spare, and two maps of the PSP's own view.
SPECIFICATION FairSpec
CONSTANTS
  Null = Null
  Thread = {t1, t2}
  Va = {v1, v2, v3}
  PspVa = {p1, p2}
INVARIANTS
  TypeOK
  NoSelfDeadlock
  OneFullInit
  WindowMapping
  PublishedIsMapped
  RingExcludesInit
PROPERTIES
  BusyEnds
