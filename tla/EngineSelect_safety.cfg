\* All handlers; the two that are not serialised by DeviceMutex run alone.
SPECIFICATION Spec
CONSTANTS
  Null = Null
  Thread = {t1, t2, t3}
  Handlers = {"WGP_HALT_PROBE", "EXECUTE_RING_PM4", "WGP_BANK_PROBE", "UNLOCK_40CU", "GET_CU_STATUS"}
  Alone = {"WGP_BANK_PROBE", "UNLOCK_40CU"}
SYMMETRY Symmetry
INVARIANTS
  LiveStateRestored
  HandlersHold
  ProbeTellsTruth
