\* Every handler, one IRP at a time: what the ones without the mutex rely on.
SPECIFICATION Spec
CONSTANTS
  Null = Null
  Thread = {t1}
  Handlers = {"SMU_CPU_MSG", "SMU_MSG_ARGS", "SMU_UNLOCK_STEP", "PCI_SMN_ACCESS", "EXECUTE_RING_PM4",
              "GET_SMU_TELEMETRY", "CORE_UNLOCK", "PSP_SMU_MSG", "INIT_HARDWARE"}
  MaxSent = 5
  PollMax = 2
CHECK_DEADLOCK FALSE
INVARIANTS
  OverrunNeedsTimeout
