\* The senders that wait for the mailbox.  No deadlock check: MaxSent ends it.
SPECIFICATION FairSpec
CONSTANTS
  Null = Null
  Thread = {t1, t2}
  Handlers = {"SMU_CPU_MSG", "PCI_SMN_ACCESS"}
  MaxSent = 4
  PollMax = 2
CHECK_DEADLOCK FALSE
INVARIANTS
  PortPaired
  OwnAnswer
PROPERTIES
  IsService
  HandlersEnd
