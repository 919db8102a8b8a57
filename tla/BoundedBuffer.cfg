CONSTANTS
  N = 3
  Mutex = {buffer_monitor}
  MAX_MONITOR_CONDS = 2
  Producers = {2}
  Consumers = {3}
  BUFFER_SIZE = 2
  ProducerTicks = 1
  ConsumerTicks = 3
  ItemWrap = 4
SPECIFICATION FairSpec
INVARIANTS CursorsAgree NobodyWaitsInVain
PROPERTIES ImplementsChannel PassCompletes
