CONSTANTS
  N = 3
  Kbd = kbd_monitor
  Mutex = {kbd_monitor}
  MAX_MONITOR_CONDS = 1
  KBD_BUFFER_SIZE = 2
  SleepTicks = 1
  MaxKeys = 1
SPECIFICATION FairSpec
PROPERTY KeysAreEchoed
