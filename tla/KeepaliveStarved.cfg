SPECIFICATION Spec
CONSTANTS
  PING_INTERVAL_S = 3
  idle_timeout = 9
  MaxDelay = 4
  Backlog = 2
  TimerDriven = FALSE
  Chatty = TRUE
INVARIANT LiveClientKept
