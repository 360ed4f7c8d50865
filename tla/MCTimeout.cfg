SPECIFICATION Spec
CONSTANTS
  Milli = 2
  Second = 4
  Timeouts <- MCTimeouts
  Timers <- MCTimers
  Delay = 1
  MaxNow = 14
CHECK_DEADLOCK FALSE
INVARIANTS
  NotTooEarly
  LateButBounded
  LimitOfPhase
  OneWaitAfterInterrupt
