SPECIFICATION SystickSpec
CONSTANTS
  Half = 8
  Sec = 60
  MaxSecs = 10
  Freq = 10
  ClockFreq = 30
  Boot = {0, 7}
  MaxLateCounts = 7
  MaxCounts = 84
  Thread = {t1}
  Nanos = {0, 1, 6, 7, 17, 131}
  NoTimer = NoTimer
INVARIANTS TicksExact NotEarly NotLate
