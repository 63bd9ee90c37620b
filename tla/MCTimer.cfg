SPECIFICATION Spec
CONSTANTS
  Timer = {t1, t2, p1}
  Periodic = {p1}
  TickMax = 6
  MaxLate = 2
  Uptime <- BeforeWrap
  Delay <- ShortDelays
  Far = FALSE
  Head = Head
  Overflow = Overflow
  Off = Off
INVARIANTS ListsSound NextTickExact
PROPERTIES ImplementsAlarm 
