CONSTANTS
  Timers = {t1, t2}
  NoTimer = NoTimer
  StartTime = 1
  MaxClock = 2
  MaxGeneration = 3
  PendingCounts = {0}
  ObservationCounts = {0}
  TalkPct = 70
  CuriosityPct = 60
  ReflectPct = 80
  RestPct = 90
  TalkIdle = 2
  CuriosityIdle = 2
  ReflectEpisodes = 2
  RestUptime = 1
  RestSuppress = 1
  ActiveIdle = 1
SPECIFICATION Spec
INVARIANT NoDoubleArm
SYMMETRY TimerSymmetry
