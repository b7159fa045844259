CONSTANTS
  Timers = {t1, t2}
  NoTimer = NoTimer
  StartTime = 1
  MaxClock = 3
  MaxGeneration = 3
  PendingCounts = {0, 5}
  ObservationCounts = {2}
  TalkPct = 70
  CuriosityPct = 60
  ReflectPct = 80
  RestPct = 90
  TalkIdle = 2
  CuriosityIdle = 2
  ReflectEpisodes = 2
  RestUptime = 1
  RestSuppress = 1
  ActiveIdle = 1
SPECIFICATION FairSpec
INVARIANTS ArmedIsOwned RaisedIsAnnounced
PROPERTIES RestNotifiedMonotone ImplementsFlags LoopContinues QuiescesAfterStop
