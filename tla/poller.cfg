SPECIFICATION FairSpec
CONSTANTS
  p = p
  q = q
  r = r
  d = d
  e = e
  Threads = {t1, t2}
  Plain = {p, q, r}
  Delayed = {d, e}
  Exit = Exit
  Forever = Forever
  Then <- Chain
  Delay <- Delays
  Period <- Periods
  PipeSize = 2
  MaxSpent = 1
INVARIANTS TypeOK WakesUp NoOversleep LeftBehind
PROPERTIES RunnerSpec EveryTaskRuns TimersFire
CHECK_DEADLOCK FALSE
