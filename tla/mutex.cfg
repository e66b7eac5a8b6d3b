SPECIFICATION FairSpec
CONSTANTS
  t1 = t1
  t2 = t2
  t3 = t3
  Threads = {t1, t2, t3}
  Modes = {TRUE, FALSE}
  MayKill = TRUE
  MaxWord = 4
INVARIANTS OneWinnerPerReset KillReachesSleeper
PROPERTY ContendedSleeperWakes
CHECK_DEADLOCK FALSE
