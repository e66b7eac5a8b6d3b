SPECIFICATION FairSpec
CONSTANTS
  main = main
  t1 = t1
  t2 = t2
  Main = main
  Threads = {main, t1, t2}
  Modes = {TRUE, FALSE}
  Started <- MCStarted
  Codes = {1}
  States <- MCStates
  Doing = {"finish", "interrupt", "kill", "kernel", "signal thread", "test"}
INVARIANT MirrorShowsRequest
PROPERTIES KillSticks ExitCodeReachesMain FinishEndsProcess
