SPECIFICATION KernelFairSpec
CONSTANTS
  a = a
  b = b
  c = c
  x = x
  main = main
  signal = signal
  Registered <- ThreeServices
  Unregistered <- Missing
  Critical <- TwoCritical
  Graphs <- AllGraphs
  Stopper <- Tasks
  SignalDuringStart = FALSE
  MaxStarts = 2
  MaxBusFaults = 1
INVARIANTS
  OrderIsKept
  PhaseTellsTheTruth

  
CHECK_DEADLOCK FALSE
