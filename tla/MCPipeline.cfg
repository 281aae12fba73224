\* Bins of a second; a pool of two (the program's own is one).
SPECIFICATION Spec
CONSTANTS
  Lists <- WithOrNoL3
  Works <- MCWorks
  Zeros <- MCZeros
  Cuts <- MCCuts
  Samples = 5
  BinSize = 2
  OneSecond = 2
  StartTime = 10
  CORES = 2
  HW_THREADS = 4
  WORKER_THREADS = 2
  OldConfigs = {{}, {0, 4}}
INVARIANTS
  TypeOK
  PowerOfItsBin
  OutputsOfTheirFiles
PROPERTIES
  WholeLogAnalysed
