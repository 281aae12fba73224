\* The wire types are searched (force_wiretype false), as McPAT asks for.
SPECIFICATION Spec
CONSTANTS
  NThreads = 2
  NSpd = 2
  NIter = 2
  NSam = 1
  WtMin = 0
  WtMax = 1
  Big = 1000000
  TagTables <- MCTagTables
  DataTables <- MCDataTables
  Configs <- MCConfigs
  Forced <- MCForced
  DelayWt = 1
  DynWt = 1
  DelayDev = 60
  DynDev = 200
INVARIANTS
  TypeOK
  EveryPartitionOnce
  MinimaAreOfTheArrays
  FirstLeastPicked
PROPERTIES
  Terminates
