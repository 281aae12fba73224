\* even_bin starts at one second (two ticks); the bins are half a second, one
\* second and one and a half; perf samples after half or one and a half.
SPECIFICATION Spec
CONSTANTS
  instructions = instructions
  cycles = cycles
  MaxSamples = 4
  Gaps = {1, 3}
  Stats <- MCStats
  Rates <- MCRates
  TimeStamps <- MCTimeStamps
  OneSecond = 2
  StartTime = 10
  BinSizes = {1, 2, 3}
INVARIANTS
  TypeOK
  TimeConserved
  ValueConserved
  BinsHoldTheirEvents
PROPERTIES
  RecordedIsFinal
