\* Cycles of 10 and 14 meet the throughput, accesses of 10 the latency.
SPECIFICATION Spec
CONSTANTS
  Arrays <- MCArrays
  throughput = 14
  latency = 20
  Big = 1000
INVARIANTS
  TypeOK
  
  BestTimingLeft
  MemoryOwned
