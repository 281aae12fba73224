\* The same; the constraints may be met by different searches.
SPECIFICATION Spec
CONSTANTS
  Arrays <- MCArrays
  throughput = 14
  latency = 20
  Big = 1000
INVARIANT
  MissIsWarned
