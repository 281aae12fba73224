\* A script measures one node, this machine or another.
SPECIFICATION Spec
CONSTANTS
  local = local
  remote = remote
  Nodes = {local, remote}
  Local = local
  Scripts <- OneNode
  MaxSamples = 2
  MaxTime = 4
INVARIANTS
  TypeOK
  OneSessionALog
  TimesOfThisRun
  StoppedSamplesAnalysed
PROPERTIES
  StoppedPerfEnds
