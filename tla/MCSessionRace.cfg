\* perf writes its last sample while marshal_perf posts the times.
SPECIFICATION Spec
CONSTANTS
  local = local
  remote = remote
  Nodes = {local, remote}
  Local = local
  Scripts <- OneNode
  MaxSamples = 1
  MaxTime = 4
INVARIANT
  TimesSurvive
