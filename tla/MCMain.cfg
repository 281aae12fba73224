SPECIFICATION Spec
CONSTANTS
  MAX_NUM_CORES = 2
  Inputs <- AllInputs
INVARIANTS TypeOK ReadsFilledEntries ChipWhole
PROPERTIES Terminates
