SPECIFICATION PartSpec
CONSTANT Configs <- AllConfigs
INVARIANTS PartTypeOK NoDanglingPointer NumbersAssigned OwnNumbers
PROPERTY ImplementsModel
