SPECIFICATION PartSpec
CONSTANT Configs <- AllConfigs
INVARIANT HomeNodeNumbers
