SPECIFICATION Spec
CONSTANTS
    Importer = {i1, i2, i3}
    File = {f1, f2}
    MaxImports = 4
    MaxKills = 1
INVARIANTS
    MountsAreSound
    ImportsAreSound
CHECK_DEADLOCK FALSE
