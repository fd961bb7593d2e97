\* Two accounts of one extension, two saves, a lost answer.
SPECIFICATION Spec
CONSTANTS
    Account = {a1, a2}
    Email = {e1}
    Hook = {w1}
    MaxConnects = 2
    MaxSaves = 2
    MaxFaults = 1
    None = None
    NoKey = NoKey
SYMMETRY MCSymmetry
INVARIANTS
    MaskNeverStored
    LastSaveStands
PROPERTIES
    OnlyOwnerWrites
