\* Two imports of one directory into one database overlap.
CONSTANTS
    Host = {h1}
    Class = {c1}
    Importer = {i1, i2}
    MaxVersion = 1
    MaxFaults = 0
    None = None
SPECIFICATION Spec
SYMMETRY MCSymmetry
INVARIANT OneBlock
