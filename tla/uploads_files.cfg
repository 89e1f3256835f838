\* One host, every kind of body, two uploads at once, I/O errors and crashes.
\* An open daemon without keys and one permission class keep it small.
CONSTANTS
    Host = {h1}
    Kind = {records, class}
    ClassKind = class
    Body <- MCBodies
    Huge <- MCHuge
    ClassOf <- MCClassOf
    Token = {}
    Req = {r1, r2}
    Temp = {t1, t2, t3}
    Perms = {}
    InitUmask = {}
    Flags = {TRUE}
    MaxOrphans = 1
    None = None
    Bogus = Bogus
SPECIFICATION Spec
SYMMETRY MCSymmetry
INVARIANTS
    TypeOK
    FilesAreWhole
PROPERTY AtomicEffect
