\* Two hosts, keys created and replaced while uploads are between the queries
\* of the key database. One kind and one body: contents do not matter here.
CONSTANTS
    Host = {h1, h2}
    Kind = {records}
    ClassKind = class
    Body <- OneBody
    Huge <- NoHuge
    ClassOf <- NoClass
    Token = {k1, k2, k3}
    Req = {r1, r2}
    Temp = {t1, t2}
    Perms = {}
    InitUmask = {}
    Flags = {TRUE, FALSE}
    MaxOrphans = 0
    None = None
    Bogus = Bogus
SPECIFICATION Spec
SYMMETRY MCAuthSymmetry
INVARIANTS
    AdmissionSound
PROPERTY AtomicEffect
