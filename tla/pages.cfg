\* Two requests, one host with two uploads, a cache that keeps a page one tick.
CONSTANTS
    Host = {h1}
    Req = {r1, r2}
    TTL = 1
    MaxTime = 2
    MaxVersion = 2
SPECIFICATION Spec
SYMMETRY MCSymmetry
INVARIANTS
    TypeOK
    FreshEnough
    NeverPostdated
