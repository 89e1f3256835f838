\* One host, two commands at once and one after the other,
\* uploads and an import between any two of their steps, errors and kills at each.
CONSTANTS
    Host = {h1}
    Class = {server, hybrid}
    Proc = {p1, p2}
    Blank = Blank
    None = None
SPECIFICATION Spec
SYMMETRY MCSymmetry
INVARIANTS
    TypeOK
    ReadersSeeAClass
    OrderAfterOverlap
    StoredInBoth
PROPERTY AtomicUnlessOverlapped
