\* One import at a time, run again and again; two hosts, two uploads each.
CONSTANTS
    Host = {h1, h2}
    Class = {c1, c2}
    Importer = {i1}
    MaxVersion = 2
    MaxFaults = 1
    None = None
SPECIFICATION FairSpec
INVARIANTS
    TypeOK
    OneBlock
    AllOrNothing
    RowsDated
PROPERTIES
    DatabaseClassesSurvive
    Repaired
    ReplacedAtOnce
