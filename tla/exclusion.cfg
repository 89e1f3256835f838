\* One host, two scrapes, a clock of two seconds.
CONSTANTS
    Host = {h1}
    Scrape = {s1, s2}
    Regular = s1
    MaxTime = 2
SPECIFICATION FairSpec
INVARIANTS
    TypeOK
    HiddenOnlyIfSilent
PROPERTY FreedEventually
