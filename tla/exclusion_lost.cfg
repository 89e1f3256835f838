\* One host and one scrape: an upload, then a second exclusion during the scrape.
CONSTANTS
    Host = {h1}
    Scrape = {s1}
    Regular = s1
    MaxTime = 2
SPECIFICATION Spec
PROPERTY LiftedOnlyIfNewer
