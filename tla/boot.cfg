SPECIFICATION FairSpec
CONSTANTS
    r1 = r1
    r2 = r2
    url = url
    main = main
    other = other
    c1 = c1
    c2 = c2
    None = None
    Runs = {r1, r2}
    URLs = {url}
    Revisions = {main, other}
    Commits = {c1, c2}
    Requests <- AllRequests
    InitialRepositories <- AnyVolume
    MaxFaults = 2
    MaxCrashes = 2
    MaxEdits = 1
INVARIANTS
    MarkerTrue
PROPERTIES
    MarkerOnce
    ContentKept
    RetrySucceeds
