\* Two requests for one slot, and two workers that crash and restart but
\* answer probes in time while they are up.
CONSTANTS
    r1 = r1
    r2 = r2
    r3 = r3
    r4 = r4
    Requests = {r1, r2}
    NumWorkers = 2
    MaxInflight = 1
    Crashes = TRUE
    SlowProbes = FALSE
    Signals = TRUE
SPECIFICATION FairSpec
PROPERTIES
    SlotReturned
    Ejected
    Rejoins
