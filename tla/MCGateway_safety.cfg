\* Three requests for two slots and two workers that crash, restart and are
\* slow to answer probes.
CONSTANTS
    r1 = r1
    r2 = r2
    r3 = r3
    r4 = r4
    Requests = {r1, r2, r3}
    NumWorkers = 2
    MaxInflight = 2
    Crashes = TRUE
    SlowProbes = TRUE
    Signals = FALSE
SYMMETRY Symmetry
SPECIFICATION Spec
INVARIANTS
    TypeOK
    SlotsConserved
    InflightConserved
    NoneBetterPassedOver
