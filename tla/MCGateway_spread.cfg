\* Four concurrent picks among two workers that are up throughout, as in
\* TestPickSpreadsConcurrentLoad.
CONSTANTS
    r1 = r1
    r2 = r2
    r3 = r3
    r4 = r4
    Requests = {r1, r2, r3, r4}
    NumWorkers = 2
    MaxInflight = 4
    Crashes = FALSE
    SlowProbes = FALSE
    Signals = FALSE
SYMMETRY Symmetry
SPECIFICATION Spec
INVARIANT WithinOneOfMean
