SPECIFICATION Spec
CONSTANTS
    WindowSize = 3
    Lengths = {10, 30}
    MissedCounts = {0, 1, 21}
    MaxAdds = 6
    MaxAdjusts = 1
INVARIANT
    WindowIsLast
