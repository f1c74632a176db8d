CONSTANTS
    a = a
    b = b
    c = c
    d = d
    e = e
    f = f
    g = g
    Names = {a, b, c, d, e, f, g}
    BadName = bad
    Systems <- SmallSystems
    MaxDepth = 4
    MaxNodes = 6
    MaxImports = 2
SPECIFICATION Spec
INVARIANTS TypeOK Complete WithinLimits SummaryExact
PROPERTIES Implements
CHECK_DEADLOCK FALSE
