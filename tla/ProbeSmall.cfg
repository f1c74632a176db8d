CONSTANTS
    app = app
    dep = dep
    rt = rt
    other = other
    Names <- FourNames
    BadName = badName
    Blank = blank
    Runtimes <- TwoRuntimes
    Machines <- SmallMachines
    MaxItems = 3
SPECIFICATION Spec
INVARIANTS Balanced FreshVerdicts ExitCode
CHECK_DEADLOCK FALSE
