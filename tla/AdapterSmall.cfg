CONSTANTS
    Arguments <- OneOfEach
    MaxArguments = 4
    Dated <- DatedFlags
    Skia <- SkiaFlags
    Hsw <- HswFlags
    Responses = {r1, r2, r3}
    Refused = {r3}
    MaxCalls = 2
SPECIFICATION Spec
INVARIANTS CompiledUnlessBad NothingDropped LinkedFresh
CHECK_DEADLOCK FALSE
