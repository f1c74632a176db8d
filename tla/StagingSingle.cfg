CONSTANTS
    p = p
    q = q
    a = a
    b = b
    bad = bad
    Targets = {t1}
    Names = {1, 2}
    Images = {a, b, bad}
    X64 = {a, b}
    Roots = {p, q}
    Requests <- SingleRequests
    Layouts <- TwoLayouts
    AppImages = {b}
    PublishWhileStaging = FALSE
    MaxPublish = 1
    MaxKills = 1
SPECIFICATION Spec
INVARIANTS StagedClosure RetiredGone
CHECK_DEADLOCK FALSE
